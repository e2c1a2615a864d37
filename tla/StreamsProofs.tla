--------------------------- MODULE StreamsProofs ---------------------------
(***************************************************************************)
(* Proofs about what runs beside the requests, for any number of clients,  *)
(* workers, lines, alerts, probes and pods: the sinks, the registry of the *)
(* WebSocket hub, log streams, alerts, shutdown, health and pods' commands.*)
(***************************************************************************)
EXTENDS
  BoundedSink, HubRegistry, LogStream, Alerts, Server, Health, PodCalls,
  FiniteSetTheorems, SequenceTheorems, TLAPS

-----------------------------------------------------------------------------
(* BoundedSink: what Close leaves behind came after it had begun.          *)

LEMMA ToSetAppend ==
  ASSUME NEW S, NEW s \in Seq(S), NEW e
  PROVE  ToSet(Append(s, e)) \subseteq ToSet(s) \cup {e}
  BY DEF ToSet

LEMMA ToSetTail ==
  ASSUME NEW S, NEW s \in Seq(S), s # <<>>
  PROVE  ToSet(Tail(s)) \subseteq ToSet(s)
  BY DEF ToSet

-----------------------------------------------------------------------------
(* Types.                                                                  *)

LEMMA BecomesType ==
  ASSUME SinkTypeOK, NEW w \in Workers, NEW pc \in {"wait", "look", "drain", "gone"}, Becomes(w, pc)
  PROVE  SinkTypeOK'
<1>1. At(pc) \in [pc : {"wait", "look", "drain", "gone"}, entry : {0}]
  BY DEF At
<1> QED
  BY <1>1 DEF SinkTypeOK, Becomes

LEMMA TakeType == ASSUME SinkTypeOK, NEW w \in Workers, Take(w) PROVE SinkTypeOK'
<1>1. Head(ch) \in Entries /\ Tail(ch) \in Seq(Entries) /\ Len(Tail(ch)) <= Cap
  BY SinkAssumption DEF Take, SinkTypeOK
<1>2. worker'[w] \in [pc : {"write", "drainwrite"}, entry : Entries]
  BY <1>1 DEF Take, SinkTypeOK
<1>3. \A v \in Workers \ {w} : worker'[v] = worker[v]
  BY DEF Take, SinkTypeOK
<1> QED
  BY <1>1, <1>2, <1>3 DEF Take, SinkTypeOK

LEMMA SendType == ASSUME SinkTypeOK, NEW c \in Callers, Send(c) PROVE SinkTypeOK'
<1>1. next \in Entries /\ next' \in 1..(MaxEntries + 1)
  BY SinkAssumption DEF Send, Decided, SinkTypeOK, Entries
<1>2. ch' \in Seq(Entries) /\ Len(ch') <= Cap
  BY <1>1, SinkAssumption DEF Send, SinkTypeOK
<1>3. refused' \subseteq Entries /\ late' \subseteq Entries
  BY <1>1 DEF Send, SinkTypeOK
<1> QED
  BY <1>1, <1>2, <1>3 DEF Send, Decided, SinkTypeOK

LEMMA CallType == ASSUME SinkTypeOK, NEW c \in Callers, Call(c) PROVE SinkTypeOK'
<1>1. next \in Entries /\ next' \in 1..(MaxEntries + 1)
  BY SinkAssumption DEF Call, SinkTypeOK, Entries
<1> QED
  BY <1>1 DEF Call, SinkTypeOK

LEMMA CloseType ==
  ASSUME SinkTypeOK, NEW c \in Closers, BeginClose(c) \/ FinishClose(c) \/ Join(c)
  PROVE  SinkTypeOK'
  BY DEF SinkTypeOK, BeginClose, FinishClose, Join, Close

LEMMA TypeNext == SinkTypeOK /\ [SinkNext]_sinkVars => SinkTypeOK'
<1> SUFFICES ASSUME SinkTypeOK, [SinkNext]_sinkVars PROVE SinkTypeOK'
  OBVIOUS
<1>1. ASSUME NEW c \in Callers, Call(c) \/ Send(c) PROVE SinkTypeOK'
  BY <1>1, CallType, SendType
<1>2. ASSUME NEW w \in Workers, Work(w) PROVE SinkTypeOK'
  BY <1>2, TakeType, BecomesType DEF Work, WriteEntry, LookIfTold, Stop, LeaveWorker
<1>3. ASSUME NEW c \in Closers, BeginClose(c) \/ Closing(c) PROVE SinkTypeOK'
  BY <1>3, CloseType DEF Closing
<1>4. CASE Exit
  BY <1>4 DEF SinkTypeOK, Exit
<1>5. CASE UNCHANGED sinkVars
  BY <1>5 DEF SinkTypeOK, sinkVars
<1> QED
  BY <1>1, <1>2, <1>3, <1>4, <1>5 DEF SinkNext

LEMMA InitType == SinkInit => SinkTypeOK
<1> SUFFICES ASSUME SinkInit PROVE SinkTypeOK
  OBVIOUS
<1>1. At("wait") \in [pc : {"wait", "look", "drain", "gone"}, entry : {0}]
  BY DEF At
<1>2. ch \in Seq(Entries) /\ Len(ch) <= Cap /\ next \in 1..(MaxEntries + 1)
  BY SinkAssumption DEF SinkInit
<1> QED
  BY <1>1, <1>2 DEF SinkInit, SinkTypeOK

(* Every variable of BoundedSink keeps its type, and the Go channel its    *)
(* capacity.                                                               *)
THEOREM SinkTyping == SinkSpec => []SinkTypeOK
<1>1. SinkInit => SinkTypeOK
  BY InitType
<1>2. SinkTypeOK /\ [SinkNext]_sinkVars => SinkTypeOK'
  BY TypeNext
<1> QED
  BY <1>1, <1>2, PTL DEF SinkSpec

-----------------------------------------------------------------------------
(* The strengthening.  A worker drains, and leaves, only once Close has    *)
(* begun, and it leaves an empty channel: what is in the channel when one  *)
(* has left came after.                                                    *)

Begun == told \/ stopped

LateInv ==
  /\ shut => Begun
  /\ \A c \in Closers : closer[c] = "closing" => Begun
  /\ \A w \in Workers : worker[w].pc \in {"drain", "drainwrite", "gone"} => Begun
  /\ \A w \in Workers : worker[w].pc = "gone" => ToSet(ch) \subseteq late
  /\ \A c \in Closers : closer[c] = "joined" => Gone

LEMMA LateInit == SinkInit => LateInv
  BY DEF SinkInit, LateInv, At

LEMMA LateCall ==
  ASSUME SinkTypeOK, LateInv, NEW c \in Callers, Call(c) \/ Send(c) PROVE LateInv'
<1>1. UNCHANGED <<shut, told, stopped, worker, closer>>
  BY DEF Call, Send
<1>2. (\E w \in Workers : worker[w].pc = "gone") => ToSet(ch') \subseteq late'
  <2>1. CASE UNCHANGED <<ch, late>>
    BY <2>1 DEF LateInv
  <2>2. CASE /\ ch' = Append(ch, next)
             /\ late' = IF told \/ stopped THEN late \cup {next} ELSE late
    BY <2>2, ToSetAppend DEF LateInv, Begun, SinkTypeOK
  <2> QED
    BY <2>1, <2>2 DEF Call, Send
<1> QED
  BY <1>1, <1>2 DEF LateInv, Begun, Gone

LEMMA LateTake ==
  ASSUME SinkTypeOK, LateInv, NEW w \in Workers, Take(w) PROVE LateInv'
<1>1. ToSet(ch') \subseteq ToSet(ch) /\ late' = late
  BY ToSetTail DEF Take, SinkTypeOK
<1>2. /\ worker[w].pc \in {"wait", "drain"}
      /\ worker'[w].pc = IF worker[w].pc = "wait" THEN "write" ELSE "drainwrite"
      /\ \A v \in Workers \ {w} : worker'[v] = worker[v]
  BY DEF Take, SinkTypeOK
<1>3. ~Gone
  BY <1>2 DEF Gone
<1> QED
  BY <1>1, <1>2, <1>3 DEF LateInv, Begun, Take

LEMMA LateBecomes ==
  ASSUME SinkTypeOK, LateInv, NEW w \in Workers, NEW pc \in {"wait", "look", "drain", "gone"},
         Becomes(w, pc), worker[w].pc # "gone",
         pc \in {"drain", "gone"} => Begun,
         pc = "gone" => ch = <<>>
  PROVE  LateInv'
<1>1. worker'[w].pc = pc /\ \A v \in Workers \ {w} : worker'[v] = worker[v]
  BY DEF Becomes, At, SinkTypeOK
<1>2. ~Gone
  BY DEF Gone
<1>3. ch = <<>> => ToSet(ch) = {}
  BY DEF ToSet
<1> QED
  BY <1>1, <1>2, <1>3 DEF LateInv, Begun, Becomes

LEMMA LateWork ==
  ASSUME SinkTypeOK, LateInv, NEW w \in Workers, Work(w) PROVE LateInv'
<1>1. CASE Take(w)
  BY <1>1, LateTake
<1>2. CASE WriteEntry(w)
  BY <1>2, LateBecomes DEF WriteEntry, LateInv
<1>3. CASE LookIfTold(w)
  BY <1>3, LateBecomes DEF LookIfTold, Begun
<1>4. CASE Stop(w)
  BY <1>4, LateBecomes DEF Stop, Begun
<1>5. CASE LeaveWorker(w)
  BY <1>5, LateBecomes DEF LeaveWorker, LateInv
<1> QED
  BY <1>1, <1>2, <1>3, <1>4, <1>5 DEF Work

LEMMA LateClose ==
  ASSUME SinkTypeOK, LateInv, NEW c \in Closers, BeginClose(c) \/ FinishClose(c) \/ Join(c)
  PROVE  LateInv'
<1>1. UNCHANGED <<ch, worker, late>>
  BY DEF BeginClose, FinishClose, Join
<1>2. CASE BeginClose(c)
  BY <1>1, <1>2 DEF BeginClose, Close, LateInv, Begun, Gone, SinkTypeOK
<1>3. CASE FinishClose(c)
  BY <1>1, <1>3 DEF FinishClose, Close, LateInv, Begun, Gone, SinkTypeOK
<1>4. CASE Join(c)
  BY <1>1, <1>4 DEF Join, Close, LateInv, Begun, Gone, SinkTypeOK
<1> QED
  BY <1>2, <1>3, <1>4

LEMMA LateNext == SinkTypeOK /\ LateInv /\ [SinkNext]_sinkVars => LateInv'
<1> SUFFICES ASSUME SinkTypeOK, LateInv, [SinkNext]_sinkVars PROVE LateInv'
  OBVIOUS
<1>1. ASSUME NEW c \in Callers, Call(c) \/ Send(c) PROVE LateInv'
  BY <1>1, LateCall
<1>2. ASSUME NEW w \in Workers, Work(w) PROVE LateInv'
  BY <1>2, LateWork
<1>3. ASSUME NEW c \in Closers, BeginClose(c) \/ Closing(c) PROVE LateInv'
  BY <1>3, LateClose DEF Closing
<1>4. CASE Exit \/ UNCHANGED sinkVars
  BY <1>4 DEF LateInv, Begun, Gone, Exit, sinkVars
<1> QED
  BY <1>1, <1>2, <1>3, <1>4 DEF SinkNext

LEMMA LateEnough == LateInv => OnlyLateEntriesStay
  BY SinkAssumption DEF LateInv, OnlyLateEntriesStay, Gone

(* When Close has joined the workers, an entry still in the channel was    *)
(* accepted after Close had begun, for either sink (audit/emitter.go and   *)
(* physicalhost/async_writer.go, Close).                                   *)
THEOREM LateOnly == SinkSpec => []OnlyLateEntriesStay
<1>1. SinkInit => LateInv
  BY LateInit
<1>2. SinkTypeOK /\ LateInv /\ [SinkNext]_sinkVars => LateInv'
  BY LateNext
<1>3. LateInv => OnlyLateEntriesStay
  BY LateEnough
<1> QED
  BY <1>1, <1>2, <1>3, SinkTyping, PTL DEF SinkSpec
-----------------------------------------------------------------------------
(* BoundedSink: the sinks do what SinkPromise says.  First, what order     *)
(* means: a list whose numbers increase is the list of their set.          *)

Increases(s) == \A i, j \in 1..Len(s) : i < j => s[i] < s[j]

LEMMA CountUpTo ==
  ASSUME NEW s \in Seq(Nat), Increases(s), NEW n \in 0..Len(s)
  PROVE  Cardinality({s[j] : j \in 1..n}) = n
<1>1. PICK f : f = [j \in 1..n |-> s[j]]
  OBVIOUS
<1>2. f \in [1..n -> {s[j] : j \in 1..n}]
  BY <1>1
<1>3. ASSUME NEW i \in 1..n, NEW j \in 1..n, f[i] = f[j] PROVE i = j
  <2>1. s[i] = s[j] /\ s[i] \in Nat /\ s[j] \in Nat
    BY <1>1, <1>3
  <2>2. ~(i < j) /\ ~(j < i)
    BY <2>1 DEF Increases
  <2> QED BY <2>2
<1>4. \A x \in {s[j] : j \in 1..n} : \E j \in 1..n : f[j] = x
  BY <1>1
<1>5. f \in Bijection(1..n, {s[j] : j \in 1..n})
  BY <1>2, <1>3, <1>4 DEF Bijection, Injection, Surjection, IsInjective
<1>6. ExistsBijection(1..n, {s[j] : j \in 1..n})
  BY <1>5 DEF ExistsBijection
<1> QED
  BY <1>6, FS_CountingElements

LEMMA InOrderIs ==
  ASSUME NEW s \in Seq(Nat), Increases(s)
  PROVE  InOrder(ToSet(s)) = s
<1>1. ToSet(s) = {s[j] : j \in 1..Len(s)}
  BY DEF ToSet
<1>2. Cardinality(ToSet(s)) = Len(s)
  <2>1. Len(s) \in 0..Len(s)
    OBVIOUS
  <2>2. Cardinality({s[j] : j \in 1..Len(s)}) = Len(s)
    BY <2>1, CountUpTo
  <2> QED BY <1>1, <2>2
<1>3. ASSUME NEW i \in 1..Len(s)
      PROVE  Cardinality({x \in ToSet(s) : x <= s[i]}) = i
  <2>1. \A j \in 1..Len(s) : s[j] <= s[i] <=> j <= i
    <3> TAKE j \in 1..Len(s)
    <3>1. s[i] \in Nat /\ s[j] \in Nat
      OBVIOUS
    <3>2. (i < j => s[i] < s[j]) /\ (j < i => s[j] < s[i])
      BY DEF Increases
    <3> QED BY <3>1, <3>2
  <2>2. {x \in ToSet(s) : x <= s[i]} = {s[j] : j \in 1..i}
    <3>1. \A j \in 1..Len(s) : j <= i <=> j \in 1..i
      OBVIOUS
    <3>2. 1..i \subseteq 1..Len(s)
      OBVIOUS
    <3>3. {s[j] : j \in 1..i} = {x \in {s[j] : j \in 1..Len(s)} : x <= s[i]}
      BY <2>1, <3>1, <3>2
    <3> QED BY <1>1, <3>3
  <2>3. i \in 0..Len(s)
    OBVIOUS
  <2>4. Cardinality({s[j] : j \in 1..i}) = i
    BY <2>3, CountUpTo
  <2> QED BY <2>2, <2>4
<1>4. ASSUME NEW i \in 1..Len(s)
      PROVE  (CHOOSE e \in ToSet(s) : Cardinality({x \in ToSet(s) : x <= e}) = i) = s[i]
  <2>1. s[i] \in ToSet(s)
    BY <1>1
  <2>2. ASSUME NEW e \in ToSet(s), Cardinality({x \in ToSet(s) : x <= e}) = i PROVE e = s[i]
    <3>1. PICK k \in 1..Len(s) : e = s[k]
      BY <1>1
    <3> QED BY <1>3, <2>2, <3>1
  <2> QED BY <1>3, <2>1, <2>2
<1>5. InOrder(ToSet(s)) = [i \in 1..Len(s) |-> s[i]]
  BY <1>2, <1>4 DEF InOrder
<1> QED
  BY <1>5

LEMMA RemoveAtIs ==
  ASSUME NEW S, NEW s \in Seq(S), NEW i \in 1..Len(s)
  PROVE  /\ RemoveAt(s, i) \in Seq(S) /\ Len(RemoveAt(s, i)) = Len(s) - 1
         /\ \A k \in 1..(Len(s) - 1) : RemoveAt(s, i)[k] = IF k < i THEN s[k] ELSE s[k + 1]
<1>1. SubSeq(s, 1, i - 1) \in Seq(S) /\ Len(SubSeq(s, 1, i - 1)) = i - 1
      /\ \A k \in 1..(i - 1) : SubSeq(s, 1, i - 1)[k] = s[k]
  BY SubSeqProperties
<1>2. SubSeq(s, i + 1, Len(s)) \in Seq(S) /\ Len(SubSeq(s, i + 1, Len(s))) = Len(s) - i
      /\ \A k \in 1..(Len(s) - i) : SubSeq(s, i + 1, Len(s))[k] = s[k + i]
  BY SubSeqProperties
<1>3. PICK a \in Seq(S) : a = SubSeq(s, 1, i - 1)
  BY <1>1
<1>4. PICK b \in Seq(S) : b = SubSeq(s, i + 1, Len(s))
  BY <1>2
<1>5. Len(a) = i - 1 /\ \A k \in 1..(i - 1) : a[k] = s[k]
  BY <1>1, <1>3
<1>6. Len(b) = Len(s) - i /\ \A k \in 1..(Len(s) - i) : b[k] = s[k + i]
  BY <1>2, <1>4
<1>7. /\ a \o b \in Seq(S) /\ Len(a \o b) = Len(a) + Len(b)
      /\ \A k \in 1..(Len(a) + Len(b)) : (a \o b)[k] = IF k <= Len(a) THEN a[k] ELSE b[k - Len(a)]
  BY ConcatProperties
<1>8. Len(a) + Len(b) = Len(s) - 1
  BY <1>5, <1>6
<1>9. \A k \in 1..(Len(s) - 1) : (a \o b)[k] = IF k < i THEN s[k] ELSE s[k + 1]
  BY <1>5, <1>6, <1>7, <1>8
<1> QED
  BY <1>3, <1>4, <1>7, <1>8, <1>9 DEF RemoveAt

LEMMA RemoveInFront ==
  ASSUME NEW S, NEW s \in Seq(S), NEW t \in Seq(S), NEW i \in 1..Len(s)
  PROVE  RemoveAt(s, i) \o t = RemoveAt(s \o t, i)
<1>1. PICK r \in Seq(S) : r = RemoveAt(s, i)
  BY RemoveAtIs
<1>2. Len(r) = Len(s) - 1 /\ \A k \in 1..(Len(s) - 1) : r[k] = IF k < i THEN s[k] ELSE s[k + 1]
  BY <1>1, RemoveAtIs
<1>3. PICK u \in Seq(S) : u = s \o t
  BY ConcatProperties
<1>4. Len(u) = Len(s) + Len(t)
      /\ \A k \in 1..(Len(s) + Len(t)) : u[k] = IF k <= Len(s) THEN s[k] ELSE t[k - Len(s)]
  BY <1>3, ConcatProperties
<1>5. i \in 1..Len(u)
  BY <1>4
<1>6. PICK v \in Seq(S) : v = RemoveAt(u, i)
  BY <1>5, RemoveAtIs
<1>7. Len(v) = Len(u) - 1 /\ \A k \in 1..(Len(u) - 1) : v[k] = IF k < i THEN u[k] ELSE u[k + 1]
  BY <1>5, <1>6, RemoveAtIs
<1>8. PICK x \in Seq(S) : x = r \o t
  BY ConcatProperties
<1>9. Len(x) = Len(r) + Len(t)
      /\ \A k \in 1..(Len(r) + Len(t)) : x[k] = IF k <= Len(r) THEN r[k] ELSE t[k - Len(r)]
  BY <1>8, ConcatProperties
<1>10. Len(x) = Len(v)
  BY <1>2, <1>4, <1>7, <1>9
<1>11. \A k \in 1..Len(x) : x[k] = v[k]
  BY <1>2, <1>4, <1>7, <1>9
<1>12. x = v
  BY <1>10, <1>11, SeqEqual
<1> QED
  BY <1>1, <1>3, <1>6, <1>8, <1>12

\* An increasing list without its i-th number.
LEMMA RemoveKeeps ==
  ASSUME NEW s \in Seq(Nat), Increases(s), NEW i \in 1..Len(s)
  PROVE  Increases(RemoveAt(s, i)) /\ ToSet(RemoveAt(s, i)) = ToSet(s) \ {s[i]}
<1>1. PICK r \in Seq(Nat) :
        /\ r = RemoveAt(s, i) /\ Len(r) = Len(s) - 1
        /\ \A k \in 1..(Len(s) - 1) : r[k] = IF k < i THEN s[k] ELSE s[k + 1]
  BY RemoveAtIs
<1>2. /\ Len(r) = Len(s) - 1
      /\ \A k \in 1..(Len(s) - 1) : r[k] = IF k < i THEN s[k] ELSE s[k + 1]
  BY <1>1
<1>3. Increases(r)
  <2>1. ASSUME NEW j \in 1..Len(r)
        PROVE  \/ j < i /\ j \in 1..Len(s) /\ r[j] = s[j]
               \/ j >= i /\ j + 1 \in 1..Len(s) /\ r[j] = s[j + 1]
    BY <1>2 DEF Increases
  <2>2. ASSUME NEW j \in 1..Len(r), NEW k \in 1..Len(r), j < k PROVE r[j] < r[k]
    <3>1. CASE k < i
      BY <2>1, <2>2, <3>1 DEF Increases
    <3>2. CASE j >= i
      <4>1. j + 1 \in 1..Len(s) /\ k + 1 \in 1..Len(s) /\ r[j] = s[j + 1] /\ r[k] = s[k + 1]
        BY <2>1, <2>2, <3>2 DEF Increases
      <4> QED BY <2>2, <4>1 DEF Increases
    <3>3. CASE j < i /\ k >= i
      <4>1. j \in 1..Len(s) /\ k + 1 \in 1..Len(s) /\ r[j] = s[j] /\ r[k] = s[k + 1]
        BY <2>1, <2>2, <3>3 DEF Increases
      <4> QED BY <2>2, <4>1 DEF Increases
    <3> QED BY <3>1, <3>2, <3>3 DEF Increases
  <2> QED BY <2>2 DEF Increases
<1>4. \A k \in 1..Len(s) : k # i => s[k] # s[i]
  <2> TAKE k \in 1..Len(s)
  <2>1. s[i] \in Nat /\ s[k] \in Nat
    OBVIOUS
  <2>2. (i < k => s[i] < s[k]) /\ (k < i => s[k] < s[i])
    BY DEF Increases
  <2> QED BY <2>1, <2>2
<1>5. ASSUME NEW k \in 1..Len(r) PROVE r[k] \in ToSet(s) \ {s[i]}
  <2>1. PICK a \in 1..Len(s) : r[k] = s[a] /\ a # i
    <3>1. CASE k < i
      <4>1. k \in 1..Len(s) /\ r[k] = s[k] /\ k # i
        BY <1>2, <3>1
      <4> QED BY <4>1
    <3>2. CASE k >= i
      <4>1. k + 1 \in 1..Len(s) /\ r[k] = s[k + 1] /\ k + 1 # i
        BY <1>2, <3>2
      <4> QED BY <4>1
    <3> QED BY <3>1, <3>2
  <2> QED BY <2>1, <1>4 DEF ToSet
<1>6. ASSUME NEW k \in 1..Len(s), k # i PROVE s[k] \in ToSet(r)
  <2>1. PICK j \in 1..Len(r) : r[j] = s[k]
    <3>1. CASE k < i
      <4>1. k \in 1..Len(r) /\ r[k] = s[k]
        BY <1>2, <3>1 DEF Increases
      <4> QED BY <4>1
    <3>2. CASE k > i
      <4>1. k - 1 \in 1..Len(r) /\ r[k - 1] = s[k]
        BY <1>2, <3>2 DEF Increases
      <4> QED BY <4>1
    <3> QED BY <3>1, <3>2, <1>6 DEF Increases
  <2> QED BY <2>1 DEF ToSet
<1>7. ToSet(r) = ToSet(s) \ {s[i]}
  <2>1. \A x \in ToSet(s) : \E k \in 1..Len(s) : x = s[k]
    BY DEF ToSet
  <2>2. \A x \in ToSet(r) : \E k \in 1..Len(r) : x = r[k]
    BY DEF ToSet
  <2>3. ASSUME NEW x \in ToSet(s), x # s[i] PROVE x \in ToSet(r)
    BY <1>6, <2>1, <2>3
  <2>4. ASSUME NEW x \in ToSet(r) PROVE x \in ToSet(s) \ {s[i]}
    BY <1>5, <2>2
  <2> HIDE <1>1, <1>2
  <2> QED BY <2>3, <2>4
<1> QED
  BY <1>1, <1>3, <1>7

LEMMA AppendKeeps ==
  ASSUME NEW s \in Seq(Nat), Increases(s), NEW e \in Nat, \A x \in ToSet(s) : x < e
  PROVE  Increases(Append(s, e)) /\ ToSet(Append(s, e)) = ToSet(s) \cup {e}
<1>1. \A i \in 1..Len(s) : s[i] < e
  BY DEF ToSet
<1>2. Increases(Append(s, e))
  BY <1>1 DEF Increases
<1>3. DOMAIN Append(s, e) = 1..(Len(s) + 1) /\ DOMAIN s = 1..Len(s)
  OBVIOUS
<1>4. \A i \in 1..Len(s) : Append(s, e)[i] = s[i]
  OBVIOUS
<1>5. Append(s, e)[Len(s) + 1] = e /\ Len(s) \in Nat
  OBVIOUS
<1>6. \A i \in 1..(Len(s) + 1) : i \in 1..Len(s) \/ i = Len(s) + 1
  OBVIOUS
<1> HIDE <1>1
<1>7. ToSet(Append(s, e)) = ToSet(s) \cup {e}
  BY <1>3, <1>4, <1>5, <1>6 DEF ToSet
<1> QED
  BY <1>2, <1>7

LEMMA TailKeeps ==
  ASSUME NEW s \in Seq(Nat), Increases(s), s # <<>>
  PROVE  /\ Increases(Tail(s))
         /\ \A x \in ToSet(Tail(s)) : Head(s) < x
         /\ ToSet(s) = ToSet(Tail(s)) \cup {Head(s)}
<1>1. Tail(s) \in Seq(Nat) /\ Len(Tail(s)) = Len(s) - 1 /\ Len(s) \in Nat \ {0}
  OBVIOUS
<1>2. \A i \in 1..Len(Tail(s)) : Tail(s)[i] = s[i + 1]
  OBVIOUS
<1>3. Head(s) = s[1] /\ DOMAIN s = 1..Len(s) /\ DOMAIN Tail(s) = 1..Len(Tail(s))
  BY <1>1
<1>4. Increases(Tail(s))
  BY <1>1, <1>2 DEF Increases
<1>5. \A x \in ToSet(Tail(s)) : Head(s) < x
  BY <1>1, <1>2, <1>3 DEF ToSet, Increases
<1>6. ToSet(Tail(s)) \cup {Head(s)} \subseteq ToSet(s)
  BY <1>1, <1>2, <1>3 DEF ToSet
<1>7. ASSUME NEW i \in 1..Len(s) PROVE s[i] \in ToSet(Tail(s)) \cup {Head(s)}
  <2>1. CASE i = 1
    BY <2>1, <1>3
  <2>2. CASE i # 1
    <3>1. i - 1 \in 1..Len(Tail(s)) /\ Tail(s)[i - 1] = s[i]
      BY <1>1, <1>2, <2>2
    <3> QED BY <3>1, <1>3 DEF ToSet
  <2> QED BY <2>1, <2>2
<1> QED
  BY <1>3, <1>4, <1>5, <1>6, <1>7 DEF ToSet

-----------------------------------------------------------------------------
(* The strengthening: numbers are given out in order, once, and what is in *)
(* a worker's hands is older than what is in the channel.                  *)

OrderInv ==
  /\ \A v, w \in Workers : v # w /\ worker[v].entry = worker[w].entry => worker[v].entry = 0
  /\ Increases(ch)
  /\ \A e \in Held : e < next /\ e \notin refused /\ \A x \in ToSet(ch) : e < x
  /\ \A x \in ToSet(ch) : x < next /\ x \notin refused
  /\ \A x \in refused : x < next
  /\ \E s \in Seq(Entries) : Increases(s) /\ ToSet(s) = Held

\* What SinkPromise sees of the sink.
Fates == [e \in Entries |-> Fate(e)]
SinkSeen == <<HeldInOrder \o ch, Fates>>

LEMMA HandsHold ==
  ASSUME SinkTypeOK, OrderInv
  PROVE  /\ HeldInOrder \in Seq(Entries) /\ Increases(HeldInOrder) /\ ToSet(HeldInOrder) = Held
         /\ Len(HeldInOrder) <= Cardinality(Workers)
<1>1. PICK s \in Seq(Entries) : Increases(s) /\ ToSet(s) = Held
  BY DEF OrderInv
<1>2. s \in Seq(Nat) /\ Entries \subseteq Nat
  BY SinkAssumption DEF Entries
<1>3. HeldInOrder = s
  BY <1>1, <1>2, InOrderIs DEF HeldInOrder
<1>4. Cardinality(Held) = Len(s)
  <2>1. Held = {s[j] : j \in 1..Len(s)}
    BY <1>1 DEF ToSet
  <2>2. Len(s) \in 0..Len(s)
    OBVIOUS
  <2>3. Cardinality({s[j] : j \in 1..Len(s)}) = Len(s)
    BY <1>1, <1>2, <2>2, CountUpTo
  <2> QED BY <2>1, <2>3
<1>5. PICK T : T = {worker[w].entry : w \in Workers}
  OBVIOUS
<1>6. PICK f : f = [w \in Workers |-> worker[w].entry]
  OBVIOUS
<1>7. f \in Surjection(Workers, T)
  BY <1>5, <1>6 DEF Surjection
<1>8. IsFiniteSet(T) /\ Cardinality(T) <= Cardinality(Workers)
  BY <1>7, FS_Surjection, SinkAssumption
<1>9. Held \subseteq T
  BY <1>5 DEF Held
<1>10. IsFiniteSet(Held) /\ Cardinality(Held) <= Cardinality(T)
  BY <1>8, <1>9, FS_Subset
<1>11. Cardinality(Held) \in Nat /\ Cardinality(T) \in Nat /\ Cardinality(Workers) \in Nat
  BY <1>8, <1>10, FS_CardinalityType, SinkAssumption
<1>12. Cardinality(Held) <= Cardinality(Workers)
  BY <1>8, <1>10, <1>11
<1>13. Len(HeldInOrder) <= Cardinality(Workers)
  BY <1>3, <1>4, <1>12
<1> QED
  BY <1>1, <1>3, <1>13

LEMMA AreNumbers == ASSUME NEW s \in Seq(Entries) PROVE s \in Seq(Nat)
  BY SinkAssumption DEF Entries

LEMMA HeldIs ==
  ASSUME SinkTypeOK
  PROVE  Held = {e \in Entries : \E w \in Workers : worker[w].entry = e}
  BY SinkAssumption DEF SinkTypeOK, Held, Entries

LEMMA SinkNumbers ==
  ASSUME SinkTypeOK
  PROVE  next \in Nat /\ Entries \subseteq Nat /\ Held \subseteq Entries /\ ToSet(ch) \subseteq Entries
<1>1. next \in Nat /\ Entries \subseteq Nat
  BY SinkAssumption DEF Entries, SinkTypeOK
<1>2. Held \subseteq Entries
  BY HeldIs
<1>3. ToSet(ch) \subseteq Entries
  BY DEF SinkTypeOK, ToSet
<1> QED BY <1>1, <1>2, <1>3

FatesTold ==
  \A e \in Entries :
    /\ e >= next => Fate(e) = "new"
    /\ e < next /\ e \in refused => Fate(e) = "turned away"
    /\ e \in Held \cup ToSet(ch) => Fate(e) = "waiting"
    /\ e < next /\ e \notin refused \cup Held \cup ToSet(ch) => Fate(e) = "left"

LEMMA FateIs == SinkTypeOK /\ OrderInv => FatesTold
<1> SUFFICES ASSUME SinkTypeOK, OrderInv, NEW e \in Entries
             PROVE  /\ e >= next => Fate(e) = "new"
                    /\ e < next /\ e \in refused => Fate(e) = "turned away"
                    /\ e \in Held \cup ToSet(ch) => Fate(e) = "waiting"
                    /\ e < next /\ e \notin refused \cup Held \cup ToSet(ch) => Fate(e) = "left"
  BY DEF FatesTold
<1>1. e \in Nat /\ next \in Nat
  BY SinkAssumption DEF SinkTypeOK, Entries
<1>2. e \in refused => ~(e >= next) /\ e \notin Held \cup ToSet(ch)
  BY <1>1 DEF OrderInv
<1>3. e \in Held \cup ToSet(ch) => ~(e >= next)
  BY <1>1 DEF OrderInv
<1>4. e < next <=> ~(e >= next)
  BY <1>1
<1> QED
  BY <1>2, <1>3, <1>4 DEF Fate

LEMMA FateBecomes == SinkTypeOK' /\ OrderInv' => FatesTold'
  BY FateIs, PTL

\* What moves neither among the entries nor past the number keeps its fate.
LEMMA OthersKeep ==
  ASSUME SinkTypeOK, FatesTold, FatesTold', NEW e \in Entries, next' \in Nat,
         e >= next' <=> e >= next, e \in refused' <=> e \in refused,
         e \in Held' \cup ToSet(ch') <=> e \in Held \cup ToSet(ch)
  PROVE  Fate(e)' = Fate(e)
<1>1. e \in Nat /\ next \in Nat
  BY SinkAssumption DEF SinkTypeOK, Entries
<1>2. (e < next <=> ~(e >= next)) /\ (e < next' <=> ~(e >= next'))
  BY <1>1
<1>3. PICK W, V : W = Held \cup ToSet(ch) /\ V = Held' \cup ToSet(ch')
  OBVIOUS
<1>4. /\ e >= next => Fate(e) = "new"
      /\ e < next /\ e \in refused => Fate(e) = "turned away"
      /\ e \in W => Fate(e) = "waiting"
      /\ e < next /\ e \notin refused /\ e \notin W => Fate(e) = "left"
  BY <1>3 DEF FatesTold
<1>5. /\ e >= next' => Fate(e)' = "new"
      /\ e < next' /\ e \in refused' => Fate(e)' = "turned away"
      /\ e \in V => Fate(e)' = "waiting"
      /\ e < next' /\ e \notin refused' /\ e \notin V => Fate(e)' = "left"
  BY <1>3 DEF FatesTold
<1>6. e \in V <=> e \in W
  BY <1>3
<1>7. CASE e >= next
  BY <1>4, <1>5, <1>7
<1>8. CASE e \in W
  <2>1. Fate(e) = "waiting"
    BY <1>4, <1>8
  <2>2. Fate(e)' = "waiting"
    BY <1>5, <1>6, <1>8
  <2> QED BY <2>1, <2>2
<1>9. CASE e < next /\ e \in refused
  <2>1. e < next' /\ e \in refused'
    BY <1>2, <1>9
  <2>2. Fate(e) = "turned away"
    BY <1>4, <1>9
  <2>3. Fate(e)' = "turned away"
    BY <1>5, <2>1
  <2> QED BY <2>2, <2>3
<1>10. CASE e < next /\ e \notin refused /\ e \notin W
  <2>1. e < next' /\ e \notin refused' /\ e \notin V
    BY <1>2, <1>6, <1>10
  <2> QED BY <1>4, <1>5, <1>10, <2>1
<1> QED
  BY <1>2, <1>7, <1>8, <1>9, <1>10

\* Steps that move no entry.
LEMMA NothingMoves ==
  ASSUME SinkTypeOK, OrderInv, UNCHANGED <<ch, worker, next, refused>>
  PROVE  OrderInv' /\ UNCHANGED SinkSeen
<1>1. Held' = Held
  BY DEF Held
<1>2. OrderInv'
  BY <1>1 DEF OrderInv
<1>3. \A e \in Entries : Fate(e)' = Fate(e)
  BY <1>1 DEF Fate
<1> QED
  BY <1>1, <1>2, <1>3 DEF SinkSeen, Fates, HeldInOrder

\* A worker without an entry goes on.
LEMMA HandsStay ==
  ASSUME SinkTypeOK, OrderInv, NEW w \in Workers, NEW pc, Becomes(w, pc), worker[w].entry = 0
  PROVE  OrderInv' /\ UNCHANGED SinkSeen
<1>1. \A v \in Workers : worker'[v].entry = worker[v].entry
  BY DEF Becomes, At, SinkTypeOK
<1>2. Held' = Held
  BY <1>1 DEF Held
<1>3. OrderInv'
  BY <1>1, <1>2 DEF OrderInv, Becomes
<1>4. \A e \in Entries : Fate(e)' = Fate(e)
  BY <1>2 DEF Fate, Becomes
<1> QED
  BY <1>2, <1>3, <1>4 DEF SinkSeen, Fates, HeldInOrder, Becomes

LEMMA TurnedAway ==
  ASSUME SinkTypeOK, OrderInv, SinkTypeOK', next \in Entries,
         UNCHANGED <<ch, worker>>, next' = next + 1, refused' = refused \cup {next}
  PROVE  OrderInv' /\ Promised!TurnAway(next)
<1>1. Held' = Held
  BY DEF Held
<1>2. next \in Nat /\ Entries \subseteq Nat /\ Held \subseteq Entries /\ ToSet(ch) \subseteq Entries
  BY SinkNumbers
<1>3. next \notin Held /\ next \notin ToSet(ch) /\ next \notin refused
  BY <1>2 DEF OrderInv
<1>4. OrderInv'
  <2>1. \A x \in Held \cup ToSet(ch) : x < next' /\ x \notin refused'
    <3> TAKE x \in Held \cup ToSet(ch)
    <3>1. x < next /\ x \notin refused /\ x \in Nat /\ x # next
      BY <1>2, <1>3 DEF OrderInv
    <3> QED BY <3>1, <1>2
  <2>2. \A x \in refused' : x < next'
    <3> TAKE x \in refused'
    <3>1. x \in Nat /\ (x = next \/ x < next)
      BY <1>2 DEF OrderInv, SinkTypeOK
    <3> QED BY <3>1, <1>2
  <2> QED BY <1>1, <2>1, <2>2 DEF OrderInv
<1>5. FatesTold /\ FatesTold'
  BY <1>4, FateIs, FateBecomes
<1>6. \A e \in Entries : Fate(e)' = IF e = next THEN "turned away" ELSE Fate(e)
  <2> TAKE e \in Entries
  <2>1. e \in Nat /\ next' \in Nat /\ (e # next => (e >= next' <=> e >= next))
    BY <1>2
  <2>2. CASE e = next
    <3>1. e < next' /\ e \in refused'
      BY <2>2, <1>2
    <3> QED BY <3>1, <2>2, <1>5 DEF FatesTold
  <2>3. CASE e # next
    BY <2>1, <2>3, <1>1, <1>5, OthersKeep
  <2> QED BY <2>2, <2>3
<1>7. Fate(next) = "new"
  <2>1. next >= next
    BY <1>2
  <2> QED BY <2>1, <1>5 DEF FatesTold
<1>8. Fates' = [Fates EXCEPT ![next] = "turned away"]
  BY <1>6 DEF Fates
<1> QED
  BY <1>1, <1>4, <1>7, <1>8 DEF Promised!TurnAway, HeldInOrder, Fates

LEMMA AppendBehind ==
  ASSUME NEW S, NEW s \in Seq(S), NEW t \in Seq(S), NEW x \in S
  PROVE  s \o Append(t, x) = Append(s \o t, x)
  BY AppendIsConcat, ConcatAssociative, ConcatProperties

LEMMA HeadMoves ==
  ASSUME NEW S, NEW s \in Seq(S), NEW t \in Seq(S), t # <<>>
  PROVE  Append(s, Head(t)) \o Tail(t) = s \o t
<1>1. Head(t) \in S /\ Tail(t) \in Seq(S) /\ t = <<Head(t)>> \o Tail(t)
  BY HeadTailProperties
<1>2. Append(s, Head(t)) = s \o <<Head(t)>>
  BY <1>1, AppendIsConcat
<1>3. <<Head(t)>> \in Seq(S)
  BY <1>1
<1> QED
  BY <1>1, <1>2, <1>3, ConcatAssociative

LEMMA Accepted ==
  ASSUME SinkTypeOK, OrderInv, SinkTypeOK', next \in Entries,
         UNCHANGED <<worker, refused>>, next' = next + 1, Len(ch) < Cap, ch' = Append(ch, next)
  PROVE  OrderInv' /\ Promised!Accept(next)
<1>1. Held' = Held
  BY DEF Held
<1>2. next \in Nat /\ Entries \subseteq Nat /\ Held \subseteq Entries /\ ToSet(ch) \subseteq Entries
  BY SinkNumbers
<1>3. next \notin Held /\ next \notin ToSet(ch) /\ next \notin refused
  BY <1>2 DEF OrderInv
<1>4. \A x \in ToSet(ch) : x < next
  BY DEF OrderInv
<1>5. ch \in Seq(Nat) /\ Increases(ch) /\ ch \in Seq(Entries)
  BY AreNumbers DEF SinkTypeOK, OrderInv
<1>6. Increases(ch') /\ ToSet(ch') = ToSet(ch) \cup {next}
  BY <1>2, <1>4, <1>5, AppendKeeps
<1>7. OrderInv'
  <2>1. \A e \in Held : e < next' /\ e \notin refused /\ \A x \in ToSet(ch') : e < x
    <3> TAKE e \in Held
    <3>1. e \in Nat /\ e < next /\ e \notin refused /\ \A x \in ToSet(ch) : e < x
      BY <1>2 DEF OrderInv
    <3> QED BY <3>1, <1>2, <1>6
  <2>2. \A x \in ToSet(ch') : x < next' /\ x \notin refused
    <3> TAKE x \in ToSet(ch')
    <3>1. x \in Nat /\ (x = next \/ x < next) /\ x \notin refused
      BY <1>2, <1>3, <1>6 DEF OrderInv
    <3> QED BY <3>1, <1>2
  <2>3. \A x \in refused : x < next'
    <3> TAKE x \in refused
    <3>1. x \in Nat /\ x < next
      BY <1>2 DEF OrderInv, SinkTypeOK
    <3> QED BY <3>1, <1>2
  <2> QED BY <1>1, <1>6, <2>1, <2>2, <2>3 DEF OrderInv
<1>8. FatesTold /\ FatesTold'
  BY <1>7, FateIs, FateBecomes
<1>9. \A e \in Entries : Fate(e)' = IF e = next THEN "waiting" ELSE Fate(e)
  <2> TAKE e \in Entries
  <2>1. e \in Nat /\ next' \in Nat /\ (e # next => (e >= next' <=> e >= next))
    BY <1>2
  <2>2. CASE e = next
    BY <2>2, <1>6, <1>8 DEF FatesTold
  <2>3. CASE e # next
    BY <2>1, <2>3, <1>1, <1>6, <1>8, OthersKeep
  <2> QED BY <2>2, <2>3
<1>10. Fate(next) = "new"
  <2>1. next >= next
    BY <1>2
  <2> QED BY <2>1, <1>8 DEF FatesTold
<1>11. Fates' = [Fates EXCEPT ![next] = "waiting"]
  BY <1>9 DEF Fates
<1>12. Len(HeldInOrder \o ch) < Cap + Cardinality(Workers)
  <2>1. HeldInOrder \in Seq(Entries) /\ Len(HeldInOrder) <= Cardinality(Workers)
    BY HandsHold
  <2>2. Len(HeldInOrder \o ch) = Len(HeldInOrder) + Len(ch)
    BY <2>1, <1>5, ConcatProperties
  <2>3. Cardinality(Workers) \in Nat /\ Cap \in Nat /\ Len(HeldInOrder) \in Nat /\ Len(ch) \in Nat
    BY <2>1, <1>5, FS_CardinalityType, SinkAssumption
  <2> QED BY <2>1, <2>2, <2>3
<1>13. HeldInOrder' \o ch' = Append(HeldInOrder \o ch, next)
  <2>1. HeldInOrder \in Seq(Entries)
    BY HandsHold
  <2>2. HeldInOrder' = HeldInOrder
    BY <1>1 DEF HeldInOrder
  <2> QED BY <1>5, <2>1, <2>2, AppendBehind
<1> QED
  BY <1>7, <1>10, <1>11, <1>12, <1>13 DEF Promised!Accept, Fates

LEMMA Taken ==
  ASSUME SinkTypeOK, OrderInv, SinkTypeOK', NEW w \in Workers, Take(w)
  PROVE  OrderInv' /\ UNCHANGED SinkSeen
<1>1. PICK h : h = Head(ch)
  OBVIOUS
<1>2. /\ ch # <<>> /\ ch' = Tail(ch) /\ worker'[w].entry = h /\ worker[w].entry = 0
      /\ \A v \in Workers \ {w} : worker'[v] = worker[v]
  BY <1>1 DEF Take, SinkTypeOK
<1>3. next \in Nat /\ Entries \subseteq Nat /\ Held \subseteq Entries /\ ToSet(ch) \subseteq Entries
  BY SinkNumbers
<1>4. ch \in Seq(Entries) /\ ch \in Seq(Nat) /\ Increases(ch)
  BY AreNumbers DEF SinkTypeOK, OrderInv
<1>5. /\ Increases(ch') /\ \A x \in ToSet(ch') : h < x
      /\ ToSet(ch) = ToSet(ch') \cup {h}
  BY <1>1, <1>2, <1>4, TailKeeps
<1>6. h \in Nat /\ h \in Entries /\ h # 0 /\ \A e \in Held : e < h
  BY <1>3, <1>5 DEF OrderInv, Entries
<1>7. \A v \in Workers : worker[v].entry # h
  BY <1>6, <1>3 DEF Held
<1>8. Held' = Held \cup {h}
  BY <1>2, <1>6 DEF Held
<1>9. \A e \in Held' : \A x \in ToSet(ch') : e < x
  BY <1>5, <1>8 DEF OrderInv
<1>10. \A u, v \in Workers : u # v /\ worker'[u].entry = worker'[v].entry => worker'[u].entry = 0
  BY <1>2, <1>7 DEF OrderInv
<1>11. /\ HeldInOrder \in Seq(Entries) /\ HeldInOrder \in Seq(Nat)
       /\ Increases(HeldInOrder) /\ ToSet(HeldInOrder) = Held
  BY HandsHold, AreNumbers
<1>12. PICK s \in Seq(Nat) : s = Append(HeldInOrder, h)
  BY <1>6, <1>11, AppendProperties
<1>13. Increases(s) /\ ToSet(s) = Held' /\ s \in Seq(Entries)
  <2>1. Increases(s) /\ ToSet(s) = Held'
    BY <1>6, <1>8, <1>11, <1>12, AppendKeeps
  <2>2. s \in Seq(Entries)
    BY <1>6, <1>11, <1>12, AppendProperties
  <2> QED BY <2>1, <2>2
<1>14. next' = next /\ refused' = refused
  BY DEF Take
<1>15. \A e \in Held' : e < next /\ e \notin refused
  BY <1>5, <1>8 DEF OrderInv
<1>16. \A x \in ToSet(ch') : x < next /\ x \notin refused
  BY <1>5 DEF OrderInv
<1>17. OrderInv'
  BY <1>5, <1>9, <1>10, <1>13, <1>14, <1>15, <1>16 DEF OrderInv
<1>18. Held' \cup ToSet(ch') = Held \cup ToSet(ch)
  BY <1>5, <1>8
<1>19. \A e \in Entries : Fate(e)' = Fate(e)
  BY <1>3, <1>14, <1>17, <1>18, FateIs, FateBecomes, OthersKeep
<1>20. HeldInOrder' = s
  BY <1>13, InOrderIs DEF HeldInOrder
<1>21. HeldInOrder' \o ch' = HeldInOrder \o ch
  BY <1>1, <1>2, <1>4, <1>11, <1>12, <1>20, HeadMoves
<1> QED
  BY <1>17, <1>19, <1>21 DEF SinkSeen, Fates

LEMMA Written ==
  ASSUME SinkTypeOK, OrderInv, SinkTypeOK',
         NEW w \in Workers, NEW pc, Becomes(w, pc), worker[w].entry # 0
  PROVE  OrderInv' /\ \E i \in DOMAIN (HeldInOrder \o ch) : Promised!Leave(i)
<1>1. PICK e \in Entries : e = worker[w].entry
  BY DEF SinkTypeOK
<1>2. worker'[w].entry = 0 /\ \A v \in Workers \ {w} : worker'[v] = worker[v]
  BY DEF Becomes, At, SinkTypeOK
<1>3. UNCHANGED <<ch, next, refused>>
  BY DEF Becomes
<1>4. e # 0 /\ next \in Nat /\ Entries \subseteq Nat /\ ToSet(ch) \subseteq Entries
  BY SinkNumbers DEF Entries
<1>5. \A v \in Workers \ {w} : worker[v].entry # e
  BY <1>1, <1>4 DEF OrderInv
<1>6. e \in Held /\ Held' = Held \ {e}
  BY <1>1, <1>2, <1>4, <1>5 DEF Held
<1>7. e < next /\ e \notin refused /\ e \notin ToSet(ch)
  BY <1>4, <1>6 DEF OrderInv
<1>8. /\ HeldInOrder \in Seq(Entries) /\ HeldInOrder \in Seq(Nat)
      /\ Increases(HeldInOrder) /\ ToSet(HeldInOrder) = Held
      /\ Len(HeldInOrder) <= Cardinality(Workers)
  BY HandsHold, AreNumbers
<1>9. PICK h \in Seq(Entries) : h = HeldInOrder
  BY <1>8
<1>10. PICK i \in 1..Len(h) : h[i] = e
  BY <1>6, <1>8, <1>9 DEF ToSet
<1>11. RemoveAt(h, i) \in Seq(Entries)
  BY RemoveAtIs
<1>12. Increases(RemoveAt(h, i)) /\ ToSet(RemoveAt(h, i)) = Held'
  BY <1>6, <1>8, <1>9, <1>10, RemoveKeeps
<1>13. OrderInv'
  <2>1. \A u, v \in Workers : u # v /\ worker'[u].entry = worker'[v].entry => worker'[u].entry = 0
    BY <1>2 DEF OrderInv
  <2> QED BY <2>1, <1>3, <1>6, <1>11, <1>12 DEF OrderInv
<1>14. HeldInOrder' = RemoveAt(h, i)
  <2>1. RemoveAt(h, i) \in Seq(Nat)
    BY <1>11, AreNumbers
  <2> QED BY <2>1, <1>12, InOrderIs DEF HeldInOrder
<1>15. FatesTold /\ FatesTold'
  BY <1>13, FateIs, FateBecomes
<1>16. \A x \in Entries : Fate(x)' = IF x = e THEN "left" ELSE Fate(x)
  <2> TAKE x \in Entries
  <2>1. CASE x = e
    BY <2>1, <1>3, <1>6, <1>7, <1>15 DEF FatesTold
  <2>2. CASE x # e
    BY <2>2, <1>3, <1>4, <1>6, <1>15, OthersKeep
  <2> QED BY <2>1, <2>2
<1>17. Fates' = [Fates EXCEPT ![e] = "left"]
  BY <1>16 DEF Fates
<1>18. PICK c \in Seq(Entries) : c = ch
  BY DEF SinkTypeOK
<1>19. PICK u \in Seq(Entries) : u = h \o c
  BY ConcatProperties
<1>20. u[i] = e /\ i \in DOMAIN u
  BY <1>10, <1>19, ConcatProperties
<1>21. RemoveAt(h, i) \o c = RemoveAt(u, i)
  BY <1>19, RemoveInFront
<1>22. i <= Cardinality(Workers)
  <2>1. Cardinality(Workers) \in Nat /\ Len(h) \in Nat /\ Len(h) <= Cardinality(Workers)
    BY <1>8, <1>9, FS_CardinalityType, SinkAssumption
  <2> QED BY <2>1
<1>23. HeldInOrder \o ch = u /\ HeldInOrder' \o ch' = RemoveAt(u, i)
  BY <1>3, <1>9, <1>14, <1>18, <1>19, <1>21
<1>24. Promised!Leave(i)
  <2>1. (HeldInOrder \o ch)[i] = e
    BY <1>20, <1>23
  <2>2. (HeldInOrder \o ch)' = RemoveAt(HeldInOrder \o ch, i)
    BY <1>23
  <2> QED BY <1>17, <1>22, <2>1, <2>2 DEF Promised!Leave, Promised!RemoveAt, RemoveAt, Fates
<1> QED
  BY <1>13, <1>20, <1>23, <1>24

LEMMA PromiseStep ==
  ASSUME SinkTypeOK, OrderInv, SinkTypeOK', [SinkNext]_sinkVars
  PROVE  OrderInv' /\ [Promised!PromiseNext]_SinkSeen
<1>1. ASSUME NEW c \in Callers, Call(c) PROVE OrderInv' /\ [Promised!PromiseNext]_SinkSeen
  <2>1. CASE UNCHANGED <<next, refused>>
    <3>1. UNCHANGED <<ch, worker, next, refused>>
      BY <1>1, <2>1 DEF Call
    <3> QED BY <3>1, NothingMoves
  <2>2. CASE refused' = refused \cup {next} /\ next' = next + 1
    <3>1. next \in Entries
      BY <1>1 DEF Call, Entries, SinkTypeOK
    <3>2. UNCHANGED <<ch, worker>>
      BY <1>1 DEF Call
    <3>3. OrderInv' /\ Promised!TurnAway(next)
      BY <2>2, <3>1, <3>2, TurnedAway
    <3> QED BY <3>1, <3>3 DEF Promised!PromiseNext
  <2> QED BY <1>1, <2>1, <2>2 DEF Call
<1>2. ASSUME NEW c \in Callers, Send(c) PROVE OrderInv' /\ [Promised!PromiseNext]_SinkSeen
  <2>1. next \in Entries /\ next' = next + 1 /\ UNCHANGED worker
    BY <1>2 DEF Send, Decided, Entries, SinkTypeOK
  <2>2. CASE Len(ch) < Cap /\ ch' = Append(ch, next) /\ UNCHANGED refused
    <3>1. OrderInv' /\ Promised!Accept(next)
      BY <2>1, <2>2, Accepted
    <3> QED BY <2>1, <3>1 DEF Promised!PromiseNext
  <2>3. CASE refused' = refused \cup {next} /\ UNCHANGED ch
    <3>1. OrderInv' /\ Promised!TurnAway(next)
      BY <2>1, <2>3, TurnedAway
    <3> QED BY <2>1, <3>1 DEF Promised!PromiseNext
  <2> QED BY <1>2, <2>2, <2>3 DEF Send
<1>3. ASSUME NEW w \in Workers, Take(w) PROVE OrderInv' /\ [Promised!PromiseNext]_SinkSeen
  BY <1>3, Taken
<1>4. ASSUME NEW w \in Workers, NEW pc, Becomes(w, pc) PROVE OrderInv' /\ [Promised!PromiseNext]_SinkSeen
  <2>1. CASE worker[w].entry = 0
    BY <1>4, <2>1, HandsStay
  <2>2. CASE worker[w].entry # 0
    <3>1. OrderInv' /\ \E i \in DOMAIN (HeldInOrder \o ch) : Promised!Leave(i)
      BY <1>4, <2>2, Written
    <3> QED BY <3>1 DEF Promised!PromiseNext
  <2> QED BY <2>1, <2>2
<1>5. ASSUME NEW w \in Workers, Work(w) PROVE OrderInv' /\ [Promised!PromiseNext]_SinkSeen
  BY <1>3, <1>4, <1>5 DEF Work, WriteEntry, LookIfTold, Stop, LeaveWorker
<1>6. ASSUME NEW c \in Closers, BeginClose(c) \/ Closing(c)
      PROVE  OrderInv' /\ [Promised!PromiseNext]_SinkSeen
  <2>1. UNCHANGED <<ch, worker, next, refused>>
    BY <1>6 DEF BeginClose, Closing, FinishClose, Join
  <2> QED BY <2>1, NothingMoves
<1>7. CASE Exit \/ UNCHANGED sinkVars
  <2>1. UNCHANGED <<ch, worker, next, refused>>
    BY <1>7 DEF Exit, sinkVars
  <2> QED BY <2>1, NothingMoves
<1> QED
  BY <1>1, <1>2, <1>5, <1>6, <1>7 DEF SinkNext

LEMMA PromiseStart == ASSUME SinkInit PROVE OrderInv /\ Promised!PromiseInit
<1>1. ch = <<>> /\ next = 1 /\ refused = {} /\ \A w \in Workers : worker[w].entry = 0
  BY DEF SinkInit, At
<1>2. Held = {}
  BY <1>1 DEF Held
<1>3. ToSet(<<>>) = {} /\ <<>> \in Seq(Entries) /\ <<>> \in Seq(Nat) /\ Increases(<<>>)
  BY DEF ToSet, Increases
<1>4. OrderInv
  BY <1>1, <1>2, <1>3 DEF OrderInv
<1>5. HeldInOrder = <<>>
  BY <1>2, <1>3, InOrderIs DEF HeldInOrder
<1>6. HeldInOrder \o ch = <<>>
  BY <1>1, <1>3, <1>5, ConcatEmptySeq
<1>7. \A e \in Entries : Fate(e) = "new"
  <2>1. \A e \in Entries : e >= next
    BY <1>1, SinkAssumption DEF Entries
  <2> QED BY <2>1, <1>4, InitType, FateIs DEF FatesTold
<1> QED
  BY <1>4, <1>6, <1>7 DEF Promised!PromiseInit

(* Both sinks do what SinkPromise says, for any callers, workers, closers  *)
(* and capacity: an entry is accepted in order or turned away on the spot, *)
(* leaves once, and is overtaken by fewer later ones than there are        *)
(* workers (audit/emitter.go and physicalhost/async_writer.go).            *)
THEOREM SinkKeeps == SinkSpec => SinkKeepsPromise
<1>1. SinkInit => SinkTypeOK /\ OrderInv /\ Promised!PromiseInit
  BY InitType, PromiseStart
<1>2. SinkTypeOK /\ OrderInv /\ [SinkNext]_sinkVars => SinkTypeOK' /\ OrderInv'
  BY TypeNext, PromiseStep
<1>3. SinkTypeOK /\ OrderInv /\ [SinkNext]_sinkVars
        => [Promised!PromiseNext]_<<HeldInOrder \o ch, [e \in Entries |-> Fate(e)]>>
  BY TypeNext, PromiseStep DEF SinkSeen, Fates
<1> QED
  BY <1>1, <1>2, <1>3, PTL DEF SinkSpec, SinkKeepsPromise, Promised!Promise

-----------------------------------------------------------------------------
(* HubRegistry: the registry follows the clients.                          *)

Pumping == {"idle", "ending", "closing"}
ReaderPcs == {"none", "subscribe", "unsubscribe", "leaving", "gone"} \cup Pumping

RegTypes ==
  /\ subs \subseteq Topics \X Clients
  /\ own \in [Clients -> SUBSET Topics]
  /\ reader \in [Clients -> [pc : ReaderPcs, topic : Topics \cup {NoTopic}]]
  /\ \A c \in Clients :
       reader[c].pc \in {"subscribe", "unsubscribe"} => reader[c].topic \in Topics
  /\ clients \subseteq Clients
  /\ shutdown \in [pc : {"none", "next", "remove", "close"},
                   cur : SUBSET Clients, rest : SUBSET Clients]

\* What a connected client is subscribed to, from where its read pump is.
Follows(c) ==
  /\ reader[c].pc \in Pumping \cup {"subscribe", "unsubscribe"}
  /\ reader[c].pc \in Pumping => TopicsOf(c) = own[c]
  /\ reader[c].pc = "subscribe" => own[c] = TopicsOf(c) \cup {reader[c].topic}
  /\ reader[c].pc = "unsubscribe" => own[c] = TopicsOf(c) \ {reader[c].topic}

\* A client that is not connected: before, or after, or under Shutdown's hands.
NotConnected(c) ==
  /\ reader[c].pc = "none" => TopicsOf(c) = {} /\ own[c] = {}
  /\ reader[c].pc = "gone" /\ TopicsOf(c) # {} => c \in expelled
  /\ reader[c].pc \notin {"none", "leaving", "gone"} => c \in expelled

\* Shutdown has taken the client it is working on out of the map already.
Removing ==
  shutdown.pc = "remove" =>
    \A c \in shutdown.cur : c \notin clients /\ reader[c].pc # "none"

RegInv ==
  /\ RegTypes /\ Removing
  /\ \A c \in Clients : IF c \in clients THEN Follows(c) ELSE NotConnected(c)

LEMMA RegInvInit == RegistryInit => RegInv
<1> SUFFICES ASSUME RegistryInit PROVE RegInv
  OBVIOUS
<1>1. \A c \in Clients : TopicsOf(c) = {}
  BY DEF RegistryInit, TopicsOf
<1> QED
  BY <1>1 DEF RegistryInit, RegInv, RegTypes, Removing, NotConnected, In, ReaderPcs, Pumping

\* A step that changes one client's place only.
LEMMA OneClient ==
  ASSUME RegInv, RegTypes', Removing', NEW c \in Clients,
         \A d \in Clients \ {c} :
           /\ reader'[d] = reader[d] /\ own'[d] = own[d] /\ TopicsOf(d)' = TopicsOf(d)
           /\ (d \in clients') = (d \in clients) /\ (d \in expelled => d \in expelled'),
         IF c \in clients' THEN Follows(c)' ELSE NotConnected(c)'
  PROVE  RegInv'
<1>1. ASSUME NEW d \in Clients \ {c}
      PROVE  IF d \in clients' THEN Follows(d)' ELSE NotConnected(d)'
  BY <1>1 DEF RegInv, Follows, NotConnected
<1> QED
  BY <1>1 DEF RegInv

LEMMA UpgradeInv == ASSUME RegInv, NEW c \in Clients, Upgrade(c) PROVE RegInv'
<1>1. /\ subs' = subs /\ own' = own /\ shutdown' = shutdown /\ expelled' = expelled
      /\ \A d \in Clients \ {c} : reader'[d] = reader[d]
      /\ \A d : TopicsOf(d)' = TopicsOf(d)
  BY DEF Upgrade, RegInv, RegTypes, TopicsOf
<1>2. clients \subseteq clients' /\ clients' \subseteq clients \cup {c}
  BY DEF Upgrade, RegisterClient
<1>3. c \notin clients /\ NotConnected(c) /\ TopicsOf(c) = {} /\ own[c] = {} /\ reader[c].pc = "none"
  BY DEF Upgrade, RegInv, Follows, NotConnected, Pumping
<1>4. RegTypes'
  BY <1>1, <1>2 DEF Upgrade, RegInv, RegTypes, In, ReaderPcs, Pumping
<1>5. shutdown.pc = "remove" => c \notin shutdown.cur
  BY <1>3 DEF RegInv, Removing
<1>6. Removing'
  BY <1>1, <1>2, <1>5 DEF RegInv, Removing, RegTypes
<1>7. CASE c \in clients'
  <2>1. reader'[c].pc = "idle"
    BY <1>3, <1>7 DEF Upgrade, RegInv, RegTypes, In
  <2>2. Follows(c)'
    BY <1>1, <1>3, <2>1 DEF Follows, Pumping
  <2> QED
    BY <1>1, <1>2, <1>4, <1>6, <1>7, <2>2, OneClient
<1>8. CASE c \notin clients'
  <2>1. reader'[c].pc = "gone"
    BY <1>3, <1>8 DEF Upgrade, RegisterClient, RegInv, RegTypes, In
  <2>2. NotConnected(c)'
    BY <1>1, <1>3, <2>1 DEF NotConnected
  <2> QED
    BY <1>1, <1>2, <1>4, <1>6, <1>8, <2>2, OneClient
<1> QED
  BY <1>7, <1>8

\* A read pump's message is done: where it goes next.
LEMMA DoneAt ==
  ASSUME RegTypes, NEW c \in Clients, MessageDone(c)
  PROVE  /\ reader'[c].pc \in {"idle", "ending"}
         /\ \A d \in Clients \ {c} : reader'[d] = reader[d]
         /\ reader' \in [Clients -> [pc : ReaderPcs, topic : Topics \cup {NoTopic}]]
  BY DEF RegTypes, MessageDone, In, ReaderPcs, Pumping

\* A message that changes what the client itself has, while its pump runs.
LEMMA OwnInv ==
  ASSUME RegInv, NEW c \in Clients, NEW t \in Topics, SubscribeOwn(c, t) \/ UnsubscribeOwn(c, t)
  PROVE  RegInv'
<1>1. /\ subs' = subs /\ clients' = clients /\ shutdown' = shutdown /\ expelled' = expelled
      /\ \A d : TopicsOf(d)' = TopicsOf(d)
  BY DEF SubscribeOwn, UnsubscribeOwn, TopicsOf
<1>2. CASE MessageDone(c) /\ own' = own /\ reader[c].pc = "idle"
  <2>1. reader'[c].pc \in {"idle", "ending"} /\ \A d \in Clients \ {c} : reader'[d] = reader[d]
    BY <1>2, DoneAt DEF RegInv
  <2>2. RegTypes' /\ Removing'
    BY <1>1, <1>2, <2>1, DoneAt DEF RegInv, RegTypes, Removing
  <2>3. IF c \in clients' THEN Follows(c)' ELSE NotConnected(c)'
    BY <1>1, <1>2, <2>1 DEF RegInv, Follows, NotConnected, Pumping
  <2> QED
    BY <1>1, <1>2, <2>1, <2>2, <2>3, OneClient
<1>3. ASSUME NEW pc \in {"subscribe", "unsubscribe"}, NEW mine \in SUBSET Topics,
             reader[c].pc = "idle",
             reader' = [reader EXCEPT ![c] = [pc |-> pc, topic |-> t]],
             own' = [own EXCEPT ![c] = mine],
             mine = IF pc = "subscribe" THEN own[c] \cup {t} ELSE own[c] \ {t}
      PROVE  RegInv'
  <2>1. /\ reader'[c].pc = pc /\ reader'[c].topic = t /\ own'[c] = mine
        /\ \A d \in Clients \ {c} : reader'[d] = reader[d] /\ own'[d] = own[d]
    BY <1>3 DEF RegInv, RegTypes
  <2>2. RegTypes'
    BY <1>1, <1>3, <2>1 DEF RegInv, RegTypes, ReaderPcs
  <2>3. Removing'
    BY <1>1, <1>3, <2>1 DEF RegInv, Removing, RegTypes
  <2>4. IF c \in clients' THEN Follows(c)' ELSE NotConnected(c)'
    BY <1>1, <1>3, <2>1 DEF RegInv, Follows, NotConnected, Pumping
  <2> QED
    BY <1>1, <2>1, <2>2, <2>3, <2>4, OneClient
<1>4. own[c] \cup {t} \in SUBSET Topics /\ own[c] \ {t} \in SUBSET Topics
  BY DEF RegInv, RegTypes
<1>5. CASE UnsubscribeOwn(c, t)
  BY <1>3, <1>4, <1>5 DEF UnsubscribeOwn
<1>6. CASE SubscribeOwn(c, t)
  BY <1>2, <1>3, <1>4, <1>6 DEF SubscribeOwn
<1> QED
  BY <1>5, <1>6

LEMMA RegistryInv ==
  ASSUME RegInv, NEW c \in Clients, SubscribeRegistry(c) \/ UnsubscribeRegistry(c)
  PROVE  RegInv'
<1>1. /\ own' = own /\ clients' = clients /\ shutdown' = shutdown /\ expelled' = expelled
      /\ MessageDone(c)
  BY DEF SubscribeRegistry, UnsubscribeRegistry
<1>2. /\ reader'[c].pc \in {"idle", "ending"} /\ \A d \in Clients \ {c} : reader'[d] = reader[d]
      /\ reader' \in [Clients -> [pc : ReaderPcs, topic : Topics \cup {NoTopic}]]
  BY <1>1, DoneAt DEF RegInv
<1>3. reader[c].topic \in Topics
  BY DEF SubscribeRegistry, UnsubscribeRegistry, RegInv, RegTypes
<1>4. /\ subs' \subseteq Topics \X Clients
      /\ \A d \in Clients \ {c} : TopicsOf(d)' = TopicsOf(d)
      /\ TopicsOf(c)' = IF reader[c].pc = "subscribe" THEN TopicsOf(c) \cup {reader[c].topic}
                        ELSE TopicsOf(c) \ {reader[c].topic}
  BY <1>3 DEF SubscribeRegistry, UnsubscribeRegistry, TopicsOf, RegInv, RegTypes
<1>5. RegTypes' /\ Removing'
  BY <1>1, <1>2, <1>4 DEF RegInv, RegTypes, Removing
<1>6. IF c \in clients' THEN Follows(c)' ELSE NotConnected(c)'
  BY <1>1, <1>2, <1>4 DEF SubscribeRegistry, UnsubscribeRegistry, RegInv, Follows, NotConnected, Pumping
<1> QED
  BY <1>1, <1>2, <1>4, <1>5, <1>6, OneClient

\* The end of a read pump.
LEMMA ReadEndInv ==
  ASSUME RegInv, NEW c \in Clients, ReadEnds(c) \/ Unregister(c) PROVE RegInv'
<1>1. /\ own' = own /\ subs' = subs /\ shutdown' = shutdown /\ expelled' = expelled
      /\ clients' \subseteq clients /\ clients \subseteq clients' \cup {c}
      /\ \A d : TopicsOf(d)' = TopicsOf(d)
  BY DEF ReadEnds, Unregister, TopicsOf
<1>2. /\ \A d \in Clients \ {c} : reader'[d] = reader[d]
      /\ reader'[c].pc = IF ReadEnds(c) THEN "closing"
                         ELSE IF c \in clients THEN "leaving" ELSE "gone"
      /\ reader' \in [Clients -> [pc : ReaderPcs, topic : Topics \cup {NoTopic}]]
  BY DEF ReadEnds, Unregister, RegInv, RegTypes, In, ReaderPcs, Pumping
<1>3. RegTypes' /\ Removing'
  BY <1>1, <1>2 DEF RegInv, RegTypes, Removing
<1>4. IF c \in clients' THEN Follows(c)' ELSE NotConnected(c)'
  BY <1>1, <1>2 DEF ReadEnds, Unregister, RegInv, Follows, NotConnected, Pumping
<1> QED
  BY <1>1, <1>2, <1>3, <1>4, OneClient

LEMMA RemoveAllInv == ASSUME RegInv, NEW c \in Clients, RemoveAll(c) PROVE RegInv'
<1>1. /\ own' = own /\ clients' = clients /\ shutdown' = shutdown /\ expelled' = expelled
      /\ subs' \subseteq subs
      /\ TopicsOf(c)' = {} /\ \A d \in Clients \ {c} : TopicsOf(d)' = TopicsOf(d)
  BY DEF RemoveAll, Without, TopicsOf
<1>2. /\ \A d \in Clients \ {c} : reader'[d] = reader[d]
      /\ reader'[c].pc = "gone"
      /\ reader' \in [Clients -> [pc : ReaderPcs, topic : Topics \cup {NoTopic}]]
  BY DEF RemoveAll, RegInv, RegTypes, In, ReaderPcs
<1>3. RegTypes' /\ Removing'
  BY <1>1, <1>2 DEF RegInv, RegTypes, Removing
<1>4. c \notin clients /\ NotConnected(c)'
  BY <1>1, <1>2 DEF RemoveAll, RegInv, Follows, NotConnected, Pumping
<1> QED
  BY <1>1, <1>2, <1>3, <1>4, OneClient

\* The pumps' frames, the fan-out, and Shutdown's looking round, move nobody.
LEMMA RegOtherInv ==
  ASSUME RegInv,
         \/ \E c \in Clients : WriteFrame(c) \/ WriteEnds(c) \/ BroadcastSend(c)
         \/ \E t \in Topics : BroadcastSnapshot(t)
         \/ ShutdownSnapshot \/ ShutdownClose \/ UNCHANGED regVars
  PROVE  RegInv'
<1>1. /\ own' = own /\ clients' = clients /\ subs' = subs /\ reader' = reader
      /\ expelled' = expelled
      /\ \A d : TopicsOf(d)' = TopicsOf(d)
  BY DEF WriteFrame, WriteEnds, BroadcastSend, BroadcastSnapshot, ShutdownSnapshot,
         ShutdownClose, regVars, TopicsOf
<1>2. /\ shutdown' \in [pc : {"none", "next", "remove", "close"},
                        cur : SUBSET Clients, rest : SUBSET Clients]
      /\ shutdown' = shutdown \/ shutdown'.pc = "next"
  <2>1. CASE ShutdownSnapshot
    BY <2>1 DEF ShutdownSnapshot, RegInv, RegTypes
  <2>2. CASE ShutdownClose
    BY <2>2 DEF ShutdownClose, RegInv, RegTypes
  <2>3. CASE shutdown' = shutdown
    BY <2>3 DEF RegInv, RegTypes
  <2> QED
    BY <2>1, <2>2, <2>3 DEF WriteFrame, WriteEnds, BroadcastSend, BroadcastSnapshot, regVars
<1>3. RegTypes' /\ Removing'
  BY <1>1, <1>2 DEF RegInv, RegTypes, Removing
<1>4. \A d \in Clients : (Follows(d) => Follows(d)') /\ (NotConnected(d) => NotConnected(d)')
  BY <1>1 DEF Follows, NotConnected
<1> QED
  BY <1>1, <1>3, <1>4 DEF RegInv

\* Shutdown takes a client out of the map under its read pump.
LEMMA ForgetInv == ASSUME RegInv, NEW c \in Clients, ShutdownForget(c) PROVE RegInv'
<1>1. /\ own' = own /\ subs' = subs /\ reader' = reader
      /\ clients' = clients \ {c}
      /\ expelled \subseteq expelled' /\ (c \in clients => c \in expelled')
      /\ \A d : TopicsOf(d)' = TopicsOf(d)
  BY DEF ShutdownForget, TopicsOf
<1>2. /\ shutdown'.cur = {c} /\ (shutdown'.pc = "remove" => c \in clients)
      /\ shutdown' \in [pc : {"none", "next", "remove", "close"},
                        cur : SUBSET Clients, rest : SUBSET Clients]
  BY DEF ShutdownForget, RegInv, RegTypes
<1>3. c \in clients => reader[c].pc # "none"
  BY DEF RegInv, Follows, Pumping
<1>4. RegTypes' /\ Removing'
  BY <1>1, <1>2, <1>3 DEF RegInv, RegTypes, Removing
<1>5. NotConnected(c)'
  <2>1. CASE c \in clients
    BY <1>1, <1>3, <2>1 DEF NotConnected
  <2>2. CASE c \notin clients
    BY <1>1, <2>2 DEF RegInv, NotConnected
  <2> QED
    BY <2>1, <2>2
<1> QED
  BY <1>1, <1>4, <1>5, OneClient

LEMMA ShutRemoveInv == ASSUME RegInv, ShutdownRemove PROVE RegInv'
<1>1. /\ own' = own /\ clients' = clients /\ reader' = reader /\ expelled' = expelled
      /\ subs' \subseteq subs
      /\ \A d \in shutdown.cur : TopicsOf(d)' = {}
      /\ \A d \in Clients \ shutdown.cur : TopicsOf(d)' = TopicsOf(d)
  BY DEF ShutdownRemove, TopicsOf
<1>2. /\ shutdown' \in [pc : {"none", "next", "remove", "close"},
                        cur : SUBSET Clients, rest : SUBSET Clients]
      /\ shutdown'.pc = "close"
  BY DEF ShutdownRemove, RegInv, RegTypes
<1>3. RegTypes' /\ Removing'
  BY <1>1, <1>2 DEF RegInv, RegTypes, Removing
<1>4. \A d \in shutdown.cur : d \notin clients
  BY DEF ShutdownRemove, RegInv, Removing
<1>5. \A d \in Clients : (d \in clients /\ Follows(d) => Follows(d)') /\ (NotConnected(d) => NotConnected(d)')
  BY <1>1, <1>4 DEF Follows, NotConnected
<1> QED
  BY <1>1, <1>3, <1>5 DEF RegInv

LEMMA RegInvNext == RegInv /\ [RegistryNext]_regVars => RegInv'
<1> SUFFICES ASSUME RegInv, [RegistryNext]_regVars PROVE RegInv'
  OBVIOUS
<1>1. ASSUME NEW c \in Clients, Upgrade(c) \/ ReadPump(c) \/ ReadEnds(c) PROVE RegInv'
  BY <1>1, UpgradeInv, RegistryInv, ReadEndInv, RemoveAllInv DEF ReadPump
<1>2. ASSUME NEW c \in Clients, NEW t \in Topics, SubscribeOwn(c, t) \/ UnsubscribeOwn(c, t)
      PROVE  RegInv'
  BY <1>2, OwnInv
<1>3. ASSUME NEW c \in Clients, ShutdownForget(c) PROVE RegInv'
  BY <1>3, ForgetInv
<1> QED
  BY <1>1, <1>2, <1>3, RegOtherInv, ShutRemoveInv DEF RegistryNext

LEMMA RegInvEnough == RegInv => RegistryFollowsClients
  BY DEF RegInv, RegistryFollowsClients, Follows, NotConnected, Pumping

-----------------------------------------------------------------------------
(* The three caps.                                                         *)

RegTyped ==
  /\ RegistryTypeOK
  /\ IsFiniteSet(clients) /\ \A c \in Clients : IsFiniteSet(own[c])

Resting == [pc : {"none", "idle", "ending", "closing", "leaving", "gone"}, topic : {NoTopic}]
InChannel == [pc : {"subscribe", "unsubscribe"}, topic : Topics]
Shutdowns == [pc : {"none", "next", "remove", "close"}, cur : SUBSET Clients, rest : SUBSET Clients]

\* One more, below a cap, is within it; fewer stay within.
LEMMA OneMoreFits ==
  ASSUME NEW S, NEW x, NEW cap \in Nat, IsFiniteSet(S), Cardinality(S) < cap
  PROVE  IsFiniteSet(S \cup {x}) /\ Cardinality(S \cup {x}) <= cap
<1>1. Cardinality(S) \in Nat
  BY FS_CardinalityType
<1>2. /\ IsFiniteSet(S \cup {x})
      /\ Cardinality(S \cup {x}) = Cardinality(S) \/ Cardinality(S \cup {x}) = Cardinality(S) + 1
  BY FS_AddElement
<1> QED
  BY <1>1, <1>2

LEMMA FewerFit ==
  ASSUME NEW S, NEW T \in SUBSET S, NEW cap \in Nat, IsFiniteSet(S), Cardinality(S) <= cap
  PROVE  IsFiniteSet(T) /\ Cardinality(T) <= cap
<1>1. Cardinality(S) \in Nat
  BY FS_CardinalityType
<1>2. IsFiniteSet(T) /\ Cardinality(T) <= Cardinality(S)
  BY FS_Subset
<1>3. Cardinality(T) \in Nat
  BY <1>2, FS_CardinalityType
<1> QED
  BY <1>1, <1>2, <1>3

LEMMA RegCaps ==
  MaxConnections \in Nat /\ MaxChannels \in Nat /\ OutBuffer \in Nat /\ 1 \in 0..OutBuffer
  BY RegistryAssumption

\* A step of c that leaves the map of clients and every set of topics alone.
LEMMA PumpTyped ==
  ASSUME RegTyped, NEW c \in Clients, UNCHANGED <<clients, own>>,
         subs' \subseteq Topics \X Clients,
         open' \subseteq Clients, fan' \subseteq Clients, expelled' \subseteq Clients,
         \A d \in Clients : reader'[d] \in Resting \cup InChannel,
         writer' \in [Clients -> {"none", "run", "gone"}],
         out' \in [Clients -> 0..OutBuffer], shutdown' \in Shutdowns
  PROVE  RegTyped'
  BY DEF RegTyped, RegistryTypeOK, Resting, InChannel, Shutdowns

LEMMA ReaderTyped ==
  ASSUME RegTyped
  PROVE  \A d \in Clients : reader[d] \in Resting \cup InChannel
  BY DEF RegTyped, RegistryTypeOK, Resting, InChannel

\* What is queued for a client stays in its buffer.
LEMMA QueueTyped ==
  ASSUME RegTyped, NEW c \in Clients, AnswerSent(c) PROVE out' \in [Clients -> 0..OutBuffer]
<1>1. out \in [Clients -> 0..OutBuffer] /\ out[c] \in 0..OutBuffer /\ OutBuffer \in Nat
  BY RegCaps DEF RegTyped, RegistryTypeOK
<1>2. PICK n : n = IF writer[c] = "run" /\ out[c] < OutBuffer THEN out[c] + 1 ELSE out[c]
  OBVIOUS
<1>3. n \in 0..OutBuffer /\ out' = [out EXCEPT ![c] = n]
  BY <1>1, <1>2 DEF AnswerSent
<1> QED
  BY <1>1, <1>3

LEMMA DoneTyped ==
  ASSUME RegTyped, NEW c \in Clients, MessageDone(c)
  PROVE  \A d \in Clients : reader'[d] \in Resting \cup InChannel
<1>1. In("ending") \in Resting /\ In("idle") \in Resting
  BY DEF In, Resting
<1>2. \A d \in Clients : reader'[d] \in {reader[d], In("ending"), In("idle")}
  BY DEF MessageDone
<1> QED
  BY <1>1, <1>2, ReaderTyped

\* A read pump, or one of its messages, that goes to a place of its own.
LEMMA PlaceTyped ==
  ASSUME RegTyped, NEW c \in Clients, NEW place \in Resting \cup InChannel,
         reader' = [reader EXCEPT ![c] = place]
  PROVE  \A d \in Clients : reader'[d] \in Resting \cup InChannel
<1>1. \A d \in Clients : reader'[d] \in {reader[d], place}
  OBVIOUS
<1> QED
  BY <1>1, ReaderTyped

LEMMA UpgradeTyped == ASSUME RegTyped, NEW c \in Clients, Upgrade(c) PROVE RegTyped'
<1>1. In("idle") \in Resting /\ In("gone") \in Resting
  BY DEF In, Resting
<1>2. \A d \in Clients : reader'[d] \in Resting \cup InChannel
  BY <1>1, PlaceTyped DEF Upgrade
<1>3. IsFiniteSet(clients') /\ Cardinality(clients') <= MaxConnections
  <2>1. CASE UNCHANGED clients
    BY <2>1 DEF RegTyped, RegistryTypeOK
  <2>2. CASE RegisterClient(c)
    <3>1. Cardinality(clients) \in Nat
      BY FS_CardinalityType DEF RegTyped
    <3>2. Cardinality(clients) < MaxConnections
      BY <2>2, <3>1, RegCaps DEF RegisterClient, Full
    <3> QED
      BY <2>2, <3>2, OneMoreFits, RegCaps DEF RegTyped, RegisterClient
  <2> QED
    BY <2>1, <2>2 DEF Upgrade
<1>4. writer' \in [Clients -> {"none", "run", "gone"}] /\ out' \in [Clients -> 0..OutBuffer]
  BY RegCaps DEF Upgrade, RegTyped, RegistryTypeOK
<1>5. clients' \subseteq Clients /\ open' \subseteq Clients
  BY DEF Upgrade, RegisterClient, RegTyped, RegistryTypeOK
<1> QED
  BY <1>2, <1>3, <1>4, <1>5 DEF Upgrade, RegTyped, RegistryTypeOK, Resting, InChannel

LEMMA OwnTyped ==
  ASSUME RegTyped, NEW c \in Clients, NEW t \in Topics, SubscribeOwn(c, t) \/ UnsubscribeOwn(c, t)
  PROVE  RegTyped'
<1>1. UNCHANGED <<clients, subs, open, writer, fan, shutdown, expelled>>
  BY DEF SubscribeOwn, UnsubscribeOwn
<1>2. out' \in [Clients -> 0..OutBuffer]
  BY QueueTyped DEF SubscribeOwn, UnsubscribeOwn, RegTyped, RegistryTypeOK
<1>3. \A d \in Clients : reader'[d] \in Resting \cup InChannel
  <2>1. CASE MessageDone(c)
    BY <2>1, DoneTyped
  <2>2. ASSUME NEW pc \in {"subscribe", "unsubscribe"},
               reader' = [reader EXCEPT ![c] = [pc |-> pc, topic |-> t]]
        PROVE  \A d \in Clients : reader'[d] \in Resting \cup InChannel
    <3>1. [pc |-> pc, topic |-> t] \in InChannel
      BY DEF InChannel
    <3> QED
      BY <3>1, <2>2, PlaceTyped
  <2> QED
    BY <2>1, <2>2 DEF SubscribeOwn, UnsubscribeOwn
<1>4. /\ own \in [Clients -> SUBSET Topics] /\ own[c] \subseteq Topics /\ IsFiniteSet(own[c])
      /\ Cardinality(own[c]) <= MaxChannels /\ Cardinality(own[c]) \in Nat
  BY FS_CardinalityType DEF RegTyped, RegistryTypeOK
<1>5. ASSUME NEW mine \in SUBSET Topics, own' = [own EXCEPT ![c] = mine],
             IsFiniteSet(mine), Cardinality(mine) <= MaxChannels
      PROVE  RegTyped'
  <2>1. own' \in [Clients -> SUBSET Topics]
    BY <1>4, <1>5
  <2>2. \A d \in Clients : own'[d] = own[d] \/ own'[d] = mine
    BY <1>4, <1>5
  <2>3. \A d \in Clients : IsFiniteSet(own'[d]) /\ Cardinality(own'[d]) <= MaxChannels
    BY <2>2, <1>5 DEF RegTyped, RegistryTypeOK
  <2> QED
    BY <1>1, <1>2, <1>3, <2>1, <2>3 DEF RegTyped, RegistryTypeOK, Resting, InChannel
<1>6. CASE UnsubscribeOwn(c, t)
  <2>1. IsFiniteSet(own[c] \ {t}) /\ Cardinality(own[c] \ {t}) <= MaxChannels
    BY <1>4, FewerFit, RegCaps
  <2> QED
    BY <1>4, <1>5, <1>6, <2>1 DEF UnsubscribeOwn
<1>7. CASE SubscribeOwn(c, t)
  <2>1. CASE own' = own
    BY <1>1, <1>2, <1>3, <2>1, PumpTyped DEF RegTyped, RegistryTypeOK, Shutdowns
  <2>2. CASE own' = [own EXCEPT ![c] = @ \cup {t}] /\ t \in own[c]
    <3>1. own[c] \cup {t} = own[c]
      BY <2>2
    <3> QED
      BY <1>4, <1>5, <2>2, <3>1
  <2>3. CASE own' = [own EXCEPT ![c] = @ \cup {t}] /\ Cardinality(own[c]) < MaxChannels
    <3>1. IsFiniteSet(own[c] \cup {t}) /\ Cardinality(own[c] \cup {t}) <= MaxChannels
      BY <1>4, <2>3, OneMoreFits, RegCaps
    <3> QED
      BY <1>4, <1>5, <2>3, <3>1
  <2> QED
    BY <1>7, <2>1, <2>2, <2>3 DEF SubscribeOwn
<1> QED
  BY <1>6, <1>7

LEMMA RegistryTyped ==
  ASSUME RegTyped, NEW c \in Clients, SubscribeRegistry(c) \/ UnsubscribeRegistry(c)
  PROVE  RegTyped'
<1>1. /\ UNCHANGED <<clients, own, open, writer, fan, shutdown, expelled>>
      /\ MessageDone(c) /\ AnswerSent(c)
  BY DEF SubscribeRegistry, UnsubscribeRegistry
<1>2. reader[c].pc = "subscribe" => reader[c].topic \in Topics
  BY DEF RegTyped, RegistryTypeOK
<1>3. subs' \subseteq Topics \X Clients
  BY <1>2 DEF SubscribeRegistry, UnsubscribeRegistry, RegTyped, RegistryTypeOK
<1> QED
  BY <1>1, <1>3, QueueTyped, DoneTyped, PumpTyped DEF RegTyped, RegistryTypeOK, Shutdowns

\* The end of a read pump.
LEMMA EndTyped ==
  ASSUME RegTyped, NEW c \in Clients, ReadEnds(c) \/ Unregister(c) \/ RemoveAll(c)
  PROVE  RegTyped'
<1>1. In("closing") \in Resting /\ In("leaving") \in Resting /\ In("gone") \in Resting
  BY DEF In, Resting
<1>2. \A d \in Clients : reader'[d] \in Resting \cup InChannel
  BY <1>1, PlaceTyped DEF ReadEnds, Unregister, RemoveAll
<1>3. /\ UNCHANGED <<own, writer, out, fan, shutdown, expelled>>
      /\ clients' \subseteq clients /\ subs' \subseteq subs /\ open' \subseteq open
  BY DEF ReadEnds, Unregister, RemoveAll, Without
<1>4. IsFiniteSet(clients') /\ Cardinality(clients') <= MaxConnections
  BY <1>3, FewerFit, RegCaps DEF RegTyped, RegistryTypeOK
<1> QED
  BY <1>2, <1>3, <1>4 DEF RegTyped, RegistryTypeOK, Resting, InChannel

\* The write pump and the fan-out.
LEMMA WriteTyped ==
  ASSUME RegTyped, NEW c \in Clients, WriteFrame(c) \/ WriteEnds(c) \/ BroadcastSend(c)
  PROVE  RegTyped'
<1>1. UNCHANGED <<clients, own, subs, open, reader, shutdown, expelled>>
  BY DEF WriteFrame, WriteEnds, BroadcastSend
<1>2. fan' \subseteq Clients
  BY DEF WriteFrame, WriteEnds, BroadcastSend, RegTyped, RegistryTypeOK
<1>3. writer' \in [Clients -> {"none", "run", "gone"}]
  BY DEF WriteFrame, WriteEnds, BroadcastSend, RegTyped, RegistryTypeOK
<1>4. out' \in [Clients -> 0..OutBuffer]
  <2>1. CASE BroadcastSend(c)
    BY <2>1, QueueTyped DEF BroadcastSend
  <2>2. CASE WriteEnds(c)
    BY <2>2, RegCaps DEF WriteEnds, RegTyped, RegistryTypeOK
  <2>3. CASE WriteFrame(c)
    BY <2>3, RegCaps DEF WriteFrame, RegTyped, RegistryTypeOK
  <2> QED
    BY <2>1, <2>2, <2>3
<1> QED
  BY <1>1, <1>2, <1>3, <1>4, ReaderTyped, PumpTyped DEF RegTyped, RegistryTypeOK, Shutdowns

LEMMA ShutdownTyped ==
  ASSUME RegTyped,
         \/ ShutdownSnapshot \/ ShutdownRemove \/ ShutdownClose
         \/ \E c \in Clients : ShutdownForget(c)
         \/ \E t \in Topics : BroadcastSnapshot(t)
  PROVE  RegTyped'
<1>1. /\ UNCHANGED <<own, reader, writer, out>>
      /\ clients' \subseteq clients /\ subs' \subseteq subs /\ open' \subseteq open
      /\ fan' \subseteq Clients /\ expelled' \subseteq Clients
  BY DEF ShutdownSnapshot, ShutdownRemove, ShutdownClose, ShutdownForget, BroadcastSnapshot,
         RegTyped, RegistryTypeOK
<1>2. shutdown \in Shutdowns /\ clients \subseteq Clients
  BY DEF RegTyped, RegistryTypeOK, Shutdowns
<1>3. shutdown' \in Shutdowns
  <2>1. CASE ShutdownSnapshot
    BY <2>1, <1>2 DEF ShutdownSnapshot, Shutdowns
  <2>2. CASE ShutdownRemove
    BY <2>2, <1>2 DEF ShutdownRemove, Shutdowns
  <2>3. CASE ShutdownClose
    BY <2>3, <1>2 DEF ShutdownClose, Shutdowns
  <2>4. CASE \E c \in Clients : ShutdownForget(c)
    BY <2>4, <1>2 DEF ShutdownForget, Shutdowns
  <2>5. CASE \E t \in Topics : BroadcastSnapshot(t)
    BY <2>5, <1>2 DEF BroadcastSnapshot
  <2> QED
    BY <2>1, <2>2, <2>3, <2>4, <2>5
<1>4. IsFiniteSet(clients') /\ Cardinality(clients') <= MaxConnections
  BY <1>1, FewerFit, RegCaps DEF RegTyped, RegistryTypeOK
<1> QED
  BY <1>1, <1>3, <1>4 DEF RegTyped, RegistryTypeOK, Shutdowns

LEMMA RegTypedInit == RegistryInit => RegTyped
<1> SUFFICES ASSUME RegistryInit PROVE RegTyped
  OBVIOUS
<1>1. IsFiniteSet({}) /\ Cardinality({}) = 0
  BY FS_EmptySet
<1>2. In("none") \in Resting
  BY DEF In, Resting
<1>3. 0 <= MaxConnections /\ 0 <= MaxChannels /\ 0 \in 0..OutBuffer
  BY RegistryAssumption
<1> QED
  BY <1>1, <1>2, <1>3 DEF RegistryInit, RegTyped, RegistryTypeOK, Resting

LEMMA RegTypedNext == RegTyped /\ [RegistryNext]_regVars => RegTyped'
<1> SUFFICES ASSUME RegTyped, [RegistryNext]_regVars PROVE RegTyped'
  OBVIOUS
<1>1. ASSUME NEW c \in Clients, Upgrade(c) \/ ReadPump(c) \/ ReadEnds(c) PROVE RegTyped'
  BY <1>1, UpgradeTyped, RegistryTyped, EndTyped DEF ReadPump
<1>2. ASSUME NEW c \in Clients, NEW t \in Topics, SubscribeOwn(c, t) \/ UnsubscribeOwn(c, t)
      PROVE  RegTyped'
  BY <1>2, OwnTyped
<1>3. ASSUME NEW c \in Clients, WriteFrame(c) \/ WriteEnds(c) \/ BroadcastSend(c)
      PROVE  RegTyped'
  BY <1>3, WriteTyped
<1>4. CASE UNCHANGED regVars
  BY <1>4 DEF regVars, RegTyped, RegistryTypeOK
<1> QED
  BY <1>1, <1>2, <1>3, <1>4, ShutdownTyped DEF RegistryNext

(* Connections, channels per connection and queued frames stay within      *)
(* their caps (ws/hub/limits.go), whoever connects, asks and leaves.       *)
THEOREM CapsHold == RegistrySpec => []RegistryTypeOK
<1>1. RegistryInit => RegTyped
  BY RegTypedInit
<1>2. RegTyped /\ [RegistryNext]_regVars => RegTyped'
  BY RegTypedNext
<1>3. RegTyped => RegistryTypeOK
  BY DEF RegTyped
<1> QED
  BY <1>1, <1>2, <1>3, PTL DEF RegistrySpec

-----------------------------------------------------------------------------
(* A connected client whose read pump is between two messages is in        *)
(* exactly the channels it asked for, and one that is gone in none, unless *)
(* Shutdown took it out under its read pump (ws/hub/hub.go, Shutdown).     *)
THEOREM RegistryFollows == RegistrySpec => []RegistryFollowsClients
<1>1. RegistryInit => RegInv
  BY RegInvInit
<1>2. RegInv /\ [RegistryNext]_regVars => RegInv'
  BY RegInvNext
<1>3. RegInv => RegistryFollowsClients
  BY RegInvEnough
<1> QED
  BY <1>1, <1>2, <1>3, PTL DEF RegistrySpec

-----------------------------------------------------------------------------
(* The log stream.  A line in a hand is the one that follows those that    *)
(* are further on, as long as the goroutines it has still to pass run.     *)
Busy(s) == IF hand[s] = 0 THEN 0 ELSE 1
Forwarded == IF hand["fan"] # 0 /\ fanStep = "forward" THEN 1 ELSE 0

StreamTypes ==
  /\ endpoint \in {"ws", "sse"} /\ source \in {"open", "ended"} /\ client \in {"here", "gone"}
  /\ up \subseteq Stages /\ cancelled \in BOOLEAN
  /\ hand \in [Stages -> 0..MaxLines]
  /\ fanStep \in {"publish", "persist", "forward"}
  /\ sent \in 0..MaxLines /\ offered \in Nat /\ written \in Nat /\ dropped \in Nat
  /\ pushed \in 0..Backpressure

HandsInOrder ==
  /\ \A s \in Stages : hand[s] # 0 => s \in up
  /\ \A s \in Stages : hand[s] <= sent
  /\ hand["handler"] # 0 => hand["handler"] = written + 1
  /\ "handler" \in up /\ hand["fan"] # 0 => hand["fan"] = written + 1 + Busy("handler")
  /\ "handler" \in up /\ "fan" \in up /\ hand["streamer"] # 0
       => hand["streamer"] = written + 1 + Busy("handler") + Busy("fan")
  /\ ~cancelled \/ Stages \subseteq up
       => sent = written + Busy("handler") + Busy("fan") + Busy("streamer")

Lifetimes ==
  /\ ~cancelled /\ up # {} => "handler" \in up
  /\ ~cancelled /\ "streamer" \in up => "fan" \in up

Counters ==
  /\ written <= sent /\ offered <= sent /\ pushed + dropped <= sent
  /\ hand["streamer"] # 0 => offered < hand["streamer"]
  /\ hand["fan"] # 0 /\ fanStep # "forward" => offered < hand["fan"]
  /\ hand["streamer"] # 0 /\ hand["fan"] # 0 => hand["fan"] < hand["streamer"]
  /\ ~cancelled \/ "handler" \in up => pushed + dropped = written
  /\ ~cancelled => offered = written + Busy("handler") + Forwarded

StreamInv == StreamTypes /\ HandsInOrder /\ Lifetimes /\ Counters

LEMMA StreamInvInit == StreamInit => StreamInv
<1> SUFFICES ASSUME StreamInit PROVE StreamInv
  OBVIOUS
<1>1. /\ "fan" \in Stages /\ "handler" \in Stages /\ "streamer" \in Stages
      /\ \A s \in Stages : hand[s] = 0
  BY DEF StreamInit, Stages
<1>2. StreamTypes
  <2>1. 0 \in 0..MaxLines /\ 0 \in 0..Backpressure
    BY StreamAssumption
  <2>2. hand \in [Stages -> 0..MaxLines]
    BY <2>1 DEF StreamInit
  <2> QED BY <2>1, <2>2 DEF StreamInit, StreamTypes
<1> QED
  BY <1>1, <1>2 DEF StreamInit, StreamInv, HandsInOrder, Lifetimes, Counters, Busy, Forwarded

LEMMA ReturnsHands ==
  ASSUME StreamTypes, NEW s \in Stages, Returns(s)
  PROVE  /\ up' \subseteq Stages /\ up' = up \ {s} /\ hand' \in [Stages -> 0..MaxLines]
         /\ hand'[s] = 0 /\ \A t \in Stages \ {s} : hand'[t] = hand[t]
BY StreamAssumption DEF Returns, StreamTypes

\* What does not touch the lines, the counters or the goroutines.
LEMMA StreamFrame ==
  ASSUME StreamInv, UNCHANGED <<endpoint, sent, up, hand, fanStep, offered, written, pushed, dropped>>,
         source' \in {"open", "ended"}, client' \in {"here", "gone"}, cancelled' \in BOOLEAN,
         cancelled => cancelled'
  PROVE  StreamInv'
<1>1. Busy("handler")' = Busy("handler") /\ Busy("fan")' = Busy("fan")
      /\ Busy("streamer")' = Busy("streamer") /\ Forwarded' = Forwarded
  BY DEF Busy, Forwarded
<1>2. StreamTypes' /\ Lifetimes'
  BY DEF StreamInv, StreamTypes, Lifetimes
<1>3. HandsInOrder'
  BY <1>1 DEF StreamInv, HandsInOrder
<1>4. Counters'
  BY <1>1 DEF StreamInv, Counters
<1> QED BY <1>2, <1>3, <1>4 DEF StreamInv

LEMMA OpenInv == StreamInv /\ Open => StreamInv'
BY DEF Open, StreamInv, StreamTypes, HandsInOrder, Lifetimes, Counters, Busy, Forwarded, Stages

LEMMA TakeInv == StreamInv /\ TakeLine => StreamInv'
BY StreamAssumption
   DEF TakeLine, StreamInv, StreamTypes, HandsInOrder, Lifetimes, Counters, Busy, Forwarded, Stages

LEMMA ToFanInv == StreamInv /\ ToFan => StreamInv'
BY DEF ToFan, Hands, StreamInv, StreamTypes, HandsInOrder, Lifetimes, Counters, Busy, Forwarded, Stages

LEMMA StreamerReturnsInv == StreamInv /\ StreamerReturns => StreamInv'
<1> SUFFICES ASSUME StreamInv, StreamerReturns PROVE StreamInv'
  OBVIOUS
<1>1. /\ up' = up \ {"streamer"} /\ up' \subseteq Stages /\ hand' \in [Stages -> 0..MaxLines]
      /\ hand'["streamer"] = 0 /\ hand'["fan"] = hand["fan"] /\ hand'["handler"] = hand["handler"]
      /\ UNCHANGED <<endpoint, source, sent, fanStep, offered, written, pushed, dropped, cancelled, client>>
      /\ cancelled \/ hand["streamer"] = 0
  BY ReturnsHands DEF StreamerReturns, StreamInv, Stages
<1>2. StreamTypes' /\ Lifetimes'
  BY <1>1 DEF StreamInv, StreamTypes, Lifetimes
<1>3. HandsInOrder'
  BY <1>1 DEF StreamInv, StreamTypes, HandsInOrder, Busy, Stages
<1>4. Counters'
  BY <1>1 DEF StreamInv, StreamTypes, Counters, Busy, Forwarded, Stages
<1> QED BY <1>2, <1>3, <1>4 DEF StreamInv

LEMMA FanInv == StreamInv /\ Fan => StreamInv'
<1>1. StreamInv /\ FanPublish => StreamInv'
  BY DEF FanPublish, StreamInv, StreamTypes, HandsInOrder, Lifetimes, Counters, Busy, Forwarded, Stages
<1>2. StreamInv /\ FanPersist => StreamInv'
  BY DEF FanPersist, StreamInv, StreamTypes, HandsInOrder, Lifetimes, Counters, Busy, Forwarded, Stages
<1>3. StreamInv /\ ToHandler => StreamInv'
  BY DEF ToHandler, Hands, StreamInv, StreamTypes, HandsInOrder, Lifetimes, Counters, Busy,
         Forwarded, Stages
<1>4. StreamInv /\ FanReturns => StreamInv'
  <2> SUFFICES ASSUME StreamInv, FanReturns PROVE StreamInv'
    OBVIOUS
  <2>1. /\ up' = up \ {"fan"} /\ up' \subseteq Stages /\ hand' \in [Stages -> 0..MaxLines]
        /\ hand'["fan"] = 0 /\ hand'["streamer"] = hand["streamer"] /\ hand'["handler"] = hand["handler"]
        /\ UNCHANGED <<endpoint, source, sent, fanStep, offered, written, pushed, dropped, cancelled, client>>
        /\ cancelled \/ (hand["fan"] = 0 /\ "streamer" \notin up)
    BY ReturnsHands DEF FanReturns, StreamInv, Stages
  <2>2. StreamTypes' /\ Lifetimes'
    BY <2>1 DEF StreamInv, StreamTypes, Lifetimes
  <2>3. HandsInOrder'
    BY <2>1 DEF StreamInv, StreamTypes, HandsInOrder, Busy, Stages
  <2>4. Counters'
    BY <2>1 DEF StreamInv, StreamTypes, Counters, Busy, Forwarded, Stages
  <2> QED BY <2>2, <2>3, <2>4 DEF StreamInv
<1> QED BY <1>1, <1>2, <1>3, <1>4 DEF Fan

LEMMA HandlerInv == StreamInv /\ (Handler \/ HandlerWriteFails) => StreamInv'
<1>1. StreamInv /\ HandlerWrites => StreamInv'
  BY StreamAssumption
     DEF HandlerWrites, Push, StreamInv, StreamTypes, HandsInOrder, Lifetimes, Counters, Busy,
         Forwarded, Stages
<1>2. StreamInv /\ HandlerReturns => StreamInv'
  BY DEF HandlerReturns, HandlerReturn, Returns, StreamInv, StreamTypes, HandsInOrder, Lifetimes,
         Counters, Busy, Forwarded, Stages
<1>3. StreamInv /\ HandlerWriteFails => StreamInv'
  BY StreamAssumption
     DEF HandlerWriteFails, Push, HandlerReturn, Returns, StreamInv, StreamTypes, HandsInOrder,
         Lifetimes, Counters, Busy, Forwarded, Stages
<1> QED BY <1>1, <1>2, <1>3 DEF Handler

LEMMA StreamInvNext == StreamInv /\ [StreamNext]_logVars => StreamInv'
<1>1. StreamInv /\ (SourceEnds \/ ClientLeaves \/ RequestDone \/ UNCHANGED logVars) => StreamInv'
  BY StreamFrame DEF SourceEnds, ClientLeaves, RequestDone, logVars, StreamInv, StreamTypes
<1> QED
  BY <1>1, OpenInv, TakeInv, ToFanInv, StreamerReturnsInv, FanInv, HandlerInv DEF StreamNext, Streamer

LEMMA StreamInvEnough == StreamInv => StreamTypeOK /\ LinesReachClient
<1> SUFFICES ASSUME StreamInv PROVE StreamTypeOK /\ LinesReachClient
  OBVIOUS
<1>1. StreamTypeOK
  BY StreamAssumption DEF StreamInv, StreamTypes, Counters, StreamTypeOK
<1>2. ASSUME ~cancelled, NEW n \in (written + 1)..sent PROVE \E s \in Stages : hand[s] # 0 /\ hand[s] = n
  BY <1>2 DEF StreamInv, StreamTypes, HandsInOrder, Lifetimes, Busy, Stages
<1>3. ~cancelled => offered >= written /\ offered - written <= 2
  BY DEF StreamInv, StreamTypes, Counters, Busy, Forwarded, Stages
<1> QED
  BY <1>1, <1>2, <1>3 DEF StreamInv, HandsInOrder, LinesReachClient

(***************************************************************************)
(* A pod's lines reach the client in order and without a gap, the log      *)
(* store has been offered each of them first, and none is lost before the  *)
(* context is done, for any number of lines (k8s/logstream/service.go).    *)
(***************************************************************************)
THEOREM StreamKeepsLines == StreamSpec => [](StreamTypeOK /\ LinesReachClient)
  BY StreamInvInit, StreamInvNext, StreamInvEnough, PTL DEF StreamSpec

-----------------------------------------------------------------------------
(* Suppression.  An alert is fired by one request, which knows what the    *)
(* row says and what has been sent.                                        *)
AlertRows == [live : BOOLEAN, state : {"firing", "acknowledged", "resolved"},
              source : {"host", "other"}, suppressed : BOOLEAN]
ChannelRows == [live : BOOLEAN, enabled : BOOLEAN, external : BOOLEAN]
FireCalls == [pc : {"look", "stamp", "log", "channels"}, alert : AlertIds, list : Lists,
              suppress : BOOLEAN]
OtherCalls == [pc : {"acknowledge", "resolve"}, row : AlertIds]
              \cup [pc : {"update"}, row : ChannelIds, enabled : BOOLEAN]

AlertTypes ==
  /\ alerts \in [AlertIds -> {NoRow} \cup AlertRows]
  /\ channels \in [ChannelIds -> {NoRow} \cup ChannelRows]
  /\ maintained \in BOOLEAN
  /\ call \in [Requests -> {NoCall} \cup FireCalls \cup OtherCalls]
  /\ delivered \subseteq AlertIds \X (ChannelIds \cup {LogChannel})
  /\ was \in [AlertIds -> SUBSET {"in", "out"}] /\ struck \subseteq AlertIds

External(a) == {h \in ChannelIds : <<a, h>> \in delivered /\ channels[h].external}
Logged(a)   == <<a, LogChannel>> \in delivered

\* What was sent was stored first.
Stored ==
  /\ \A a \in AlertIds, h \in ChannelIds \cup {LogChannel} : <<a, h>> \in delivered => alerts[a] # NoRow
  /\ \A a \in AlertIds, h \in ChannelIds : <<a, h>> \in delivered => channels[h] # NoRow
  /\ \A r \in Requests : Fired(r) => alerts[call[r].alert] # NoRow
  /\ \A r, q \in Requests : Fired(r) /\ Fired(q) /\ call[r].alert = call[q].alert => r = q

\* What a request c that fires the alert a knows.
Knows(c, a) ==
  /\ HostIs(maintained) \in was[a]
  /\ c.pc \in {"look", "stamp", "log"} => External(a) = {}
  /\ c.pc = "look" => c.suppress = FALSE
  /\ c.pc = "stamp" => c.suppress = TRUE
  /\ c.suppress = TRUE => External(a) = {} /\ "in" \in was[a]
  /\ c.suppress = FALSE => alerts[a].suppressed = FALSE
  /\ c.suppress = FALSE /\ c.pc \in {"log", "channels"} /\ alerts[a].source = "host"
       => "out" \in was[a] \/ a \in struck
  /\ c.pc = "channels" => Logged(a)

RowTells(a) ==
  /\ alerts[a].suppressed = TRUE => External(a) = {} /\ "in" \in was[a]
  /\ External(a) # {} /\ alerts[a].source = "host" => "out" \in was[a] \/ a \in struck
  /\ Logged(a) \/ a \in struck \/ \E r \in Requests : Fired(r) /\ call[r].alert = a

AlertInv ==
  /\ AlertTypes /\ Stored
  /\ \A r \in Requests : Fired(r) => Knows(call[r], call[r].alert)
  /\ \A a \in AlertIds : alerts[a] # NoRow => RowTells(a)

LEMMA CallKinds ==
  /\ NoCall.pc = "idle"
  /\ \A c \in FireCalls : c.pc \in {"look", "stamp", "log", "channels"} /\ c.alert \in AlertIds
                          /\ c.list \in Lists /\ c.suppress \in BOOLEAN
  /\ \A c \in OtherCalls : c.pc \in {"acknowledge", "resolve", "update"}
BY DEF NoCall, FireCalls, OtherCalls

LEMMA FiredCalls ==
  ASSUME AlertTypes, NEW r \in Requests
  PROVE  Fired(r) <=> call[r] \in FireCalls
BY CallKinds DEF AlertTypes, Fired

LEMMA NoRows ==
  /\ NoRow \notin AlertRows /\ NoRow \notin ChannelRows
  /\ \A c \in AlertRows : c.suppressed \in BOOLEAN
<1>1. \A c \in AlertRows : DOMAIN c = {"live", "state", "source", "suppressed"}
  BY DEF AlertRows
<1>2. \A c \in ChannelRows : DOMAIN c = {"live", "enabled", "external"}
  BY DEF ChannelRows
<1>3. DOMAIN NoRow = {"live"}
  BY DEF NoRow
<1>4. {"live"} # {"live", "state", "source", "suppressed"} /\ {"live"} # {"live", "enabled", "external"}
  OBVIOUS
<1>5. \A c \in AlertRows : c.suppressed \in BOOLEAN
  BY DEF AlertRows
<1> QED BY <1>1, <1>2, <1>3, <1>4, <1>5

LEMMA AlertInvInit == AlertsInit => AlertInv
<1> SUFFICES ASSUME AlertsInit PROVE AlertInv
  OBVIOUS
<1>1. AlertTypes
  BY DEF AlertsInit, AlertTypes
<1>2. \A r \in Requests : ~Fired(r)
  BY CallKinds DEF AlertsInit, Fired
<1> QED
  BY <1>1, <1>2 DEF AlertsInit, AlertInv, Stored

\* Nothing that a fired alert's request knows changes.
LEMMA AlertFrame ==
  ASSUME AlertInv, AlertTypes',
         \A a \in AlertIds :
           /\ alerts'[a] = NoRow <=> alerts[a] = NoRow
           /\ alerts[a] # NoRow => alerts'[a].suppressed = alerts[a].suppressed
                                   /\ alerts'[a].source = alerts[a].source,
         \A h \in ChannelIds :
           channels[h] # NoRow => channels'[h] # NoRow /\ channels'[h].external = channels[h].external,
         delivered' = delivered, was' = was, struck' = struck, maintained' = maintained,
         \A r \in Requests : (Fired(r)' <=> Fired(r)) /\ (Fired(r) => call'[r] = call[r])
  PROVE  AlertInv'
<1>1. \A a \in AlertIds : External(a)' = External(a) /\ (Logged(a)' <=> Logged(a))
  BY DEF External, Logged, AlertInv, Stored
<1>2. Stored'
  <2>1. ASSUME NEW r \in Requests, Fired(r)' PROVE Fired(r) /\ call'[r] = call[r] /\ call[r].alert \in AlertIds
    BY <2>1, FiredCalls, CallKinds DEF AlertInv
  <2>2. \A r \in Requests : Fired(r)' => alerts'[call'[r].alert] # NoRow
    BY <2>1 DEF AlertInv, Stored
  <2>3. \A r, q \in Requests : Fired(r)' /\ Fired(q)' /\ call'[r].alert = call'[q].alert => r = q
    BY <2>1 DEF AlertInv, Stored
  <2> QED BY <2>2, <2>3 DEF Stored, AlertInv
<1>3. ASSUME NEW r \in Requests, Fired(r)' PROVE Knows(call[r], call[r].alert)'
  <2>1. Fired(r) /\ call'[r] = call[r] /\ call[r].alert \in AlertIds
    BY <1>3, FiredCalls, CallKinds DEF AlertInv
  <2>2. Knows(call[r], call[r].alert) /\ alerts[call[r].alert] # NoRow
    BY <2>1 DEF AlertInv, Stored
  <2>3. /\ HostIs(maintained)' = HostIs(maintained)
        /\ alerts'[call[r].alert].suppressed = alerts[call[r].alert].suppressed
        /\ alerts'[call[r].alert].source = alerts[call[r].alert].source
    BY <2>1, <2>2 DEF HostIs
  <2> QED BY <1>1, <2>1, <2>2, <2>3 DEF Knows
<1>4. ASSUME NEW a \in AlertIds, alerts'[a] # NoRow PROVE RowTells(a)'
  BY <1>1, <1>4 DEF AlertInv, RowTells
<1> QED BY <1>2, <1>3, <1>4 DEF AlertInv

\* Calls that fire nothing come and go, and rows change what they may.
LEMMA CallChange ==
  ASSUME AlertInv, NEW r \in Requests, ~Fired(r),
         NEW c \in {NoCall} \cup OtherCalls, call' = [call EXCEPT ![r] = c]
  PROVE  /\ call' \in [Requests -> {NoCall} \cup FireCalls \cup OtherCalls]
         /\ \A q \in Requests : (Fired(q)' <=> Fired(q)) /\ (Fired(q) => call'[q] = call[q])
<1>1. call'[r] = c /\ \A q \in Requests \ {r} : call'[q] = call[q]
  BY DEF AlertInv, AlertTypes
<1>2. c.pc \notin {"look", "stamp", "log", "channels"}
  BY CallKinds
<1>3. ~Fired(r)'
  BY <1>1, <1>2 DEF Fired
<1>4. \A q \in Requests \ {r} : Fired(q)' <=> Fired(q)
  BY <1>1 DEF Fired
<1>5. call' \in [Requests -> {NoCall} \cup FireCalls \cup OtherCalls]
  BY DEF AlertInv, AlertTypes
<1> QED BY <1>1, <1>3, <1>4, <1>5

LEMMA AlertRowChange ==
  ASSUME AlertInv, NEW a \in AlertIds, alerts[a].live, NEW s \in {"acknowledged", "resolved"},
         \/ alerts' = [alerts EXCEPT ![a].state = s]
         \/ alerts' = [alerts EXCEPT ![a].live = FALSE]
  PROVE  /\ alerts' \in [AlertIds -> {NoRow} \cup AlertRows]
         /\ \A b \in AlertIds :
              /\ alerts'[b] = NoRow <=> alerts[b] = NoRow
              /\ alerts[b] # NoRow => alerts'[b].suppressed = alerts[b].suppressed
                                      /\ alerts'[b].source = alerts[b].source
<1>1. alerts[a] \in AlertRows /\ alerts \in [AlertIds -> {NoRow} \cup AlertRows]
  BY DEF AlertInv, AlertTypes, NoRow
<1>2. /\ alerts'[a] \in AlertRows /\ alerts'[a].suppressed = alerts[a].suppressed
      /\ alerts'[a].source = alerts[a].source
  <2>1. \/ alerts'[a] = [alerts[a] EXCEPT !.state = s]
        \/ alerts'[a] = [alerts[a] EXCEPT !.live = FALSE]
    BY <1>1
  <2>2. PICK x \in AlertRows : x = alerts[a]
    BY <1>1
  <2>3. CASE alerts'[a] = [x EXCEPT !.state = s]
    BY <2>2, <2>3 DEF AlertRows
  <2>4. CASE alerts'[a] = [x EXCEPT !.live = FALSE]
    BY <2>2, <2>4 DEF AlertRows
  <2> QED BY <2>1, <2>2, <2>3, <2>4
<1>3. \A b \in AlertIds \ {a} : alerts'[b] = alerts[b]
  BY <1>1
<1>4. alerts' \in [AlertIds -> {NoRow} \cup AlertRows]
  <2>1. alerts' \in [AlertIds -> {alerts'[b] : b \in AlertIds}]
    BY <1>1
  <2> QED BY <1>1, <1>2, <1>3, <2>1
<1> QED BY <1>1, <1>2, <1>3, <1>4, NoRows

LEMMA ChannelRowChange ==
  ASSUME AlertInv, NEW h \in ChannelIds,
         \/ /\ channels[h] = NoRow
            /\ \E b \in BOOLEAN : channels' =
                 [channels EXCEPT ![h] = [live |-> TRUE, enabled |-> TRUE, external |-> b]]
         \/ /\ channels[h].live
            /\ \/ channels' = [channels EXCEPT ![h].live = FALSE]
               \/ \E b \in BOOLEAN : channels' = [channels EXCEPT ![h].enabled = b]
  PROVE  /\ channels' \in [ChannelIds -> {NoRow} \cup ChannelRows]
         /\ \A g \in ChannelIds : channels[g] # NoRow =>
              channels'[g] # NoRow /\ channels'[g].external = channels[g].external
<1>1. /\ channels \in [ChannelIds -> {NoRow} \cup ChannelRows]
      /\ channels[h] # NoRow => channels[h] \in ChannelRows
      /\ channels[h].live => channels[h] # NoRow
  BY DEF AlertInv, AlertTypes, NoRow
<1>2. \A g \in ChannelIds \ {h} : channels'[g] = channels[g]
  BY <1>1
<1>3. /\ channels'[h] \in ChannelRows
      /\ channels[h] # NoRow => channels'[h].external = channels[h].external
  <2>1. CASE channels[h] = NoRow
    <3>1. PICK b \in BOOLEAN : channels' =
            [channels EXCEPT ![h] = [live |-> TRUE, enabled |-> TRUE, external |-> b]]
      BY <1>1, <2>1
    <3>2. channels'[h] = [live |-> TRUE, enabled |-> TRUE, external |-> b]
      BY <1>1, <3>1
    <3> QED BY <2>1, <3>2 DEF ChannelRows
  <2>2. CASE channels[h] # NoRow
    BY <1>1, <2>2 DEF ChannelRows
  <2> QED BY <2>1, <2>2
<1>4. channels' \in [ChannelIds -> {NoRow} \cup ChannelRows]
  <2>1. channels' \in [ChannelIds -> {channels'[g] : g \in ChannelIds}]
    BY <1>1
  <2> QED BY <1>1, <1>2, <1>3, <2>1
<1> QED BY <1>2, <1>3, <1>4, NoRows

LEMMA RowsInv ==
  ASSUME AlertInv, NEW r \in Requests,
         \/ WriteAlert(r) \/ UpdateChannel(r)
         \/ \E a \in AlertIds, op \in {"acknowledge", "resolve"} : LoadAlert(r, a, op)
         \/ \E h \in ChannelIds, b \in BOOLEAN : LoadChannel(r, h, b)
  PROVE  AlertInv'
<1>1. UNCHANGED <<delivered, was, struck, maintained>>
  BY DEF WriteAlert, UpdateChannel, LoadAlert, LoadChannel
<1>2. ASSUME ~Fired(r), NEW c \in {NoCall} \cup OtherCalls, call' = [call EXCEPT ![r] = c],
             alerts' = alerts \/ \E a \in AlertIds, s \in {"acknowledged", "resolved"} :
                                   alerts[a].live /\ alerts' = [alerts EXCEPT ![a].state = s],
             channels' = channels \/ \E h \in ChannelIds, b \in BOOLEAN :
                                   channels[h].live /\ channels' = [channels EXCEPT ![h].enabled = b]
      PROVE  AlertInv'
  <2>1. /\ call' \in [Requests -> {NoCall} \cup FireCalls \cup OtherCalls]
        /\ \A q \in Requests : (Fired(q)' <=> Fired(q)) /\ (Fired(q) => call'[q] = call[q])
    BY <1>2, CallChange
  <2>2. /\ alerts' \in [AlertIds -> {NoRow} \cup AlertRows]
        /\ \A b \in AlertIds :
             /\ alerts'[b] = NoRow <=> alerts[b] = NoRow
             /\ alerts[b] # NoRow => alerts'[b].suppressed = alerts[b].suppressed
                                     /\ alerts'[b].source = alerts[b].source
    <3>1. CASE alerts' = alerts
      BY <3>1 DEF AlertInv, AlertTypes
    <3> QED BY <1>2, <3>1, AlertRowChange
  <2>3. /\ channels' \in [ChannelIds -> {NoRow} \cup ChannelRows]
        /\ \A g \in ChannelIds : channels[g] # NoRow =>
             channels'[g] # NoRow /\ channels'[g].external = channels[g].external
    <3>1. CASE channels' = channels
      BY <3>1 DEF AlertInv, AlertTypes
    <3> QED BY <1>2, <3>1, ChannelRowChange
  <2>4. AlertTypes'
    BY <1>1, <2>1, <2>2, <2>3 DEF AlertInv, AlertTypes
  <2> QED BY <1>1, <2>1, <2>2, <2>3, <2>4, AlertFrame
<1>3. CASE WriteAlert(r) \/ UpdateChannel(r)
  <2>1. ~Fired(r) /\ call[r] \in OtherCalls
    BY <1>3, CallKinds DEF WriteAlert, UpdateChannel, Fired, AlertInv, AlertTypes
  <2>2. CASE WriteAlert(r)
    <3>1. call[r].row \in AlertIds
      BY <2>1, <2>2 DEF WriteAlert, OtherCalls
    <3>2. channels' = channels /\ call' = [call EXCEPT ![r] = NoCall]
      BY <2>2 DEF WriteAlert, CallEnds
    <3>3. alerts' = alerts \/ \E s \in {"acknowledged", "resolved"} :
            alerts[call[r].row].live /\ alerts' = [alerts EXCEPT ![call[r].row].state = s]
      BY <2>2 DEF WriteAlert
    <3> QED BY <1>2, <2>1, <3>1, <3>2, <3>3
  <2>3. CASE UpdateChannel(r)
    <3>1. call[r].row \in ChannelIds /\ call[r].enabled \in BOOLEAN
      BY <2>1, <2>3 DEF UpdateChannel, OtherCalls
    <3>2. alerts' = alerts /\ call' = [call EXCEPT ![r] = NoCall]
      BY <2>3 DEF UpdateChannel, CallEnds
    <3>3. \/ channels' = channels
          \/ /\ channels[call[r].row].live
             /\ channels' = [channels EXCEPT ![call[r].row].enabled = call[r].enabled]
      <4>1. CASE channels[call[r].row].live
        BY <2>3, <4>1 DEF UpdateChannel
      <4>2. CASE ~channels[call[r].row].live
        BY <2>3, <4>2 DEF UpdateChannel
      <4> QED BY <4>1, <4>2
    <3> QED BY <1>2, <2>1, <3>1, <3>2, <3>3
  <2> QED BY <1>3, <2>2, <2>3
<1>4. ASSUME NEW a \in AlertIds, NEW op \in {"acknowledge", "resolve"}, LoadAlert(r, a, op) PROVE AlertInv'
  <2>1. /\ ~Fired(r) /\ call' = [call EXCEPT ![r] = [pc |-> op, row |-> a]]
        /\ alerts' = alerts /\ channels' = channels
    BY <1>4, CallKinds DEF LoadAlert, Fired
  <2>2. [pc |-> op, row |-> a] \in OtherCalls
    BY DEF OtherCalls
  <2> QED BY <1>2, <2>1, <2>2
<1>5. ASSUME NEW h \in ChannelIds, NEW b \in BOOLEAN, LoadChannel(r, h, b) PROVE AlertInv'
  <2>1. /\ ~Fired(r) /\ call' = [call EXCEPT ![r] = [pc |-> "update", row |-> h, enabled |-> b]]
        /\ alerts' = alerts /\ channels' = channels
    BY <1>5, CallKinds DEF LoadChannel, Fired
  <2>2. [pc |-> "update", row |-> h, enabled |-> b] \in OtherCalls
    BY DEF OtherCalls
  <2> QED BY <1>2, <2>1, <2>2
<1> QED BY <1>3, <1>4, <1>5

LEMMA RowsOfNobody ==
  ASSUME AlertInv,
         \/ \E a \in AlertIds : DeleteAlert(a)
         \/ \E h \in ChannelIds : DeleteChannel(h) \/ \E b \in BOOLEAN : CreateChannel(h, b)
  PROVE  AlertInv'
<1>1. UNCHANGED <<delivered, was, struck, maintained>>
  BY DEF DeleteAlert, DeleteChannel, CreateChannel
<1>2. ASSUME NEW a \in AlertIds, DeleteAlert(a) PROVE AlertInv'
  <2>1. call' = call /\ channels' = channels /\ alerts[a].live
        /\ alerts' = [alerts EXCEPT ![a].live = FALSE]
    BY <1>2 DEF DeleteAlert
  <2>2. /\ alerts' \in [AlertIds -> {NoRow} \cup AlertRows]
        /\ \A b \in AlertIds :
             /\ alerts'[b] = NoRow <=> alerts[b] = NoRow
             /\ alerts[b] # NoRow => alerts'[b].suppressed = alerts[b].suppressed
                                     /\ alerts'[b].source = alerts[b].source
    BY <2>1, AlertRowChange
  <2>3. AlertTypes'
    BY <1>1, <2>1, <2>2 DEF AlertInv, AlertTypes
  <2>4. \A q \in Requests : Fired(q)' <=> Fired(q)
    BY <2>1 DEF Fired
  <2> QED BY <1>1, <2>1, <2>2, <2>3, <2>4, AlertFrame
<1>3. ASSUME NEW h \in ChannelIds, DeleteChannel(h) \/ \E b \in BOOLEAN : CreateChannel(h, b)
      PROVE  AlertInv'
  <2>1. call' = call /\ alerts' = alerts
    BY <1>3 DEF DeleteChannel, CreateChannel
  <2>2. /\ channels' \in [ChannelIds -> {NoRow} \cup ChannelRows]
        /\ \A g \in ChannelIds : channels[g] # NoRow =>
             channels'[g] # NoRow /\ channels'[g].external = channels[g].external
    BY <1>3, ChannelRowChange DEF DeleteChannel, CreateChannel, New
  <2>3. AlertTypes'
    BY <1>1, <2>1, <2>2 DEF AlertInv, AlertTypes
  <2>4. \A q \in Requests : Fired(q)' <=> Fired(q)
    BY <2>1 DEF Fired
  <2> QED BY <1>1, <2>1, <2>2, <2>3, <2>4, AlertFrame
<1> QED BY <1>2, <1>3

\* What the requests of other alerts know.
LEMMA OtherAlerts ==
  ASSUME AlertInv, NEW a \in AlertIds, channels' = channels, maintained' = maintained,
         \A b \in AlertIds \ {a} :
           /\ alerts'[b] = alerts[b] /\ was'[b] = was[b] /\ (b \in struck' <=> b \in struck)
           /\ \A h \in ChannelIds \cup {LogChannel} : <<b, h>> \in delivered' <=> <<b, h>> \in delivered,
         \A q \in Requests :
           \/ call'[q] = call[q] /\ (Fired(q) => call[q].alert # a)
           \/ (Fired(q)' => call'[q].alert = a) /\ (Fired(q) => call[q].alert = a)
  PROVE  /\ \A q \in Requests : Fired(q)' /\ call'[q].alert # a => Knows(call[q], call[q].alert)'
         /\ \A b \in AlertIds \ {a} : alerts'[b] # NoRow => RowTells(b)'
<1>1. \A b \in AlertIds \ {a} : External(b)' = External(b) /\ (Logged(b)' <=> Logged(b))
  BY DEF External, Logged
<1>2. HostIs(maintained)' = HostIs(maintained)
  BY DEF HostIs
<1>3. ASSUME NEW q \in Requests, Fired(q)', call'[q].alert # a PROVE Knows(call[q], call[q].alert)'
  <2>1. call'[q] = call[q] /\ Fired(q) /\ call[q].alert # a
    BY <1>3 DEF Fired
  <2>2. call[q].alert \in AlertIds \ {a}
    BY <2>1, FiredCalls, CallKinds DEF AlertInv
  <2>3. Knows(call[q], call[q].alert)
    BY <2>1 DEF AlertInv
  <2> QED BY <1>1, <1>2, <2>1, <2>2, <2>3 DEF Knows
<1>4. ASSUME NEW b \in AlertIds \ {a}, alerts'[b] # NoRow PROVE RowTells(b)'
  <2>1. RowTells(b)
    BY <1>4 DEF AlertInv
  <2>2. \A q \in Requests : Fired(q) /\ call[q].alert = b => Fired(q)' /\ call'[q].alert = b
    BY DEF Fired
  <2> QED BY <1>1, <1>4, <2>1, <2>2 DEF RowTells
<1> QED BY <1>3, <1>4

LEMMA FireInv ==
  ASSUME AlertInv, NEW r \in Requests, NEW a \in AlertIds, NEW s \in {"host", "other"}, NEW l \in Lists,
         Fire(r, a, s, l)
  PROVE  AlertInv'
<1> DEFINE c == [pc |-> IF s = "host" THEN "look" ELSE "log", alert |-> a, list |-> l, suppress |-> FALSE]
           fresh == [live |-> TRUE, state |-> "firing", source |-> s, suppressed |-> FALSE]
<1>1. /\ ~Fired(r) /\ alerts[a] = NoRow
      /\ alerts' = [alerts EXCEPT ![a] = fresh] /\ call' = [call EXCEPT ![r] = c]
      /\ was' = [was EXCEPT ![a] = {HostIs(maintained)}]
      /\ UNCHANGED <<channels, maintained, delivered, struck>>
  BY CallKinds DEF Fire, New, Fired
<1>2. c \in FireCalls /\ c.alert = a /\ c.suppress = FALSE /\ c.pc \in {"look", "log"}
      /\ (s = "host" => c.pc = "look")
  BY DEF FireCalls
<1>3. fresh \in AlertRows /\ fresh.suppressed = FALSE /\ fresh.source = s /\ fresh # NoRow
  <2>1. fresh \in AlertRows /\ fresh.suppressed = FALSE /\ fresh.source = s
    BY DEF AlertRows
  <2> QED BY <2>1, NoRows
<1> HIDE DEF c, fresh
<1>4. /\ alerts'[a] = fresh /\ call'[r] = c /\ was'[a] = {HostIs(maintained)}
      /\ \A b \in AlertIds \ {a} : alerts'[b] = alerts[b] /\ was'[b] = was[b]
      /\ \A q \in Requests \ {r} : call'[q] = call[q]
  BY <1>1 DEF AlertInv, AlertTypes
<1>5. AlertTypes'
  BY <1>1, <1>2, <1>3 DEF AlertInv, AlertTypes, HostIs
<1>6. /\ \A q \in Requests : Fired(q) => call[q].alert # a
      /\ \A h \in ChannelIds \cup {LogChannel} : <<a, h>> \notin delivered
      /\ Fired(r)' /\ \A q \in Requests \ {r} : Fired(q)' <=> Fired(q)
  BY <1>1, <1>2, <1>4, CallKinds DEF AlertInv, Stored, Fired
<1>7. External(a)' = {}
  BY <1>1, <1>6 DEF External
<1>8. Stored'
  BY <1>1, <1>2, <1>3, <1>4, <1>6 DEF AlertInv, Stored
<1>9. Knows(c, a)'
  BY <1>1, <1>2, <1>3, <1>4, <1>7 DEF Knows, HostIs
<1>10. RowTells(a)'
  BY <1>2, <1>3, <1>4, <1>6, <1>7 DEF RowTells
<1>11. /\ \A q \in Requests : Fired(q)' /\ call'[q].alert # a => Knows(call[q], call[q].alert)'
       /\ \A b \in AlertIds \ {a} : alerts'[b] # NoRow => RowTells(b)'
  <2>1. \A q \in Requests :
          \/ call'[q] = call[q] /\ (Fired(q) => call[q].alert # a)
          \/ (Fired(q)' => call'[q].alert = a) /\ (Fired(q) => call[q].alert = a)
    BY <1>1, <1>2, <1>4, <1>6
  <2> QED BY <1>1, <1>4, <2>1, OtherAlerts
<1>12. ASSUME NEW q \in Requests, Fired(q)', call'[q].alert = a PROVE Knows(call[q], call[q].alert)'
  <2>1. q = r
    BY <1>4, <1>6, <1>12
  <2> QED BY <1>2, <1>4, <1>9, <2>1
<1> QED BY <1>5, <1>8, <1>10, <1>11, <1>12 DEF AlertInv

\* A request goes on with its own alert.
LEMMA OwnAlert ==
  ASSUME AlertInv, AlertTypes', NEW r \in Requests, Fired(r), NEW a \in AlertIds, a = call[r].alert,
         channels' = channels, maintained' = maintained, was' = was,
         \A b \in AlertIds \ {a} : alerts'[b] = alerts[b] /\ (b \in struck' <=> b \in struck),
         alerts'[a] # NoRow,
         \A b \in AlertIds, h \in ChannelIds \cup {LogChannel} :
           b # a => (<<b, h>> \in delivered' <=> <<b, h>> \in delivered),
         \A h \in ChannelIds : <<a, h>> \in delivered' => channels[h] # NoRow,
         \A q \in Requests \ {r} : call'[q] = call[q],
         Fired(r)' => call'[r].alert = a /\ Knows(call[r], a)',
         RowTells(a)'
  PROVE  AlertInv'
<1>1. \A q \in Requests \ {r} : (Fired(q)' <=> Fired(q)) /\ (Fired(q) => call[q].alert # a)
  BY DEF AlertInv, Stored, Fired
<1>2. \A q \in Requests :
        \/ call'[q] = call[q] /\ (Fired(q) => call[q].alert # a)
        \/ (Fired(q)' => call'[q].alert = a) /\ (Fired(q) => call[q].alert = a)
  BY <1>1
<1>3. /\ \A q \in Requests : Fired(q)' /\ call'[q].alert # a => Knows(call[q], call[q].alert)'
      /\ \A b \in AlertIds \ {a} : alerts'[b] # NoRow => RowTells(b)'
  BY <1>2, OtherAlerts
<1>4. ASSUME NEW q \in Requests, Fired(q)', call'[q].alert = a PROVE Knows(call[q], call[q].alert)'
  <2>1. q = r
    BY <1>1, <1>4
  <2> QED BY <1>4, <2>1
<1>5. Stored'
  <2>1. \A q \in Requests : Fired(q)' => Fired(q) /\ call'[q].alert = call[q].alert
    BY <1>1
  <2>2. \A q \in Requests : Fired(q) => call[q].alert \in AlertIds
    BY FiredCalls, CallKinds DEF AlertInv
  <2>3. \A b \in AlertIds : alerts[b] # NoRow => alerts'[b] # NoRow
    OBVIOUS
  <2>4. \A b \in AlertIds, h \in ChannelIds \cup {LogChannel} : <<b, h>> \in delivered' => alerts'[b] # NoRow
    BY <2>3 DEF AlertInv, Stored
  <2>5. \A q \in Requests : Fired(q)' => alerts'[call'[q].alert] # NoRow
    BY <2>1, <2>2, <2>3 DEF AlertInv, Stored
  <2>6. \A p, q \in Requests : Fired(p)' /\ Fired(q)' /\ call'[p].alert = call'[q].alert => p = q
    BY <2>1 DEF AlertInv, Stored
  <2>7. \A b \in AlertIds, h \in ChannelIds : <<b, h>> \in delivered' => channels[h] # NoRow
    BY DEF AlertInv, Stored
  <2> QED BY <2>4, <2>5, <2>6, <2>7 DEF Stored
<1> QED BY <1>3, <1>4, <1>5 DEF AlertInv

LEMMA AlertLookInv == ASSUME AlertInv, NEW r \in Requests, LookAtHost(r) PROVE AlertInv'
<1>1. PICK a \in AlertIds : a = call[r].alert
  BY FiredCalls, CallKinds DEF LookAtHost, Fired, AlertInv
<1>2. Fired(r) /\ call[r] \in FireCalls /\ call[r].pc = "look" /\ Knows(call[r], a)
      /\ alerts[a] # NoRow /\ call[r].suppress = FALSE /\ RowTells(a)
  BY <1>1, FiredCalls, CallKinds DEF LookAtHost, Fired, AlertInv, Stored, Knows
<1>3. UNCHANGED <<alerts, channels, maintained, delivered, was>>
  BY DEF LookAtHost
<1>4. External(a)' = External(a) /\ External(a) = {} /\ (Logged(a)' <=> Logged(a))
      /\ HostIs(maintained)' = HostIs(maintained)
  BY <1>2, <1>3 DEF External, Logged, Knows, HostIs
<1>5. PICK d \in FireCalls :
        /\ call' = [call EXCEPT ![r] = d] /\ d.alert = a
        /\ \/ /\ d.pc = "stamp" /\ d.suppress = TRUE /\ maintained = TRUE /\ struck' = struck
           \/ /\ d.pc = "log" /\ d.suppress = FALSE
              /\ \/ maintained = FALSE /\ struck' = struck
                 \/ struck' = struck \cup {a}
  <2>1. PICK x \in FireCalls : x = call[r]
    BY <1>2
  <2>2. call \in [Requests -> {NoCall} \cup FireCalls \cup OtherCalls] /\ maintained \in BOOLEAN
    BY DEF AlertInv, AlertTypes
  <2>3. ASSUME NEW pc \in {"stamp", "log"}, NEW m \in BOOLEAN
        PROVE  \E d \in FireCalls : /\ [x EXCEPT !.pc = pc, !.suppress = m] = d
                                    /\ d.pc = pc /\ d.suppress = m /\ d.alert = x.alert
    <3>1. PICK y \in FireCalls : y = [x EXCEPT !.pc = pc]
      BY DEF FireCalls
    <3>2. y.alert = x.alert /\ y.pc = pc
      BY <3>1 DEF FireCalls
    <3>3. PICK z \in FireCalls : z = [y EXCEPT !.suppress = m]
      BY DEF FireCalls
    <3>4. z.pc = pc /\ z.suppress = m /\ z.alert = x.alert
      BY <3>2, <3>3 DEF FireCalls
    <3>5. [x EXCEPT !.pc = pc, !.suppress = m] = z
      BY <3>1, <3>3
    <3> QED BY <3>4, <3>5
  <2>4. CASE call' = [call EXCEPT ![r].pc = IF maintained THEN "stamp" ELSE "log",
                                  ![r].suppress = maintained] /\ struck' = struck
    <3>1. PICK pc \in {"stamp", "log"} : pc = IF maintained THEN "stamp" ELSE "log"
      OBVIOUS
    <3>2. PICK d \in FireCalls :
            /\ [x EXCEPT !.pc = pc, !.suppress = maintained] = d
            /\ d.pc = pc /\ d.suppress = maintained /\ d.alert = x.alert
      BY <2>2, <2>3
    <3>3. call' = [call EXCEPT ![r] = d]
      BY <2>1, <2>2, <2>4, <3>1, <3>2
    <3> QED BY <1>1, <2>1, <2>2, <2>4, <3>1, <3>2, <3>3
  <2>5. CASE CallGoes(r, "log") /\ struck' = struck \cup {a}
    <3>1. PICK d \in FireCalls : d = [x EXCEPT !.pc = "log"]
      BY DEF FireCalls
    <3>2. d.alert = a /\ d.pc = "log" /\ d.suppress = FALSE
      BY <1>1, <1>2, <2>1, <3>1 DEF FireCalls
    <3>3. call' = [call EXCEPT ![r] = d]
      BY <2>1, <2>2, <2>5, <3>1 DEF CallGoes
    <3> QED BY <2>5, <3>2, <3>3
  <2> QED BY <1>1, <2>4, <2>5 DEF LookAtHost
<1>6. call'[r] = d /\ \A q \in Requests \ {r} : call'[q] = call[q]
  BY <1>5 DEF AlertInv, AlertTypes
<1>7. Fired(r)'
  BY <1>5, <1>6 DEF Fired
<1>8. AlertTypes'
  BY <1>2, <1>3, <1>5 DEF AlertInv, AlertTypes
<1>9. Knows(d, a)'
  BY <1>2, <1>3, <1>4, <1>5 DEF Knows, HostIs
<1>10. RowTells(a)'
  BY <1>2, <1>3, <1>4, <1>5, <1>6, <1>7 DEF RowTells, Knows
<1>11. \A h \in ChannelIds : <<a, h>> \in delivered' => channels[h] # NoRow
  BY <1>1, <1>3 DEF AlertInv, Stored
<1>12. \A b \in AlertIds \ {a} : b \in struck' <=> b \in struck
  BY <1>5
<1> QED
  BY <1>1, <1>2, <1>3, <1>5, <1>6, <1>8, <1>9, <1>10, <1>11, <1>12, OwnAlert

LEMMA CallMoves ==
  ASSUME AlertInv, NEW r \in Requests, call[r] \in FireCalls, NEW pc \in {"log", "channels"},
         CallGoes(r, pc)
  PROVE  \E d \in FireCalls :
           /\ call' = [call EXCEPT ![r] = d] /\ call'[r] = d
           /\ d.pc = pc /\ d.alert = call[r].alert /\ d.suppress = call[r].suppress
           /\ \A q \in Requests \ {r} : call'[q] = call[q]
<1>1. call \in [Requests -> {NoCall} \cup FireCalls \cup OtherCalls]
  BY DEF AlertInv, AlertTypes
<1>2. PICK x \in FireCalls : x = call[r]
  OBVIOUS
<1> DEFINE d == [x EXCEPT !.pc = pc]
<1>3. d \in FireCalls /\ d.pc = pc /\ d.alert = x.alert /\ d.suppress = x.suppress
  BY DEF FireCalls
<1>4. call' = [call EXCEPT ![r] = d]
  BY <1>1, <1>2 DEF CallGoes
<1> HIDE DEF d
<1>5. call'[r] = d /\ \A q \in Requests \ {r} : call'[q] = call[q]
  BY <1>1, <1>4
<1> QED BY <1>2, <1>3, <1>4, <1>5

LEMMA StampInv == ASSUME AlertInv, NEW r \in Requests, Stamp(r) PROVE AlertInv'
<1>1. PICK a \in AlertIds : a = call[r].alert
  BY FiredCalls, CallKinds DEF Stamp, Fired, AlertInv
<1>2. Fired(r) /\ call[r] \in FireCalls /\ Knows(call[r], a) /\ alerts[a] # NoRow
      /\ call[r].suppress = TRUE /\ RowTells(a)
  BY <1>1, FiredCalls, CallKinds DEF Stamp, Fired, AlertInv, Stored, Knows
<1>3. UNCHANGED <<channels, maintained, delivered, was>>
  BY DEF Stamp
<1>4. External(a)' = External(a) /\ External(a) = {} /\ (Logged(a)' <=> Logged(a))
      /\ HostIs(maintained)' = HostIs(maintained)
  BY <1>2, <1>3 DEF External, Logged, Knows, HostIs
<1>5. PICK d \in FireCalls :
        /\ call' = [call EXCEPT ![r] = d] /\ call'[r] = d
        /\ d.pc = "log" /\ d.alert = a /\ d.suppress = TRUE
        /\ \A q \in Requests \ {r} : call'[q] = call[q]
  BY <1>1, <1>2, CallMoves DEF Stamp
<1>6. /\ alerts' \in [AlertIds -> {NoRow} \cup AlertRows]
      /\ \A b \in AlertIds \ {a} : alerts'[b] = alerts[b]
      /\ alerts'[a] # NoRow
      /\ struck' = struck \/ struck' = struck \cup {a}
  <2>1. alerts \in [AlertIds -> {NoRow} \cup AlertRows] /\ alerts[a] \in AlertRows
    BY <1>2 DEF AlertInv, AlertTypes
  <2>2. CASE alerts' = [alerts EXCEPT ![a].suppressed = TRUE]
    <3>1. PICK x \in AlertRows : x = alerts[a]
      BY <2>1
    <3>2. [x EXCEPT !.suppressed = TRUE] \in AlertRows
      BY DEF AlertRows
    <3>3. alerts' = [alerts EXCEPT ![a] = [x EXCEPT !.suppressed = TRUE]]
      BY <2>1, <2>2, <3>1
    <3>4. alerts'[a] \in AlertRows
      BY <2>1, <3>2, <3>3
    <3>5. alerts' \in [AlertIds -> {NoRow} \cup AlertRows]
      BY <2>1, <3>2, <3>3
    <3>6. \A b \in AlertIds \ {a} : alerts'[b] = alerts[b]
      BY <2>1, <3>3
    <3>7. struck' = struck \/ struck' = struck \cup {a}
      BY <1>1 DEF Stamp
    <3> QED BY <3>4, <3>5, <3>6, <3>7, NoRows
  <2>3. CASE alerts' = alerts
    BY <1>1, <1>2, <2>1, <2>3 DEF Stamp
  <2> QED BY <1>1, <2>2, <2>3 DEF Stamp
<1>7. Fired(r)'
  BY <1>5 DEF Fired
<1>8. AlertTypes'
  BY <1>3, <1>5, <1>6 DEF AlertInv, AlertTypes
<1>9. Knows(d, a)'
  BY <1>2, <1>3, <1>4, <1>5 DEF Knows
<1>10. RowTells(a)'
  BY <1>2, <1>3, <1>4, <1>5, <1>7 DEF RowTells, Knows
<1>11. \A h \in ChannelIds : <<a, h>> \in delivered' => channels[h] # NoRow
  BY <1>1, <1>3 DEF AlertInv, Stored
<1>12. \A b \in AlertIds \ {a} : b \in struck' <=> b \in struck
  BY <1>6
<1> QED
  BY <1>1, <1>2, <1>3, <1>5, <1>6, <1>8, <1>9, <1>10, <1>11, <1>12, OwnAlert

LEMMA LogInv == ASSUME AlertInv, NEW r \in Requests, DispatchLog(r) PROVE AlertInv'
<1>1. PICK a \in AlertIds : a = call[r].alert
  BY FiredCalls, CallKinds DEF DispatchLog, Fired, AlertInv
<1>2. Fired(r) /\ call[r] \in FireCalls /\ call[r].pc = "log" /\ Knows(call[r], a) /\ alerts[a] # NoRow
      /\ RowTells(a)
  BY <1>1, FiredCalls, CallKinds DEF DispatchLog, Fired, AlertInv, Stored
<1>3. UNCHANGED <<alerts, channels, maintained, was, struck>>
      /\ delivered' = delivered \cup {<<a, LogChannel>>}
  BY <1>1 DEF DispatchLog
<1>4. External(a)' = External(a) /\ External(a) = {} /\ Logged(a)'
      /\ HostIs(maintained)' = HostIs(maintained)
  BY <1>2, <1>3, AlertsAssumption DEF External, Logged, Knows, HostIs
<1>5. PICK d \in FireCalls :
        /\ call' = [call EXCEPT ![r] = d] /\ call'[r] = d
        /\ d.pc = "channels" /\ d.alert = a /\ d.suppress = call[r].suppress
        /\ \A q \in Requests \ {r} : call'[q] = call[q]
  BY <1>1, <1>2, CallMoves DEF DispatchLog
<1>6. AlertTypes'
  BY <1>1, <1>3, <1>5 DEF AlertInv, AlertTypes
<1>7. Knows(d, a)'
  BY <1>2, <1>3, <1>4, <1>5 DEF Knows
<1>8. RowTells(a)'
  BY <1>2, <1>3, <1>4 DEF RowTells
<1>9. \A h \in ChannelIds : <<a, h>> \in delivered' => channels[h] # NoRow
  BY <1>1, <1>3, AlertsAssumption DEF AlertInv, Stored
<1> QED
  BY <1>1, <1>2, <1>3, <1>5, <1>6, <1>7, <1>8, <1>9, OwnAlert

LEMMA ListTail ==
  ASSUME NEW l \in Lists, l # <<>>
  PROVE  Head(l) \in ChannelIds /\ Tail(l) \in Lists
<1>1. PICK n \in 0..MaxNamed : l \in [1..n -> ChannelIds]
  BY DEF Lists, SeqOf
<1>2. n \in Nat /\ l \in Seq(ChannelIds) /\ Len(l) = n
  BY <1>1, AlertsAssumption, SeqDef
<1>3. /\ Head(l) \in ChannelIds
      /\ Tail(l) \in Seq(ChannelIds) /\ Len(Tail(l)) = n - 1
  BY <1>2, HeadTailProperties
<1>4. PICK m : m = n - 1
  OBVIOUS
<1>5. Len(Tail(l)) = m /\ Tail(l) \in [1..m -> ChannelIds]
  BY <1>3, <1>4, LenProperties
<1>6. n # 0
  BY <1>2, EmptySeq
<1>7. m \in 0..MaxNamed
  BY <1>1, <1>2, <1>4, <1>6, AlertsAssumption
<1> QED BY <1>3, <1>5, <1>7 DEF Lists, SeqOf

LEMMA DispatchInv == ASSUME AlertInv, NEW r \in Requests, Dispatch(r) PROVE AlertInv'
<1>1. PICK a \in AlertIds : a = call[r].alert
  BY FiredCalls, CallKinds DEF Dispatch, Fired, AlertInv
<1>2. Fired(r) /\ call[r] \in FireCalls /\ call[r].pc = "channels" /\ Knows(call[r], a) /\ alerts[a] # NoRow
      /\ RowTells(a) /\ call[r].list \in Lists /\ call[r].list # <<>> /\ call[r].suppress \in BOOLEAN
  BY <1>1, FiredCalls, CallKinds DEF Dispatch, Fired, AlertInv, Stored
<1>3. PICK x \in FireCalls : x = call[r]
  BY <1>2
<1>4. PICK h \in ChannelIds : h = Head(x.list) /\ Tail(x.list) \in Lists
  BY <1>2, <1>3, ListTail
<1>5. UNCHANGED <<alerts, channels, maintained, was, struck>>
      /\ delivered' = delivered \cup (IF Wanted(r, h) THEN {<<a, h>>} ELSE {})
  BY <1>1, <1>3, <1>4 DEF Dispatch
<1> DEFINE d == [x EXCEPT !.list = Tail(x.list)]
<1>6. d \in FireCalls /\ d.pc = "channels" /\ d.alert = a /\ d.suppress = x.suppress
  BY <1>1, <1>2, <1>3, <1>4 DEF FireCalls
<1>7. call \in [Requests -> {NoCall} \cup FireCalls \cup OtherCalls]
  BY DEF AlertInv, AlertTypes
<1>8. call' = [call EXCEPT ![r] = d]
  BY <1>3, <1>7 DEF Dispatch
<1> HIDE DEF d
<1>9. call'[r] = d /\ \A q \in Requests \ {r} : call'[q] = call[q]
  BY <1>7, <1>8
<1>10. Logged(a)' /\ Logged(a) /\ HostIs(maintained)' = HostIs(maintained)
  BY <1>2, <1>5 DEF Logged, Knows, HostIs
<1>11. External(a)' = External(a) \/ (x.suppress = FALSE /\ Wanted(r, h))
  <2>1. CASE ~Wanted(r, h)
    BY <1>5, <2>1 DEF External
  <2>2. CASE Wanted(r, h) /\ x.suppress = TRUE
    <3>1. ~channels[h].external
      BY <1>3, <2>2 DEF Wanted
    <3> QED BY <1>5, <3>1 DEF External
  <2> QED BY <1>2, <1>3, <2>1, <2>2
<1>12. AlertTypes'
  BY <1>1, <1>5, <1>6, <1>7, <1>8 DEF AlertInv, AlertTypes
<1>13. Knows(d, a)'
  BY <1>2, <1>3, <1>5, <1>6, <1>10, <1>11 DEF Knows
<1>14. RowTells(a)'
  <2>1. alerts[a].suppressed = TRUE => External(a)' = External(a)
    BY <1>2, <1>3, <1>11 DEF Knows
  <2>2. External(a)' # {} /\ alerts[a].source = "host" => "out" \in was[a] \/ a \in struck
    BY <1>2, <1>3, <1>11 DEF Knows, RowTells
  <2> QED BY <1>2, <1>5, <1>10, <2>1, <2>2 DEF RowTells
<1>15. \A g \in ChannelIds : <<a, g>> \in delivered' => channels[g] # NoRow
  <2>1. Wanted(r, h) => channels[h] # NoRow
    BY DEF Wanted, NoRow
  <2> QED BY <1>1, <1>5, <2>1 DEF AlertInv, Stored
<1> QED
  BY <1>1, <1>2, <1>5, <1>6, <1>9, <1>12, <1>13, <1>14, <1>15, OwnAlert

LEMMA ReturnInv == ASSUME AlertInv, NEW r \in Requests, ReturnCall(r) PROVE AlertInv'
<1>1. PICK a \in AlertIds : a = call[r].alert
  BY FiredCalls, CallKinds DEF ReturnCall, Fired, AlertInv
<1>2. Fired(r) /\ Knows(call[r], a) /\ alerts[a] # NoRow /\ RowTells(a) /\ Logged(a)
  BY <1>1 DEF ReturnCall, Fired, AlertInv, Stored, Knows
<1>3. UNCHANGED <<alerts, channels, maintained, delivered, was, struck>>
      /\ call' = [call EXCEPT ![r] = NoCall]
  BY DEF ReturnCall, CallEnds
<1>4. call'[r] = NoCall /\ \A q \in Requests \ {r} : call'[q] = call[q]
  BY <1>3 DEF AlertInv, AlertTypes
<1>5. ~Fired(r)'
  BY <1>4, CallKinds DEF Fired
<1>6. AlertTypes'
  BY <1>3 DEF AlertInv, AlertTypes
<1>7. RowTells(a)'
  BY <1>2, <1>3 DEF RowTells, External, Logged
<1>8. \A h \in ChannelIds : <<a, h>> \in delivered' => channels[h] # NoRow
  BY <1>1, <1>3 DEF AlertInv, Stored
<1> QED
  BY <1>1, <1>2, <1>3, <1>4, <1>5, <1>6, <1>7, <1>8, OwnAlert

LEMMA MaintainInv == ASSUME AlertInv, Maintain PROVE AlertInv'
<1>1. UNCHANGED <<alerts, channels, call, delivered, struck>> /\ maintained' = ~maintained
  BY DEF Maintain
<1>2. \A a \in AlertIds : was[a] \subseteq was'[a]
  BY DEF Maintain
<1>3. \A r \in Requests : (Fired(r)' <=> Fired(r)) /\ (Fired(r) => HostIs(maintained') \in was'[call[r].alert])
  BY <1>1, FiredCalls, CallKinds DEF Maintain, Fired, AlertInv
<1>4. \A a \in AlertIds : External(a)' = External(a) /\ (Logged(a)' <=> Logged(a))
  BY <1>1 DEF External, Logged
<1>5. AlertTypes'
  BY <1>1 DEF Maintain, AlertInv, AlertTypes, HostIs
<1>6. Stored'
  BY <1>1, <1>3 DEF AlertInv, Stored
<1>7. ASSUME NEW r \in Requests, Fired(r)' PROVE Knows(call[r], call[r].alert)'
  <2>1. Fired(r) /\ call[r].alert \in AlertIds
    BY <1>3, <1>7, FiredCalls, CallKinds DEF AlertInv
  <2>2. Knows(call[r], call[r].alert)
    BY <2>1 DEF AlertInv
  <2>3. HostIs(maintained)' \in was'[call[r].alert]
    BY <1>3, <2>1 DEF HostIs
  <2> QED BY <1>1, <1>2, <1>4, <2>1, <2>2, <2>3 DEF Knows
<1>8. ASSUME NEW a \in AlertIds, alerts'[a] # NoRow PROVE RowTells(a)'
  BY <1>1, <1>2, <1>3, <1>4, <1>8 DEF AlertInv, RowTells
<1> QED BY <1>5, <1>6, <1>7, <1>8 DEF AlertInv

LEMMA AlertsCrashInv == ASSUME AlertInv, AlertsCrash PROVE AlertInv'
<1>1. /\ UNCHANGED <<alerts, channels, maintained, delivered, was>>
      /\ struck' = struck \cup {call[r].alert : r \in {q \in Requests : Fired(q)}}
      /\ call' = [r \in Requests |-> NoCall]
  BY DEF AlertsCrash
<1>2. \A r \in Requests : ~Fired(r)'
  BY <1>1, CallKinds DEF Fired
<1>3. \A r \in Requests : Fired(r) => call[r].alert \in struck' /\ call[r].alert \in AlertIds
  BY <1>1, FiredCalls, CallKinds DEF AlertInv
<1>4. AlertTypes'
  <2>1. struck' \subseteq AlertIds
    BY <1>1, <1>3 DEF AlertInv, AlertTypes
  <2> QED BY <1>1, <2>1 DEF AlertInv, AlertTypes
<1>5. Stored'
  BY <1>1, <1>2 DEF AlertInv, Stored
<1>6. ASSUME NEW a \in AlertIds, alerts'[a] # NoRow PROVE RowTells(a)'
  <2>1. RowTells(a) /\ External(a)' = External(a) /\ (Logged(a)' <=> Logged(a)) /\ struck \subseteq struck'
    BY <1>1, <1>6 DEF AlertInv, External, Logged
  <2> QED BY <1>1, <1>3, <2>1 DEF RowTells
<1> QED BY <1>2, <1>4, <1>5, <1>6 DEF AlertInv

LEMMA AlertInvNext == AlertInv /\ [AlertsNext]_alertVars => AlertInv'
<1> SUFFICES ASSUME AlertInv, [AlertsNext]_alertVars PROVE AlertInv'
  OBVIOUS
<1>1. CASE UNCHANGED alertVars
  <2>1. \A r \in Requests : Fired(r)' <=> Fired(r)
    BY <1>1 DEF alertVars, Fired
  <2>2. AlertTypes'
    BY <1>1 DEF alertVars, AlertInv, AlertTypes
  <2> QED BY <1>1, <2>1, <2>2, AlertFrame DEF alertVars
<1>2. ASSUME NEW a \in AlertIds, DeleteAlert(a) PROVE AlertInv'
  BY <1>2, RowsOfNobody
<1>3. ASSUME NEW h \in ChannelIds, DeleteChannel(h) \/ \E b \in BOOLEAN : CreateChannel(h, b)
      PROVE  AlertInv'
  BY <1>3, RowsOfNobody
<1>4. ASSUME NEW r \in Requests,
             LookAtHost(r) \/ Stamp(r) \/ DispatchLog(r) \/ Dispatch(r) \/ ReturnCall(r)
      PROVE  AlertInv'
  BY <1>4, AlertLookInv, StampInv, LogInv, DispatchInv, ReturnInv
<1>5. ASSUME NEW r \in Requests, NEW a \in AlertIds, NEW s \in {"host", "other"}, NEW l \in Lists,
             Fire(r, a, s, l)
      PROVE  AlertInv'
  BY <1>5, FireInv
<1>6. ASSUME NEW r \in Requests,
             \/ WriteAlert(r) \/ UpdateChannel(r)
             \/ \E a \in AlertIds, op \in {"acknowledge", "resolve"} : LoadAlert(r, a, op)
             \/ \E h \in ChannelIds, b \in BOOLEAN : LoadChannel(r, h, b)
      PROVE  AlertInv'
  BY <1>6, RowsInv
<1> QED
  BY <1>1, <1>2, <1>3, <1>4, <1>5, <1>6, MaintainInv, AlertsCrashInv DEF AlertsNext

LEMMA AlertInvEnough == AlertInv => AlertsTypeOK /\ SuppressionTold
<1> SUFFICES ASSUME AlertInv PROVE AlertsTypeOK /\ SuppressionTold
  OBVIOUS
<1>1. AlertsTypeOK
  BY DEF AlertInv, AlertTypes, AlertsTypeOK, AlertRows, ChannelRows, FireCalls, OtherCalls
<1>2. ASSUME NEW a \in AlertIds, alerts[a] # NoRow
      PROVE  RowTells(a) /\ alerts[a].suppressed \in BOOLEAN
  BY <1>2, NoRows DEF AlertInv, AlertTypes
<1> QED
  BY <1>1, <1>2 DEF SuppressionTold, RowTells, External, Logged

(***************************************************************************)
(* A suppressed alert goes to no external channel, a notified one met a    *)
(* moment outside maintenance, and every alert is logged, for any          *)
(* requests, alerts and channels (alerts/service.go, dispatchChannels).    *)
(***************************************************************************)
THEOREM SuppressionIsTold == AlertsSpec => [](AlertsTypeOK /\ SuppressionTold)
  BY AlertInvInit, AlertInvNext, AlertInvEnough, PTL DEF AlertsSpec

-----------------------------------------------------------------------------
(* The process.  The routes are those of the modules built so far.         *)
Visiting == {"none", "under way", "hijacked", "answer", "error", "panic", "not found"}

OpenVisits == [pc : {"under way", "hijacked"}, to : Visited]

BuiltRoutes(b) == {Modules[i] : i \in 1..b}

LEMMA BuiltSoFar ==
  ASSUME NEW b \in 0..Len(Modules)
  PROVE  ToSet(SubSeq(Modules, 1, b)) = BuiltRoutes(b)
<1> DEFINE S == {Modules[i] : i \in 1..b}
<1>1. Len(Modules) = 14
  BY DEF Modules
<1> HIDE DEF Modules
<1>2. /\ SubSeq(Modules, 1, b) \in Seq(S)
      /\ Len(SubSeq(Modules, 1, b)) = b
      /\ \A i \in 1..b : SubSeq(Modules, 1, b)[i] = Modules[i]
  BY <1>1, SubSeqProperties
<1>3. DOMAIN SubSeq(Modules, 1, b) = 1..b
  BY <1>2, LenProperties
<1> QED
  BY <1>2, <1>3 DEF ToSet, BuiltRoutes

NoRequestCut == \A c \in cut : c.pc # "under way"

ServerInv ==
  /\ stage \in {"starting", "serving", "draining", "ended"}
  /\ built \in 0..Len(Modules) /\ routes \subseteq BuiltRoutes(built)
  /\ loop \in {"off", "on", "over"} /\ waited \in 0..Grace
  /\ visit \in [Visits -> {NoVisit} \cup [pc : Visiting, to : Visited]]
  /\ result \in {"none", "nil", "error"}
  /\ cut \subseteq OpenVisits
  /\ stage # "ended" => result = "none" /\ NoRequestCut
  /\ stage = "draining" => signalled
  /\ waited > 0 => stage \in {"draining", "ended"}
  /\ result = "nil" => signalled /\ NoRequestCut
  /\ waited > 0 => waited = Grace \/ NoRequestCut

LEMMA ServerInvInit == ServerInit => ServerInv
<1> SUFFICES ASSUME ServerInit PROVE ServerInv
  OBVIOUS
<1>1. Len(Modules) = 14
  BY DEF Modules
<1> QED
  BY <1>1, ServerAssumption DEF ServerInit, ServerInv, BuiltRoutes, NoRequestCut

LEMMA UnderWay ==
  ASSUME ServerInv, NEW v \in Under \cup Hijacked
  PROVE  visit[v] \in [pc : {"under way", "hijacked"}, to : Visited] /\ visit[v].to \in Visited
<1>1. visit[v] \in {NoVisit} \cup [pc : Visiting, to : Visited] /\ visit[v].pc \in {"under way", "hijacked"}
  BY DEF ServerInv, Under, Hijacked
<1>2. visit[v] # NoVisit
  <2>1. NoVisit.pc = "none"
    BY DEF NoVisit
  <2> QED BY <1>1, <2>1
<1> QED BY <1>1, <1>2

LEMMA EndInvServer ==
  ASSUME ServerInv, NEW r \in {"nil", "error"}, ProcessEnds(r), stage # "ended",
         r = "nil" => signalled /\ Under = {},
         waited > 0 => waited = Grace \/ Under = {}
  PROVE  ServerInv'
<1>1. cut' \subseteq OpenVisits
  BY UnderWay DEF ProcessEnds, OpenVisits
<1>2. Under = {} => NoRequestCut'
  BY DEF ProcessEnds, Under, Hijacked, NoRequestCut
<1>3. visit' \in [Visits -> {NoVisit} \cup [pc : Visiting, to : Visited]]
  BY DEF ProcessEnds
<1> QED
  BY <1>1, <1>2, <1>3 DEF ServerInv, ProcessEnds, BuiltRoutes

LEMMA ServerInvNext == ServerInv /\ [ServerNext]_serverVars => ServerInv'
<1> SUFFICES ASSUME ServerInv, [ServerNext]_serverVars PROVE ServerInv'
  OBVIOUS
<1>1. Len(Modules) = 14
  BY DEF Modules
<1> HIDE DEF Modules
<1>2. CASE RefuseToStart \/ ListenFails \/ Drained \/ GiveUp
  <2>1. \E r \in {"nil", "error"} :
          /\ ProcessEnds(r) /\ stage # "ended"
          /\ r = "nil" => signalled /\ Under = {}
          /\ waited > 0 => waited = Grace \/ Under = {}
    BY <1>2 DEF RefuseToStart, ListenFails, Drained, GiveUp, ServerInv
  <2> QED BY <2>1, EndInvServer
<1>3. CASE Register
  <2>0. built \in Nat
    BY <1>1 DEF ServerInv
  <2>1. BuiltRoutes(built + 1) = BuiltRoutes(built) \cup {Modules[built + 1]}
    BY <2>0 DEF BuiltRoutes
  <2>2. /\ built' = built + 1 /\ built' \in 0..Len(Modules)
        /\ routes' \subseteq routes \cup {Modules[built + 1]}
        /\ loop' \in {"off", "on", "over"}
        /\ UNCHANGED <<stage, signalled, visit, waited, result, cut>>
    BY <1>3 DEF Register, ServerInv
  <2>3. routes' \subseteq BuiltRoutes(built')
    BY <2>1, <2>2 DEF ServerInv
  <2>4. NoRequestCut' = NoRequestCut
    BY <2>2 DEF NoRequestCut
  <2> QED BY <2>2, <2>3, <2>4 DEF ServerInv
<1>4. ASSUME NEW v \in Visits, NEW m \in Visited, Arrive(v, m) PROVE ServerInv'
  <2>1. visit' \in [Visits -> {NoVisit} \cup [pc : Visiting, to : Visited]]
    BY <1>4 DEF Arrive, ServerInv, Visiting
  <2> QED BY <1>4, <2>1 DEF Arrive, ServerInv, BuiltRoutes, NoRequestCut
<1>5. ASSUME NEW v \in Visits, Respond(v) PROVE ServerInv'
  <2>1. visit[v].to \in Visited
    BY <1>5, UnderWay DEF Respond
  <2>2. PICK a \in AnswersOf(visit[v].to) : visit' = [visit EXCEPT ![v] = [pc |-> a, to |-> visit[v].to]]
    BY <1>5 DEF Respond
  <2>3. a \in Visiting
    BY <2>2 DEF AnswersOf, Visiting
  <2>4. visit' \in [Visits -> {NoVisit} \cup [pc : Visiting, to : Visited]]
    BY <2>1, <2>2, <2>3 DEF ServerInv
  <2> QED BY <1>5, <2>4 DEF Respond, ServerInv, BuiltRoutes, NoRequestCut
<1>6. ASSUME NEW v \in Visits, Hijack(v) \/ SocketCloses(v) PROVE ServerInv'
  <2>1. PICK x \in {NoVisit} \cup [pc : Visiting, to : Visited] : visit' = [visit EXCEPT ![v] = x]
    <3>1. CASE Hijack(v)
      <4>1. [pc |-> "hijacked", to |-> visit[v].to] \in [pc : Visiting, to : Visited]
        BY <3>1, UnderWay DEF Hijack, Visiting
      <4> QED BY <3>1, <4>1 DEF Hijack
    <3>2. CASE SocketCloses(v)
      BY <3>2 DEF SocketCloses
    <3> QED BY <1>6, <3>1, <3>2
  <2>2. visit' \in [Visits -> {NoVisit} \cup [pc : Visiting, to : Visited]]
    BY <2>1 DEF ServerInv
  <2> QED BY <1>6, <2>2 DEF Hijack, SocketCloses, ServerInv, BuiltRoutes, NoRequestCut
<1>7. CASE Listen \/ Signal \/ LoopEnds \/ Shutdown \/ Wait \/ UNCHANGED serverVars
  <2>1. /\ UNCHANGED <<built, routes, visit, result, cut>>
        /\ NoRequestCut' = NoRequestCut
    BY <1>7 DEF Listen, Signal, LoopEnds, Shutdown, Wait, serverVars, NoRequestCut
  <2>2. CASE Wait
    <3>1. waited' \in 0..Grace /\ UNCHANGED <<stage, signalled, loop>> /\ stage = "draining"
      BY <2>2, ServerAssumption DEF Wait, ServerInv
    <3> QED BY <2>1, <3>1 DEF ServerInv, BuiltRoutes
  <2>3. CASE Listen \/ Signal \/ LoopEnds \/ Shutdown \/ UNCHANGED serverVars
    BY <2>1, <2>3 DEF Listen, Signal, LoopEnds, Shutdown, serverVars, ServerInv, BuiltRoutes
  <2> QED BY <1>7, <2>2, <2>3
<1> QED
  BY <1>2, <1>3, <1>4, <1>5, <1>6, <1>7 DEF ServerNext

LEMMA ServerInvEnough == ServerInv => ServerTypeOK /\ ServerTold
<1> SUFFICES ASSUME ServerInv PROVE ServerTypeOK /\ ServerTold
  OBVIOUS
<1>1. routes \subseteq ToSet(SubSeq(Modules, 1, built))
  BY BuiltSoFar DEF ServerInv
<1>2. \A v \in Visits : visit[v].pc \in Visiting
  <2> TAKE v \in Visits
  <2>1. CASE visit[v] = NoVisit
    BY <2>1 DEF NoVisit, Visiting
  <2>2. CASE visit[v] # NoVisit
    BY <2>2 DEF ServerInv
  <2> QED BY <2>1, <2>2
<1> QED
  BY <1>1, <1>2 DEF ServerInv, ServerTypeOK, ServerTold, Visiting, OpenVisits, NoRequestCut

(***************************************************************************)
(* run returns nil only after a signal, and then cuts off nothing but      *)
(* WebSockets, and a drain cuts requests off only after the whole grace,   *)
(* for any grace and any requests (main.go, run).                          *)
(***************************************************************************)
THEOREM ServerKeepsGrace == ServerSpec => [](ServerTypeOK /\ ServerTold)
  BY ServerInvInit, ServerInvNext, ServerInvEnough, PTL DEF ServerSpec

-----------------------------------------------------------------------------
(* The readiness report.  A check that is not ready owes its row; the      *)
(* clusters that have not answered well are counted from the listed ones.  *)
Listing == [pc |-> "list"]
Pings   == [pc : {"ping"}, ids : SUBSET Reachable, todo : SUBSET Reachable, healthy : Nat]
Excused == left # "no" \/ broken # {} \/ Over

HealthTypes ==
  /\ configured \subseteq Dependencies /\ spent \in 0..(CheckCap + 1) /\ left \in {"no", "early", "late"}
  /\ row \in [Dependencies -> {"none", "ok", "down", "timeout", "skipped"}]
  /\ report \in {"none", "wait", "ok", "down"}
  /\ probe \in [Dependencies -> {Ready, Asked, Listing} \cup Pings]
  /\ \A d \in Dependencies \ {"k8s"} : probe[d] \in {Ready, Asked}
  /\ probe["k8s"] # Asked

OwesRow(d) ==
  /\ probe[d] # Ready <=> report # "none" /\ row[d] = "none"
  /\ report = "none" => row[d] = "none"
  /\ report \in {"ok", "down"} => row[d] # "none"

RowSeen(d) ==
  /\ row[d] = "ok" /\ d # "k8s" => d \in fine
  /\ row[d] = "skipped" => d \notin configured
  /\ row[d] \in {"down", "timeout"} => Excused
  /\ row[d] = "timeout" => Over /\ left # "early"

Counted(p) ==
  /\ p.todo \subseteq p.ids
  /\ p.healthy + Cardinality(p.todo) <= Cardinality(p.ids)
  /\ broken \cap Reachable # {} => p.healthy + Cardinality(p.todo) < Cardinality(p.ids)
  /\ p.healthy + Cardinality(p.todo) < Cardinality(p.ids) => Excused

ClustersSeen ==
  /\ probe["k8s"].pc = "ping" => Counted(probe["k8s"])
  /\ probe["k8s"].pc # "ping" /\ row["k8s"] \in {"none", "ok"} => broken \cap Reachable = {}

Verdict ==
  /\ report = "ok" => \A d \in Dependencies : row[d] \in {"ok", "skipped"}
  /\ report = "down" => Excused

HealthInv ==
  /\ HealthTypes /\ ClustersSeen /\ Verdict
  /\ \A d \in Dependencies : OwesRow(d) /\ RowSeen(d)

LEMMA ProbeKinds ==
  /\ Ready.pc = "ready" /\ Asked.pc = "ask" /\ Listing.pc = "list"
  /\ \A p \in Pings : p.pc = "ping"
BY DEF Ready, Asked, Listing, Pings

LEMMA HealthInvInit == HealthInit => HealthInv
<1> SUFFICES ASSUME HealthInit PROVE HealthInv
  OBVIOUS
<1>1. /\ report = "none" /\ broken = {} /\ spent = 0 /\ left = "no"
      /\ configured \subseteq Dependencies
      /\ probe = [d \in Dependencies |-> Ready] /\ row = [d \in Dependencies |-> "none"]
  BY DEF HealthInit
<1>2. HealthTypes
  <2>1. spent \in 0..(CheckCap + 1)
    BY <1>1, HealthAssumption
  <2>2. "k8s" \in Dependencies
    BY DEF Dependencies
  <2>3. probe \in [Dependencies -> {Ready, Asked, Listing} \cup Pings] /\ probe["k8s"] # Asked
    BY <1>1, <2>2, ProbeKinds
  <2> QED BY <1>1, <2>1, <2>3 DEF HealthTypes
<1> QED
  BY <1>1, <1>2, ProbeKinds
     DEF HealthInv, ClustersSeen, Verdict, OwesRow, RowSeen, Dependencies

\* A check that ends with a row that was seen.
LEMMA WritesRow ==
  ASSUME HealthInv, NEW d \in Dependencies, NEW st \in {"ok", "down", "timeout", "skipped"},
         Writes(d, st), probe[d] # Ready,
         broken \subseteq broken', broken' \subseteq broken \cup Dependencies, fine \subseteq fine',
         st = "ok" /\ d # "k8s" => d \in fine',
         st = "ok" /\ d = "k8s" => broken \cap Reachable = {},
         st = "skipped" => d \notin configured,
         st \in {"down", "timeout"} => Excused',
         st = "timeout" => Over /\ left # "early"
  PROVE  HealthInv'
<1>1. /\ report' = report /\ left' = left /\ spent' = spent /\ configured' = configured
      /\ row'[d] = st /\ probe'[d] = Ready
      /\ \A e \in Dependencies \ {d} : row'[e] = row[e] /\ probe'[e] = probe[e]
      /\ Over' = Over
  BY DEF Writes, HealthInv, HealthTypes, Over
<1>2. report = "wait"
  BY DEF HealthInv, OwesRow, HealthTypes
<1>3. broken' \cap Reachable = broken \cap Reachable /\ (Excused => Excused')
  BY <1>1, HealthAssumption DEF Excused
<1>4. HealthTypes'
  BY <1>1, ProbeKinds DEF Writes, HealthInv, HealthTypes, Dependencies
<1>5. ClustersSeen'
  <2>1. CASE d = "k8s"
    BY <1>1, <1>3, <2>1, ProbeKinds DEF ClustersSeen
  <2>2. CASE d # "k8s"
    <3>1. probe'["k8s"] = probe["k8s"] /\ row'["k8s"] = row["k8s"]
      BY <1>1, <2>2 DEF Dependencies
    <3>2. \A p : Counted(p) => Counted(p)'
      BY <1>3 DEF Counted
    <3> QED BY <1>3, <3>1, <3>2 DEF ClustersSeen, HealthInv
  <2> QED BY <2>1, <2>2
<1>6. Verdict'
  BY <1>1, <1>2 DEF Verdict
<1>7. ASSUME NEW e \in Dependencies PROVE OwesRow(e)' /\ RowSeen(e)'
  BY <1>1, <1>2, <1>3 DEF HealthInv, OwesRow, RowSeen
<1> QED BY <1>4, <1>5, <1>6, <1>7 DEF HealthInv

LEMMA PingInv == ASSUME HealthInv, NEW id \in Reachable, Ping(id) PROVE HealthInv'
<1> DEFINE p == probe["k8s"]
<1>1. p \in Pings /\ Counted(p) /\ id \in p.todo /\ p # Ready
  BY ProbeKinds DEF Ping, HealthInv, HealthTypes, ClustersSeen, Dependencies
<1>2. PICK well \in BOOLEAN :
        /\ well => ~Done
        /\ probe' = [probe EXCEPT !["k8s"].todo = @ \ {id}, !["k8s"].healthy = IF well THEN @ + 1 ELSE @]
        /\ fine' = IF well THEN fine \cup {id} ELSE fine
        /\ broken' = IF well \/ Done THEN broken ELSE broken \cup {id}
  BY DEF Ping
<1>3. /\ UNCHANGED <<configured, row, spent, left, report>>
      /\ Over' = Over /\ Done' = Done /\ fine \subseteq fine' /\ broken \subseteq broken'
  BY <1>2 DEF Ping, Over, Done
<1>4. "k8s" \in Dependencies /\ probe \in [Dependencies -> {Ready, Asked, Listing} \cup Pings]
  BY DEF Dependencies, HealthInv, HealthTypes
<1>5. PICK q : q = probe'["k8s"]
  OBVIOUS
<1>6. /\ q.pc = "ping" /\ q.ids = p.ids /\ q.todo = p.todo \ {id}
      /\ q.healthy = IF well THEN p.healthy + 1 ELSE p.healthy
      /\ q \in Pings
  <2>1. q = [p EXCEPT !.todo = @ \ {id}, !.healthy = IF well THEN @ + 1 ELSE @]
    BY <1>2, <1>4, <1>5
  <2> HIDE DEF p
  <2>2. p \in [pc : {"ping"}, ids : SUBSET Reachable, todo : SUBSET Reachable, healthy : Nat]
    BY <1>1 DEF Pings
  <2>3. /\ q.pc = "ping" /\ q.ids = p.ids /\ q.todo = p.todo \ {id}
        /\ q.healthy = IF well THEN p.healthy + 1 ELSE p.healthy
    BY <2>1, <2>2
  <2>4. q \in [pc : {"ping"}, ids : SUBSET Reachable, todo : SUBSET Reachable, healthy : Nat]
    <3>1. PICK h \in Nat : h = IF well THEN p.healthy + 1 ELSE p.healthy
      BY <2>2
    <3>2. q = [pc |-> "ping", ids |-> p.ids, todo |-> p.todo \ {id}, healthy |-> h]
      BY <2>1, <2>2, <3>1
    <3> QED BY <2>2, <3>2
  <2> QED BY <2>3, <2>4 DEF Pings
<1>7. \A d \in Dependencies \ {"k8s"} : probe'[d] = probe[d]
  BY <1>2, <1>4
<1>8. probe' \in [Dependencies -> {Ready, Asked, Listing} \cup Pings]
  <2>1. probe' \in [Dependencies -> {probe'[d] : d \in Dependencies}]
    BY <1>2, <1>4
  <2>2. \A d \in Dependencies : probe'[d] \in {Ready, Asked, Listing} \cup Pings
    BY <1>4, <1>5, <1>6, <1>7
  <2> QED BY <2>1, <2>2
<1>9. /\ Cardinality(p.todo) \in Nat /\ Cardinality(p.ids) \in Nat
      /\ Cardinality(q.todo) = Cardinality(p.todo) - 1 /\ p.healthy \in Nat
  <2>1. IsFiniteSet(p.todo) /\ IsFiniteSet(p.ids) /\ p.healthy \in Nat
    BY <1>1, HealthAssumption, FS_Subset DEF Pings
  <2> QED BY <1>1, <1>6, <2>1, FS_CardinalityType, FS_RemoveElement
<1> HIDE DEF p
<1>10. Excused => Excused'
  BY <1>3 DEF Excused
<1>11. ~well => Excused'
  BY <1>2, <1>3 DEF Excused, Done
<1>12. Counted(q)'
  <2>1. q.todo \subseteq q.ids
    BY <1>1, <1>6 DEF Counted
  <2>2. q.healthy + Cardinality(q.todo) <= Cardinality(q.ids)
    BY <1>1, <1>6, <1>9 DEF Counted
  <2>3. ~well => q.healthy + Cardinality(q.todo) < Cardinality(q.ids)
    BY <1>1, <1>6, <1>9 DEF Counted
  <2>4. well => broken' = broken /\ q.healthy + Cardinality(q.todo) = p.healthy + Cardinality(p.todo)
    BY <1>2, <1>6, <1>9
  <2>5. broken' \cap Reachable # {} => q.healthy + Cardinality(q.todo) < Cardinality(q.ids)
    BY <1>1, <1>6, <2>3, <2>4 DEF Counted
  <2>6. q.healthy + Cardinality(q.todo) < Cardinality(q.ids) => Excused'
    BY <1>1, <1>6, <1>10, <1>11, <2>4 DEF Counted
  <2> QED BY <2>1, <2>2, <2>5, <2>6 DEF Counted
<1>13. report = "wait" /\ row["k8s"] = "none"
  BY <1>1, <1>4 DEF p, HealthInv, OwesRow, HealthTypes
<1>14. HealthTypes'
  BY <1>3, <1>5, <1>6, <1>7, <1>8, ProbeKinds DEF HealthInv, HealthTypes
<1>15. ClustersSeen' /\ Verdict'
  BY <1>3, <1>5, <1>6, <1>12, <1>13 DEF ClustersSeen, Verdict
<1>16. ASSUME NEW d \in Dependencies PROVE OwesRow(d)' /\ RowSeen(d)'
  BY <1>3, <1>5, <1>6, <1>7, <1>10, <1>13, ProbeKinds DEF HealthInv, OwesRow, RowSeen
<1> QED BY <1>14, <1>15, <1>16 DEF HealthInv

LEMMA CheckEnds ==
  ASSUME HealthInv, NEW d \in Dependencies,
         \/ Skip(d) \/ Answer(d) \/ GivesUp(d)
         \/ d = "k8s" /\ RollUp
  PROVE  HealthInv'
<1>1. CASE Skip(d)
  <2>1. probe[d] # Ready /\ broken' = broken /\ fine' = fine /\ d \notin configured
        /\ Writes(d, "skipped")
    BY <1>1, ProbeKinds DEF Skip
  <2> QED BY <2>1, WritesRow
<1>2. CASE Answer(d) \/ GivesUp(d)
  <2>1. probe[d] # Ready /\ d # "k8s"
    BY <1>2, ProbeKinds DEF Answer, GivesUp, HealthInv, HealthTypes
  <2>2. \/ Writes(d, "ok") /\ fine' = fine \cup {d} /\ broken' = broken
        \/ Writes(d, classifyErr) /\ fine' = fine /\ broken' = broken \cup {d}
        \/ Writes(d, classifyErr) /\ fine' = fine /\ broken' = broken /\ Done
    BY <1>2 DEF Answer, GivesUp
  <2>3. classifyErr \in {"down", "timeout"} /\ (classifyErr = "timeout" => Over /\ left # "early")
    BY DEF classifyErr
  <2>4. CASE Writes(d, "ok") /\ fine' = fine \cup {d} /\ broken' = broken
    BY <2>1, <2>4, WritesRow
  <2>5. CASE Writes(d, classifyErr) /\ fine' = fine
             /\ (broken' = broken \cup {d} \/ (broken' = broken /\ Done))
    <3>1. Excused'
      BY <2>5 DEF Excused, Done, Writes, Over
    <3> QED BY <2>1, <2>3, <2>5, <3>1, WritesRow
  <2> QED BY <2>2, <2>4, <2>5
<1>3. CASE d = "k8s" /\ RollUp
  <2> DEFINE p == probe["k8s"]
  <2>1. p # Ready /\ p \in Pings /\ Counted(p) /\ p.todo = {} /\ p.healthy \in Nat
    BY <1>3, ProbeKinds DEF RollUp, HealthInv, HealthTypes, ClustersSeen, Dependencies, Pings
  <2>2. Cardinality(p.todo) = 0 /\ p.healthy + Cardinality(p.todo) = p.healthy
    BY <2>1, FS_EmptySet
  <2>3. Cardinality(p.ids) \in Nat
    BY <2>1, HealthAssumption, FS_Subset, FS_CardinalityType DEF Pings
  <2>4. CASE p.healthy = Cardinality(p.ids)
    <3>1. Writes(d, "ok") /\ fine' = fine /\ broken' = broken
      BY <1>3, <2>4 DEF RollUp
    <3>2. broken \cap Reachable = {}
      BY <2>1, <2>2, <2>3, <2>4 DEF Counted
    <3> QED BY <1>3, <2>1, <3>1, <3>2, WritesRow
  <2>5. CASE p.healthy # Cardinality(p.ids)
    <3>1. Writes(d, "down") /\ fine' = fine /\ broken' = broken
      BY <1>3, <2>5 DEF RollUp
    <3>2. Excused
      BY <2>1, <2>2, <2>3, <2>5 DEF Counted
    <3>3. Excused'
      BY <3>1, <3>2 DEF Excused, Writes, Over
    <3> QED BY <1>3, <2>1, <3>1, <3>3, WritesRow
  <2> QED BY <2>4, <2>5
<1> QED BY <1>1, <1>2, <1>3

LEMMA ListInv == ASSUME HealthInv, ListClusters PROVE HealthInv'
<1>1. probe["k8s"] # Ready /\ "k8s" \in Dependencies /\ broken \cap Reachable = {}
  BY ProbeKinds DEF ListClusters, HealthInv, Dependencies, ClustersSeen, OwesRow
<1>2. CASE Writes("k8s", classifyErr) /\ broken' = broken \cup {"k8s"} /\ fine' = fine
  <2>1. classifyErr \in {"down", "timeout"} /\ (classifyErr = "timeout" => Over /\ left # "early")
    BY DEF classifyErr
  <2>2. Excused'
    BY <1>2 DEF Excused
  <2> QED BY <1>1, <1>2, <2>1, <2>2, WritesRow
<1>3. CASE Writes("k8s", "ok") /\ broken' = broken /\ fine' = fine
  BY <1>1, <1>3, WritesRow
<1>4. ASSUME NEW ids \in SUBSET Reachable,
             probe' = [probe EXCEPT !["k8s"] = [pc |-> "ping", ids |-> ids, todo |-> ids, healthy |-> 0]],
             UNCHANGED <<configured, row, spent, left, report, fine, broken>>
      PROVE  HealthInv'
  <2> DEFINE q == [pc |-> "ping", ids |-> ids, todo |-> ids, healthy |-> 0]
  <2>1. q \in Pings /\ Cardinality(ids) \in Nat
    BY HealthAssumption, FS_Subset, FS_CardinalityType DEF Pings
  <2>2. probe'["k8s"] = q /\ \A d \in Dependencies \ {"k8s"} : probe'[d] = probe[d]
    BY <1>1, <1>4 DEF HealthInv, HealthTypes
  <2>3. HealthTypes'
    BY <1>4, <2>1, <2>2, ProbeKinds DEF HealthInv, HealthTypes
  <2>4. Counted(q)'
    BY <1>1, <1>4, <2>1 DEF Counted
  <2>5. ClustersSeen'
    BY <2>2, <2>4 DEF ClustersSeen
  <2>6. Verdict'
    BY <1>4 DEF HealthInv, Verdict, Excused, Over
  <2>7. ASSUME NEW d \in Dependencies PROVE OwesRow(d)' /\ RowSeen(d)'
    <3>1. probe'[d] # Ready <=> probe[d] # Ready
      BY <1>1, <2>1, <2>2, ProbeKinds
    <3> QED BY <1>4, <3>1 DEF HealthInv, OwesRow, RowSeen, Excused, Over
  <2> QED BY <2>3, <2>5, <2>6, <2>7 DEF HealthInv
<1> QED BY <1>2, <1>3, <1>4 DEF ListClusters

LEMMA RunInv == ASSUME HealthInv, Run PROVE HealthInv'
<1>1. /\ report = "none" /\ report' = "wait" /\ UNCHANGED <<configured, row, spent, left, fine, broken>>
      /\ \A d \in Dependencies : row[d] = "none" /\ probe[d] = Ready
  BY DEF Run, HealthInv, OwesRow
<1>2. /\ probe' = [d \in Dependencies |-> IF d = "k8s" THEN Listing ELSE Asked]
      /\ probe'["k8s"] = Listing
  BY DEF Run, Listing, Dependencies
<1>3. HealthTypes'
  BY <1>1, <1>2, ProbeKinds DEF HealthInv, HealthTypes
<1>4. ClustersSeen' /\ Verdict'
  BY <1>1, <1>2, ProbeKinds DEF HealthInv, ClustersSeen, Verdict, Dependencies
<1>5. ASSUME NEW d \in Dependencies PROVE OwesRow(d)' /\ RowSeen(d)'
  BY <1>1, <1>2, ProbeKinds DEF HealthInv, OwesRow, RowSeen
<1> QED BY <1>3, <1>4, <1>5 DEF HealthInv

LEMMA HealthInvNext == HealthInv /\ [HealthNext]_healthVars => HealthInv'
<1> SUFFICES ASSUME HealthInv, [HealthNext]_healthVars PROVE HealthInv'
  OBVIOUS
<1>1. CASE Report
  <2>1. /\ \A d \in Dependencies : row[d] # "none"
        /\ report = "wait" /\ UNCHANGED <<configured, probe, row, spent, left, fine, broken>>
        /\ \/ report' = "ok" /\ \A d \in Dependencies : row[d] \notin {"down", "timeout"}
           \/ report' = "down" /\ \E d \in Dependencies : row[d] \in {"down", "timeout"}
    BY <1>1 DEF Report
  <2>2. HealthTypes' /\ ClustersSeen'
    BY <2>1 DEF HealthInv, HealthTypes, ClustersSeen, Counted, Excused, Over
  <2>3. Verdict'
    BY <2>1 DEF HealthInv, HealthTypes, RowSeen, Verdict, Excused, Over
  <2> QED BY <2>1, <2>2, <2>3 DEF HealthInv, OwesRow, RowSeen, Excused, Over
<1>2. CASE HealthTick \/ Leaves \/ UNCHANGED healthVars
  <2>1. /\ UNCHANGED <<configured, probe, row, report, fine, broken>>
        /\ spent' \in 0..(CheckCap + 1) /\ spent <= spent' /\ left' \in {"no", "early", "late"} /\ (left # "no" => left' = left) /\ (left' = "early" => left = "early" \/ ~Over)
    <3>1. CheckCap \in Nat /\ spent \in 0..(CheckCap + 1) /\ left \in {"no", "early", "late"}
      BY HealthAssumption DEF HealthInv, HealthTypes
    <3>2. CASE HealthTick
      BY <3>1, <3>2 DEF HealthTick
    <3>3. CASE Leaves
      BY <3>1, <3>3 DEF Leaves
    <3>4. CASE UNCHANGED healthVars
      BY <3>1, <3>4 DEF healthVars
    <3> QED BY <1>2, <3>2, <3>3, <3>4
  <2>2. (Over => Over') /\ (Excused => Excused')
    BY <2>1, HealthAssumption DEF Over, Excused, HealthInv, HealthTypes
  <2>3. \A p : Counted(p) => Counted(p)'
    BY <2>1, <2>2 DEF Counted
  <2>4. HealthTypes' /\ ClustersSeen' /\ Verdict'
    BY <2>1, <2>2, <2>3 DEF HealthInv, HealthTypes, ClustersSeen, Verdict
  <2> QED BY <2>1, <2>2, <2>4 DEF HealthInv, OwesRow, RowSeen
<1>3. CASE RollUp
  <2>1. "k8s" \in Dependencies
    BY DEF Dependencies
  <2> QED BY <1>3, <2>1, CheckEnds
<1> QED
  BY <1>1, <1>2, <1>3, RunInv, ListInv, PingInv, CheckEnds DEF HealthNext

LEMMA HealthInvEnough == HealthInv => HealthTypeOK /\ ReportTold
<1> SUFFICES ASSUME HealthInv PROVE HealthTypeOK /\ ReportTold
  OBVIOUS
<1>1. \A d \in Dependencies : probe[d].pc \in {"ready", "ask", "list", "ping"}
  BY ProbeKinds DEF HealthInv, HealthTypes
<1>2. HealthTypeOK
  BY <1>1 DEF HealthInv, HealthTypes, HealthTypeOK
<1>3. ASSUME report = "ok"
      PROVE  /\ configured \ {"k8s"} \subseteq fine
             /\ "k8s" \in configured => row["k8s"] = "ok" /\ broken \cap Reachable = {}
  <2>1. \A d \in configured : row[d] = "ok" /\ probe[d] = Ready
    BY <1>3 DEF HealthInv, HealthTypes, Verdict, OwesRow, RowSeen
  <2>2. configured \ {"k8s"} \subseteq fine
    BY <2>1 DEF HealthInv, HealthTypes, RowSeen
  <2> QED BY <2>1, <2>2, ProbeKinds DEF HealthInv, ClustersSeen
<1> QED
  BY <1>2, <1>3 DEF HealthInv, Verdict, RowSeen, Excused, ReportTold

(***************************************************************************)
(* /ready reports what this request has seen, for any clusters and any     *)
(* time a check may take (health.go, Run and checkK8s).                    *)
(***************************************************************************)
THEOREM ReportIsTrue == HealthSpec => [](HealthTypeOK /\ ReportTold)
  BY HealthInvInit, HealthInvNext, HealthInvEnough, PTL DEF HealthSpec

-----------------------------------------------------------------------------
(* Calls into pods.  An exec is followed from its stream to the audit      *)
(* trail, and a log query by the pods it has still to fetch.               *)
ExecResults == {"none", "invalid", "not_found", "unreachable", "timeout"} \cup Codes
LogResults  == {"none", "invalid", "not_found", "unreachable", "failed", "ok"}
PodRows     == Pods \X {"lines", "error"}

ExecAsks == [pc : {"resolve", "open", "stream", "answered"}, what : {"exec"},
             result : ExecResults, left : Nat]
LogAsks  == [pc : {"resolve", "list", "fetch", "answered"}, what : {"logs"}, left : Nat,
             todo : Seq(Pods), rows : Seq(PodRows), matched : SUBSET Pods, result : LogResults]

PodTypes ==
  /\ running \subseteq Pods /\ gone \in BOOLEAN
  /\ emitted \subseteq Codes
  /\ command \in {"none", "runs"} \cup Codes
  /\ ask \in {NoAsk} \cup ExecAsks \cup LogAsks

\* Rows and pods still to fetch are listed pods, each once.
Listed(a) ==
  /\ \A i \in 1..Len(a.todo) : a.todo[i] \in a.matched
  /\ \A i \in 1..Len(a.rows) : a.rows[i][1] \in a.matched
  /\ \A i, j \in 1..Len(a.todo) : i # j => a.todo[i] # a.todo[j]
  /\ \A i, j \in 1..Len(a.rows) : i # j => a.rows[i][1] # a.rows[j][1]
  /\ \A i \in 1..Len(a.rows), j \in 1..Len(a.todo) : a.rows[i][1] # a.todo[j]
  /\ Len(a.rows) + Len(a.todo) = Min({MaxPods, Cardinality(a.matched)})

ExecFacts(a) ==
  /\ a.pc # "answered" => a.result = "none" /\ emitted = {}
  /\ a.pc \in {"resolve", "open"} => command = "none"
  /\ a.pc = "answered" => emitted = {a.result} \cap Codes
  /\ a.result \in Codes => a.result = command
  /\ a.result \in {"invalid", "not_found"} => command = "none"
  /\ a.result = "timeout" => a.left = 0 \/ gone

LogFacts(a) ==
  /\ emitted = {} /\ command = "none"
  /\ a.pc # "answered" => a.result = "none"
  /\ a.pc \in {"resolve", "list"} => Len(a.rows) = 0
  /\ a.pc = "fetch" \/ a.result = "ok" => Listed(a)
  /\ a.result = "ok" => Len(a.todo) = 0

PodInv ==
  /\ PodTypes
  /\ ask = NoAsk => command = "none" /\ emitted = {}
  /\ ask \in ExecAsks => ExecFacts(ask)
  /\ ask \in LogAsks => LogFacts(ask)

LEMMA AskKinds ==
  /\ NoAsk.pc = "none"
  /\ \A a \in ExecAsks : a.pc \in {"resolve", "open", "stream", "answered"} /\ a.what = "exec"
                         /\ a.left \in Nat /\ a.result \in ExecResults
  /\ \A a \in LogAsks : a.pc \in {"resolve", "list", "fetch", "answered"} /\ a.what = "logs"
                        /\ a.result \in LogResults
BY DEF NoAsk, ExecAsks, LogAsks

LEMMA AskApart ==
  /\ \A a \in ExecAsks : a \notin LogAsks /\ a # NoAsk
  /\ \A a \in LogAsks : a \notin ExecAsks /\ a # NoAsk
<1>1. ASSUME NEW a \in ExecAsks PROVE a \notin LogAsks /\ a # NoAsk
  <2>1. a.what = "exec" /\ a.pc \in {"resolve", "open", "stream", "answered"}
    BY AskKinds
  <2>2. a \notin LogAsks
    BY <2>1, AskKinds
  <2>3. a # NoAsk
    BY <2>1, AskKinds
  <2> QED BY <2>2, <2>3
<1>2. ASSUME NEW a \in LogAsks PROVE a # NoAsk
  <2>1. a.pc \in {"resolve", "list", "fetch", "answered"}
    BY AskKinds
  <2> QED BY <2>1, AskKinds
<1> QED BY <1>1, <1>2

LEMMA LesserOfTwo ==
  ASSUME NEW a \in Nat, NEW b \in Nat
  PROVE  Min({a, b}) = IF a <= b THEN a ELSE b
<1> DEFINE m == IF a <= b THEN a ELSE b
<1>1. m \in {a, b} /\ \A y \in {a, b} : m <= y
  OBVIOUS
<1>2. \A x \in {a, b} : (\A y \in {a, b} : x <= y) => x = m
  OBVIOUS
<1> QED BY <1>1, <1>2 DEF Min

\* The rows of distinct pods are as many as their pods.
LEMMA DistinctRows ==
  ASSUME NEW rs \in Seq(PodRows),
         \A i, j \in 1..Len(rs) : i # j => rs[i][1] # rs[j][1]
  PROVE  /\ {r[1] : r \in ToSet(rs)} = {rs[i][1] : i \in 1..Len(rs)}
         /\ Cardinality({r[1] : r \in ToSet(rs)}) = Len(rs)
<1> DEFINE T == {rs[i][1] : i \in 1..Len(rs)}
           f == [i \in 1..Len(rs) |-> rs[i][1]]
<1>1. Len(rs) \in Nat /\ DOMAIN rs = 1..Len(rs)
  BY LenProperties
<1>2. {r[1] : r \in ToSet(rs)} = T
  BY <1>1 DEF ToSet
<1>3. f \in Surjection(1..Len(rs), T) /\ f \in Injection(1..Len(rs), T)
  BY DEF Surjection, Injection, IsInjective
<1>4. IsFiniteSet(1..Len(rs)) /\ Cardinality(1..Len(rs)) = Len(rs)
  BY <1>1, FS_Interval
<1>5. Cardinality(T) = Len(rs)
  <2> HIDE DEF f, T
  <2> QED BY <1>3, <1>4, FS_Surjection
<1> QED BY <1>2, <1>5

LEMMA PodInvInit == PodsInit => PodInv
<1> SUFFICES ASSUME PodsInit PROVE PodInv
  OBVIOUS
<1>1. ask = NoAsk /\ command = "none" /\ emitted = {} /\ gone = FALSE /\ running \subseteq Pods
  BY DEF PodsInit
<1> QED
  BY <1>1, AskApart DEF PodInv, PodTypes

LEMMA ExecStep ==
  ASSUME ask' \in ExecAsks, ExecFacts(ask)', running' \subseteq Pods, gone' \in BOOLEAN,
         emitted' \subseteq Codes, command' \in {"none", "runs"} \cup Codes
  PROVE  PodInv'
BY AskApart DEF PodInv, PodTypes

LEMMA LogStep ==
  ASSUME ask' \in LogAsks, LogFacts(ask)', running' \subseteq Pods, gone' \in BOOLEAN
  PROVE  PodInv'
BY AskApart DEF PodInv, PodTypes, LogFacts

LEMMA AnsweredExec ==
  ASSUME ask \in ExecAsks, NEW r \in ExecResults, Answered(r)
  PROVE  ask' \in ExecAsks /\ ask'.pc = "answered" /\ ask'.result = r /\ ask'.left = ask.left
BY DEF Answered, ExecAsks

LEMMA AnsweredLog ==
  ASSUME ask \in LogAsks, NEW r \in LogResults, Answered(r)
  PROVE  /\ ask' \in LogAsks /\ ask'.pc = "answered" /\ ask'.result = r
         /\ ask'.todo = ask.todo /\ ask'.rows = ask.rows /\ ask'.matched = ask.matched
BY DEF Answered, LogAsks

LEMMA AskExecInv == ASSUME PodInv, NEW t \in Timeouts, AskExec(t) PROVE PodInv'
<1>1. command = "none" /\ emitted = {} /\ UNCHANGED <<running, command, gone, emitted>>
  BY DEF AskExec, PodInv
<1>2. ask' \in ExecAsks /\ (ask'.pc = "answered" => ask'.result = "invalid")
      /\ (ask'.pc # "answered" => ask'.result = "none") /\ ask'.result \in {"none", "invalid"}
  <2>1. CASE t \in {"negative", "over"}
    BY <2>1 DEF AskExec, ExecAsks, ExecResults
  <2>2. CASE t \notin {"negative", "over"}
    <3>1. PICK n \in Nat : n = IF t = "unset" THEN DefaultTimeout ELSE LongTimeout
      BY PodAssumption
    <3>2. ask' = [pc |-> "resolve", what |-> "exec", result |-> "none", left |-> n]
      BY <2>2, <3>1 DEF AskExec
    <3> QED BY <3>2 DEF ExecAsks, ExecResults
  <2> QED BY <2>1, <2>2
<1>3. ExecFacts(ask)'
  BY <1>1, <1>2 DEF ExecFacts, Codes
<1> QED BY <1>1, <1>2, <1>3, ExecStep DEF PodInv, PodTypes

LEMMA AskLogsInv ==
  ASSUME PodInv, NEW t, NEW s, AskLogs(t, s)
  PROVE  PodInv'
<1>1. command = "none" /\ emitted = {} /\ UNCHANGED <<running, command, gone, emitted>>
  BY DEF AskLogs, PodInv
<1>2. PICK p \in {"answered", "resolve"}, r \in {"invalid", "none"} :
        /\ ask' = [pc |-> p, what |-> "logs", left |-> 0, todo |-> <<>>, rows |-> <<>>,
                   matched |-> {}, result |-> r]
        /\ p # "answered" => r = "none"
  BY DEF AskLogs
<1>3. ask' \in LogAsks /\ ask'.pc = p /\ ask'.result = r
  BY <1>2 DEF LogAsks, LogResults
<1>4. LogFacts(ask)'
  BY <1>1, <1>2, <1>3 DEF LogFacts
<1> QED BY <1>1, <1>3, <1>4, LogStep DEF PodInv, PodTypes

LEMMA ResolveInv == ASSUME PodInv, Resolve PROVE PodInv'
<1>1. UNCHANGED <<running, command, gone, emitted>> /\ ask.pc = "resolve"
  BY DEF Resolve
<1>2. ask \in ExecAsks \cup LogAsks
  BY <1>1, AskKinds DEF PodInv, PodTypes
<1>3. CASE ask \in ExecAsks
  <2>1. command = "none" /\ emitted = {} /\ ask.result = "none"
    BY <1>1, <1>3 DEF PodInv, ExecFacts
  <2>2. ASSUME NEW r \in {"not_found", "unreachable"}, Answered(r) PROVE PodInv'
    <3>1. ask' \in ExecAsks /\ ask'.pc = "answered" /\ ask'.result = r
      BY <1>3, <2>2, AnsweredExec DEF ExecResults
    <3>2. ExecFacts(ask)'
      BY <1>1, <2>1, <3>1 DEF ExecFacts, Codes
    <3> QED BY <1>1, <3>1, <3>2, ExecStep DEF PodInv, PodTypes
  <2>3. ASSUME ask' = [ask EXCEPT !.pc = IF ask.what = "exec" THEN "open" ELSE "list"] PROVE PodInv'
    <3>1. ask' = [ask EXCEPT !.pc = "open"]
      BY <1>3, <2>3, AskKinds
    <3>2. ask' \in ExecAsks /\ ask'.pc = "open" /\ ask'.result = "none"
      BY <1>3, <2>1, <3>1 DEF ExecAsks
    <3>3. ExecFacts(ask)'
      BY <1>1, <2>1, <3>2 DEF ExecFacts, Codes
    <3> QED BY <1>1, <3>2, <3>3, ExecStep DEF PodInv, PodTypes
  <2> QED BY <2>2, <2>3 DEF Resolve
<1>4. CASE ask \in LogAsks
  <2>1. command = "none" /\ emitted = {} /\ ask.result = "none"
    BY <1>1, <1>4 DEF PodInv, LogFacts
  <2>2. ASSUME NEW r \in {"not_found", "unreachable"}, Answered(r) PROVE PodInv'
    <3>1. ask' \in LogAsks /\ ask'.pc = "answered" /\ ask'.result = r
      BY <1>4, <2>2, AnsweredLog DEF LogResults
    <3>2. LogFacts(ask)'
      BY <1>1, <2>1, <3>1 DEF LogFacts
    <3> QED BY <1>1, <3>1, <3>2, LogStep DEF PodInv, PodTypes
  <2>3. ASSUME ask' = [ask EXCEPT !.pc = IF ask.what = "exec" THEN "open" ELSE "list"] PROVE PodInv'
    <3>1. ask' = [ask EXCEPT !.pc = "list"]
      BY <1>4, <2>3, AskKinds
    <3>2. ask' \in LogAsks /\ ask'.pc = "list" /\ ask'.result = "none" /\ ask'.rows = ask.rows
      BY <1>4, <2>1, <3>1 DEF LogAsks
    <3>3. Len(ask.rows) = 0
      BY <1>1, <1>4 DEF PodInv, LogFacts
    <3>4. LogFacts(ask)'
      BY <1>1, <2>1, <3>2, <3>3 DEF LogFacts
    <3> QED BY <1>1, <3>2, <3>4, LogStep DEF PodInv, PodTypes
  <2> QED BY <2>2, <2>3 DEF Resolve
<1> QED BY <1>2, <1>3, <1>4

LEMMA ExecStreamInv ==
  ASSUME PodInv, OpenStream \/ StreamEnds \/ StreamBreaks \/ ExecTick
  PROVE  PodInv'
<1>1. ask \in ExecAsks /\ ask.pc \in {"open", "stream"}
  BY AskKinds DEF PodInv, PodTypes, OpenStream, StreamEnds, StreamBreaks, ExecTick
<1>2. /\ ExecFacts(ask) /\ ask.result = "none" /\ emitted = {} /\ ask.left \in Nat
      /\ running \subseteq Pods /\ gone \in BOOLEAN /\ command \in {"none", "runs"} \cup Codes
  BY <1>1, AskKinds DEF PodInv, PodTypes, ExecFacts
<1>3. ASSUME NEW r \in {"timeout", "unreachable"}, Answered(r), r = "timeout" => DeadlineOrGone,
             UNCHANGED <<running, command, gone, emitted>>
      PROVE  PodInv'
  <2>1. ask' \in ExecAsks /\ ask'.pc = "answered" /\ ask'.result = r /\ ask'.left = ask.left
    BY <1>1, <1>3, AnsweredExec DEF ExecResults
  <2>2. ExecFacts(ask)'
    BY <1>2, <1>3, <2>1 DEF ExecFacts, Codes, DeadlineOrGone
  <2> QED BY <1>2, <1>3, <2>1, <2>2, ExecStep
<1>4. CASE StreamBreaks
  BY <1>3, <1>4 DEF StreamBreaks
<1>5. CASE StreamEnds
  <2>1. command \in Codes /\ emitted' = {command} /\ UNCHANGED <<running, command, gone>>
        /\ Answered(command)
    BY <1>2, <1>5 DEF StreamEnds
  <2>2. ask' \in ExecAsks /\ ask'.pc = "answered" /\ ask'.result = command
    BY <1>1, <2>1, AnsweredExec DEF ExecResults
  <2>3. ExecFacts(ask)'
    BY <2>1, <2>2 DEF ExecFacts, Codes
  <2> QED BY <1>2, <2>1, <2>2, <2>3, ExecStep
<1>6. CASE OpenStream
  <2>1. CASE command' = "runs" /\ ask' = [ask EXCEPT !.pc = "stream"]
    <3>1. ask' \in ExecAsks /\ ask'.pc = "stream" /\ ask'.result = "none"
      BY <1>1, <1>2, <2>1 DEF ExecAsks
    <3>2. UNCHANGED <<running, gone, emitted>>
      BY <1>6 DEF OpenStream
    <3>3. ExecFacts(ask)'
      BY <1>2, <2>1, <3>1, <3>2 DEF ExecFacts, Codes
    <3> QED BY <1>2, <2>1, <3>1, <3>2, <3>3, ExecStep
  <2> QED BY <1>3, <1>6, <2>1 DEF OpenStream
<1>7. CASE ExecTick
  <2>1. /\ ask' = [ask EXCEPT !.left = @ - 1] /\ ask.left > 0
        /\ UNCHANGED <<running, command, gone, emitted>>
    BY <1>7 DEF ExecTick
  <2>2. PICK n \in Nat : n = ask.left - 1
    BY <1>2, <2>1
  <2>3. ask' = [ask EXCEPT !.left = n]
    BY <2>1, <2>2
  <2>4. ask' \in ExecAsks /\ ask'.pc = ask.pc /\ ask'.result = "none"
    BY <1>1, <1>2, <2>3 DEF ExecAsks
  <2>5. ExecFacts(ask)'
    BY <1>1, <1>2, <2>1, <2>4 DEF ExecFacts, Codes
  <2> QED BY <1>2, <2>1, <2>4, <2>5, ExecStep
<1> QED BY <1>4, <1>5, <1>6, <1>7

LEMMA ListPodsInv == ASSUME PodInv, ListPods PROVE PodInv'
<1>1. ask \in LogAsks /\ ask.result = "none" /\ emitted = {} /\ command = "none"
      /\ UNCHANGED <<running, command, gone, emitted>>
  BY AskKinds DEF PodInv, PodTypes, ListPods, LogFacts
<1>2. ASSUME Answered("failed") PROVE PodInv'
  <2>1. ask' \in LogAsks /\ ask'.pc = "answered" /\ ask'.result = "failed"
    BY <1>1, <1>2, AnsweredLog DEF LogResults
  <2>2. LogFacts(ask)'
    BY <1>1, <2>1 DEF LogFacts
  <2> QED BY <1>1, <2>1, <2>2, LogStep DEF PodInv, PodTypes
<1>3. ASSUME NEW list \in SetToSeqs(running),
             ask' = [ask EXCEPT !.pc = "fetch", !.matched = running,
                                !.todo = SubSeq(list, 1, Min({MaxPods, Len(list)}))]
      PROVE  PodInv'
  <2> DEFINE n == Min({MaxPods, Len(list)})
             t == SubSeq(list, 1, n)
  <2>1. Cardinality(running) \in Nat
    BY PodAssumption, FS_Subset, FS_CardinalityType DEF PodInv, PodTypes
  <2>2. /\ list \in [1..Cardinality(running) -> running]
        /\ \A i, j \in 1..Cardinality(running) : i # j => list[i] # list[j]
    BY DEF SetToSeqs
  <2>3. Len(list) = Cardinality(running)
    BY <2>1, <2>2
  <2>4. n \in 0..Len(list) /\ n = Min({MaxPods, Cardinality(running)})
    BY <2>1, <2>3, LesserOfTwo, PodAssumption
  <2> HIDE DEF n
  <2>5. \A i \in 1..n : list[i] \in running
    BY <2>1, <2>2, <2>3, <2>4
  <2>6. t \in Seq(running) /\ Len(t) = n /\ \A i \in 1..n : t[i] = list[i]
    <3>1. n \in Int /\ n \in Nat
      BY <2>1, <2>3, <2>4
    <3>2. /\ SubSeq(list, 1, n) \in Seq(running)
          /\ Len(SubSeq(list, 1, n)) = IF 1 <= n THEN n - 1 + 1 ELSE 0
          /\ \A i \in 1..(n - 1 + 1) : SubSeq(list, 1, n)[i] = list[1 + i - 1]
      BY <2>5, <3>1, SubSeqProperties
    <3>3. \A i \in 1..n : i \in 1..(n - 1 + 1) /\ 1 + i - 1 = i
      BY <3>1
    <3>4. (IF 1 <= n THEN n - 1 + 1 ELSE 0) = n
      BY <3>1
    <3> HIDE DEF t
    <3>5. t = SubSeq(list, 1, n)
      BY DEF t
    <3> QED BY <3>2, <3>3, <3>4, <3>5
  <2>7. t \in Seq(Pods) /\ running \subseteq Pods
    BY <2>6, SeqMonotonic DEF PodInv, PodTypes
  <2> HIDE DEF t
  <2>8. ask' = [ask EXCEPT !.pc = "fetch", !.matched = running, !.todo = t]
    BY <1>3 DEF t, n
  <2>9. PICK rs \in Seq(PodRows) : rs = ask.rows
    BY <1>1 DEF LogAsks
  <2>10. PICK k \in Nat : k = ask.left
    BY <1>1 DEF LogAsks
  <2>11. ask' = [pc |-> "fetch", what |-> "logs", left |-> k, todo |-> t, rows |-> rs,
                 matched |-> running, result |-> "none"]
    BY <1>1, <2>8, <2>9, <2>10 DEF LogAsks
  <2>12. ask' \in LogAsks
    BY <2>7, <2>11 DEF LogAsks, LogResults
  <2>13. Len(ask'.rows) = 0 /\ ask'.todo = t /\ ask'.matched = running
    BY <1>1, <2>9, <2>11 DEF ListPods, PodInv, LogFacts
  <2>14. \A i, j \in 1..n : i # j => t[i] # t[j]
    <3>1. \A i \in 1..n : i \in 1..Cardinality(running)
      BY <2>1, <2>3, <2>4
    <3> QED BY <2>2, <2>6, <3>1
  <2>15. Listed(ask')
    <3>1. n \in Nat /\ Len(ask'.todo) = n
      BY <2>1, <2>3, <2>4, <2>6, <2>13
    <3>2. \A i \in 1..n : t[i] \in running
      BY <2>5, <2>6
    <3>3. Len(ask'.rows) + Len(ask'.todo) = Min({MaxPods, Cardinality(running)})
      BY <2>4, <2>13, <3>1
    <3>4. 1..0 = {}
      OBVIOUS
    <3> QED BY <2>13, <2>14, <3>1, <3>2, <3>3, <3>4 DEF Listed
  <2> QED BY <1>1, <2>11, <2>12, <2>15, LogStep DEF LogFacts, PodInv, PodTypes
<1> QED BY <1>2, <1>3 DEF ListPods

LEMMA FetchInv == ASSUME PodInv, FetchPod PROVE PodInv'
<1>1. /\ ask \in LogAsks /\ Listed(ask) /\ ask.todo # <<>> /\ ask.result = "none"
      /\ emitted = {} /\ command = "none" /\ UNCHANGED <<running, command, gone, emitted>>
  BY AskKinds DEF PodInv, PodTypes, FetchPod, LogFacts
<1>2. PICK got \in {"lines", "error"} :
        ask' = [ask EXCEPT !.todo = Tail(@), !.rows = Append(@, <<Head(ask.todo), got>>)]
  BY DEF FetchPod
<1>3. PICK td \in Seq(Pods), rs \in Seq(PodRows), ms \in SUBSET Pods, k \in Nat :
        td = ask.todo /\ rs = ask.rows /\ ms = ask.matched /\ k = ask.left
  BY <1>1 DEF LogAsks
<1>4. /\ Head(td) \in Pods /\ Head(td) = td[1]
      /\ Tail(td) \in Seq(Pods) /\ Len(td) \in Nat \ {0} /\ Len(Tail(td)) = Len(td) - 1
      /\ \A i \in 1..(Len(td) - 1) : Tail(td)[i] = td[i + 1]
  <2>1. td # <<>>
    BY <1>1, <1>3
  <2>2. Len(td) \in Nat \ {0}
    BY <2>1, EmptySeq
  <2> QED BY <2>1, <2>2, HeadTailProperties
<1>5. PICK hd \in Pods : hd = Head(td) /\ hd = td[1]
  BY <1>4
<1>6. PICK tl \in Seq(Pods) : /\ tl = Tail(td) /\ Len(tl) = Len(td) - 1
                              /\ \A i \in 1..Len(tl) : tl[i] = td[i + 1]
  BY <1>4
<1>7. PICK new \in Seq(PodRows) : /\ new = Append(rs, <<hd, got>>)
                                  /\ Len(new) = Len(rs) + 1 /\ Len(rs) \in Nat
                                  /\ \A i \in 1..Len(rs) : new[i] = rs[i]
                                  /\ new[Len(rs) + 1] = <<hd, got>>
  <2>1. <<hd, got>> \in PodRows
    BY DEF PodRows
  <2>2. Len(rs) \in Nat
    BY LenProperties
  <2> QED BY <2>1, <2>2, AppendProperties
<1>8. ask' = [pc |-> ask.pc, what |-> "logs", left |-> k, todo |-> tl, rows |-> new,
              matched |-> ms, result |-> "none"]
  BY <1>1, <1>2, <1>3, <1>5, <1>6, <1>7 DEF LogAsks
<1>9. ask.pc = "fetch"
  BY DEF FetchPod
<1>10. ask' \in LogAsks
  BY <1>8, <1>9 DEF LogAsks, LogResults
<1>11. /\ \A i \in 1..Len(td) : td[i] \in ms
       /\ \A i \in 1..Len(rs) : rs[i][1] \in ms
       /\ \A i, j \in 1..Len(td) : i # j => td[i] # td[j]
       /\ \A i, j \in 1..Len(rs) : i # j => rs[i][1] # rs[j][1]
       /\ \A i \in 1..Len(rs), j \in 1..Len(td) : rs[i][1] # td[j]
       /\ Len(rs) + Len(td) = Min({MaxPods, Cardinality(ms)})
  BY <1>1, <1>3 DEF Listed
<1>12. \A i \in 1..Len(tl) : i + 1 \in 1..Len(td) /\ i + 1 # 1 /\ tl[i] = td[i + 1]
  BY <1>4, <1>6
<1>13. 1 \in 1..Len(td)
  BY <1>4
<1>14. \A i \in 1..Len(new) : \/ i \in 1..Len(rs) /\ new[i][1] = rs[i][1]
                              \/ i = Len(rs) + 1 /\ new[i][1] = td[1]
  BY <1>5, <1>7
<1>15. Len(new) + Len(tl) = Min({MaxPods, Cardinality(ms)})
  BY <1>4, <1>6, <1>7, <1>11
<1>16. \A i, j \in 1..Len(tl) : i # j => tl[i] # tl[j]
  <2> TAKE i \in 1..Len(tl), j \in 1..Len(tl)
  <2>1. i # j => i + 1 # j + 1
    OBVIOUS
  <2>2. \A a, b \in 1..Len(td) : a # b => td[a] # td[b]
    BY <1>11
  <2>3. /\ i + 1 \in 1..Len(td) /\ tl[i] = td[i + 1]
        /\ j + 1 \in 1..Len(td) /\ tl[j] = td[j + 1]
    BY <1>12
  <2> QED BY <2>1, <2>2, <2>3
<1>17. \A i, j \in 1..Len(new) : i # j => new[i][1] # new[j][1]
  BY <1>11, <1>13, <1>14
<1>18. \A i \in 1..Len(new), j \in 1..Len(tl) : new[i][1] # tl[j]
  BY <1>11, <1>12, <1>13, <1>14
<1>19. Listed(ask')
  <2>1. ask'.todo = tl /\ ask'.rows = new /\ ask'.matched = ms
    BY <1>8
  <2>2. \A i \in 1..Len(tl) : tl[i] \in ms
    BY <1>11, <1>12
  <2>3. \A i \in 1..Len(new) : new[i][1] \in ms
    BY <1>11, <1>13, <1>14
  <2> QED BY <1>15, <1>16, <1>17, <1>18, <2>1, <2>2, <2>3 DEF Listed
<1>20. LogFacts(ask)'
  BY <1>1, <1>8, <1>9, <1>19 DEF LogFacts
<1> QED BY <1>1, <1>10, <1>20, LogStep DEF PodInv, PodTypes

LEMMA AnswerInv == ASSUME PodInv, AnswerLogs PROVE PodInv'
<1>1. /\ ask \in LogAsks /\ Listed(ask) /\ ask.todo = <<>> /\ Answered("ok")
      /\ emitted = {} /\ command = "none" /\ UNCHANGED <<running, command, gone, emitted>>
  BY AskKinds DEF PodInv, PodTypes, AnswerLogs, LogFacts
<1>2. /\ ask' \in LogAsks /\ ask'.pc = "answered" /\ ask'.result = "ok"
      /\ ask'.todo = ask.todo /\ ask'.rows = ask.rows /\ ask'.matched = ask.matched
  BY <1>1, AnsweredLog DEF LogResults
<1>3. Listed(ask') /\ Len(ask'.todo) = 0
  BY <1>1, <1>2 DEF Listed
<1>4. LogFacts(ask)'
  BY <1>1, <1>2, <1>3 DEF LogFacts
<1> QED BY <1>1, <1>2, <1>4, LogStep DEF PodInv, PodTypes

LEMMA AuditInv == ASSUME PodInv, AuditWrites PROVE PodInv'
<1>1. UNCHANGED <<running, ask, command, gone, emitted>>
  BY DEF AuditWrites
<1>2. \A a : (ExecFacts(a) => ExecFacts(a)') /\ (LogFacts(a) => LogFacts(a)')
  BY <1>1 DEF ExecFacts, LogFacts
<1> QED BY <1>1, <1>2 DEF PodInv, PodTypes

\* The audit records what it was handed.
LEMMA RecordedIsEmitted ==
  ASSUME recorded \subseteq emitted, [PodsNext]_podVars
  PROVE  (recorded \subseteq emitted)'
BY DEF PodsNext, podVars, AskExec, AskLogs, Resolve, OpenStream, StreamEnds, AuditWrites,
       StreamBreaks, ExecTick, CommandEnds, ListPods, FetchPod, AnswerLogs, PodChanges, ClientGoes

LEMMA PodInvNext == PodInv /\ [PodsNext]_podVars => PodInv'
<1> SUFFICES ASSUME PodInv, [PodsNext]_podVars PROVE PodInv'
  OBVIOUS
<1>1. ASSUME NEW c \in Codes, CommandEnds(c) PROVE PodInv'
  <2>1. /\ command = "runs" /\ command' = c /\ UNCHANGED <<running, ask, gone, emitted>>
    BY <1>1 DEF CommandEnds
  <2>2. ask \in ExecAsks /\ ExecFacts(ask)
    BY <2>1 DEF PodInv, PodTypes, LogFacts
  <2>3. ExecFacts(ask)'
    BY <2>1, <2>2 DEF ExecFacts, Codes
  <2> QED BY <2>1, <2>2, <2>3, ExecStep DEF PodInv, PodTypes
<1>2. CASE \/ \E p \in Pods : PodChanges(p)
           \/ ClientGoes \/ UNCHANGED podVars
  <2>1. /\ UNCHANGED <<ask, command, emitted>> /\ running' \subseteq Pods
        /\ gone' \in BOOLEAN /\ (gone => gone')
    BY <1>2 DEF PodChanges, ClientGoes, podVars, PodInv, PodTypes
  <2>2. \A a : (ExecFacts(a) => ExecFacts(a)') /\ (LogFacts(a) => LogFacts(a)')
    BY <2>1 DEF ExecFacts, LogFacts
  <2> QED BY <2>1, <2>2 DEF PodInv, PodTypes
<1> QED
  BY <1>1, <1>2, AskExecInv, AskLogsInv, ResolveInv, ExecStreamInv, ListPodsInv, FetchInv, AnswerInv, AuditInv
     DEF PodsNext

LEMMA PodInvEnough == PodInv /\ recorded \subseteq emitted => PodsTypeOK /\ PodsTold
<1> SUFFICES ASSUME PodInv, recorded \subseteq emitted PROVE PodsTypeOK /\ PodsTold
  OBVIOUS
<1>1. PodsTypeOK
  BY AskKinds DEF PodInv, PodTypes, PodsTypeOK
<1>2. ASSUME ask.pc = "answered" PROVE PodsTold
  <2>1. CASE ask \in ExecAsks
    <3>1. ask.result # "ok"
      BY <2>1, AskKinds DEF ExecResults, Codes
    <3> QED BY <1>2, <2>1, <3>1 DEF PodInv, ExecFacts, PodsTold, DeadlineOrGone, Codes
  <2>2. CASE ask \in LogAsks
    <3>1. ask.what # "exec"
      BY <2>2, AskKinds
    <3>2. ASSUME ask.result = "ok"
          PROVE  /\ {r[1] : r \in ToSet(ask.rows)} \subseteq ask.matched
                 /\ Cardinality({r[1] : r \in ToSet(ask.rows)}) = Len(ask.rows)
                 /\ Len(ask.rows) = Min({MaxPods, Cardinality(ask.matched)})
      <4>1. Listed(ask) /\ Len(ask.todo) = 0
        BY <2>2, <3>2 DEF PodInv, LogFacts
      <4>2. ask.rows \in Seq(PodRows)
        BY <2>2 DEF LogAsks
      <4>3. Len(ask.rows) \in Nat
        BY <4>2, LenProperties
      <4>4. /\ {r[1] : r \in ToSet(ask.rows)} = {ask.rows[i][1] : i \in 1..Len(ask.rows)}
            /\ Cardinality({r[1] : r \in ToSet(ask.rows)}) = Len(ask.rows)
        BY <4>1, <4>2, DistinctRows DEF Listed
      <4>5. \A i \in 1..Len(ask.rows) : ask.rows[i][1] \in ask.matched
        BY <4>1 DEF Listed
      <4>6. Len(ask.rows) = Min({MaxPods, Cardinality(ask.matched)})
        BY <4>1, <4>3 DEF Listed
      <4> QED BY <4>4, <4>5, <4>6
    <3> QED BY <3>1, <3>2 DEF PodsTold
  <2> QED BY <1>2, <2>1, <2>2, AskKinds DEF PodInv, PodTypes
<1> QED BY <1>1, <1>2 DEF PodsTold

(***************************************************************************)
(* An exec is answered with a code exactly when it is handed to the audit, *)
(* which records nothing else, and a log query with the listed pods, each  *)
(* once, all or MaxPods of them, whatever happens to pods, clients and     *)
(* audit meanwhile (k8s/handler.go, service.go; audit/emitter.go).         *)
(***************************************************************************)
THEOREM PodAnswersAreTrue == PodsSpec => [](PodsTypeOK /\ PodsTold)
<1>1. PodsInit => recorded \subseteq emitted
  BY DEF PodsInit
<1>2. recorded \subseteq emitted /\ [PodsNext]_podVars => (recorded \subseteq emitted)'
  BY RecordedIsEmitted
<1> QED
  BY <1>1, <1>2, PodInvInit, PodInvNext, PodInvEnough, PTL DEF PodsSpec
=============================================================================
