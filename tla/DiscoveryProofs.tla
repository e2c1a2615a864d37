--------------------------- MODULE DiscoveryProofs ---------------------------
(***************************************************************************)
(* Proofs about Discovery, for any addresses, runs, promoters and bounds.  *)
(***************************************************************************)
EXTENDS Discovery, FiniteSetTheorems, TLAPS

LEMMA Counted == ASSUME NEW S \in SUBSET Addrs PROVE Cardinality(S) \in 0..Cardinality(Addrs)
  BY FS_Subset, FS_CardinalityType, DiscoveryAssumption

LEMMA FaultType ==
  ASSUME TypeOK, NEW rs \in SUBSET Runs, NoFault \/ Hit(rs)
  PROVE  hit' \subseteq Runs /\ faults' \in 0..MaxFaults
<1>1. CASE NoFault
  BY <1>1 DEF TypeOK, NoFault
<1>2. CASE Hit(rs)
  BY <1>2, DiscoveryAssumption DEF TypeOK, Hit
<1> QED
  BY <1>1, <1>2

\* What a promoter at work has in hand.
LEMMA Working ==
  ASSUME TypeOK, NEW p \in Promoters
  PROVE  /\ Unrecorded(p) \subseteq Todo(p) \cup HostRows
         /\ pro[p].pc = "build" =>
              pro[p] # NotCalled /\ pro[p].run \in Runs /\ pro[p].todo \in SUBSET Addrs
         /\ pro[p].pc = "mark" =>
              /\ pro[p] # NotCalled /\ pro[p].run \in Runs /\ pro[p].todo \in SUBSET Addrs
              /\ pro[p].at \in Addrs
<1>1. pro[p] \in {NotCalled} \cup Promotions
  BY DEF TypeOK
<1> QED
  BY <1>1 DEF NotCalled, Promotions, Unrecorded, HostRows

LEMMA RestType ==
  ASSUME TypeOK, NEW p \in Promoters, pro[p].pc = "mark"
  PROVE  Rest(p) \in {NotCalled} \cup Promotions
  BY Working DEF Rest, Promotions

-----------------------------------------------------------------------------
LEMMA InitType == Init => TypeOK
<1> SUFFICES ASSUME Init PROVE TypeOK
  OBVIOUS
<1>1. Cardinality({}) \in 0..Cardinality(Addrs) /\ Cardinality({}) = 0
  BY Counted, FS_EmptySet
<1>2. found \in [Runs -> 0..Cardinality(Addrs)]
  BY <1>1 DEF Init
<1>3. devices \in [HostRows -> 0..MaxDevices] /\ faults \in 0..MaxFaults
  BY DiscoveryAssumption DEF Init
<1> QED
  BY <1>2, <1>3 DEF Init, TypeOK, Statuses, ScanPcs

Scans == [pc : ScanPcs, left : SUBSET Addrs, new : SUBSET Addrs]

LEMMA Goes ==
  ASSUME TypeOK, NEW r \in Runs, NEW pc \in ScanPcs,
         NEW left \in SUBSET Addrs, NEW new \in SUBSET Addrs
  PROVE  GoOn(r, pc, left, new) => scan' \in [Runs -> Scans]
  BY DEF TypeOK, GoOn, Scans

LEMMA ScanStepType == ASSUME TypeOK, NEW r \in Runs, ScanStep(r) PROVE TypeOK'
<1>1. scan[r].left \in SUBSET Addrs /\ scan[r].new \in SUBSET Addrs
  BY DEF TypeOK
<1>2. {"scan", "dedup", "persist", "close", "fail", "done"} \subseteq ScanPcs
  BY DEF ScanPcs
<1>3. GoOn(r, "fail", {}, {}) => scan' \in [Runs -> Scans]
  BY <1>2, Goes
<1>4. CASE Scan(r)
  <2>1. \A live \in SUBSET Addrs : GoOn(r, "dedup", live, {}) => scan' \in [Runs -> Scans]
    BY <1>2, Goes
  <2>2. scan' \in [Runs -> Scans]
    BY <1>3, <1>4, <2>1 DEF Scan
  <2> QED
    BY <1>4, <2>2 DEF Scan, TypeOK, Scans
<1>5. CASE Dedup(r)
  <2>1. GoOn(r, "persist", scan[r].new, scan[r].new) => scan' \in [Runs -> Scans]
    BY <1>1, <1>2, Goes
  <2>2. \A a \in scan[r].left : \A new \in {scan[r].new, scan[r].new \cup {a}} :
          GoOn(r, "dedup", scan[r].left \ {a}, new) => scan' \in [Runs -> Scans]
    BY <1>1, <1>2, Goes
  <2>3. scan' \in [Runs -> Scans]
    BY <1>3, <1>5, <2>1, <2>2 DEF Dedup
  <2>4. hit' \subseteq Runs /\ faults' \in 0..MaxFaults
    BY <1>5, FaultType DEF Dedup
  <2> QED
    BY <1>5, <2>3, <2>4 DEF Dedup, TypeOK, Scans
<1>6. CASE Persist(r)
  <2>1. GoOn(r, "close", {}, scan[r].new) => scan' \in [Runs -> Scans]
    BY <1>1, <1>2, Goes
  <2>2. \A a \in scan[r].left :
          GoOn(r, "persist", scan[r].left \ {a}, scan[r].new) => scan' \in [Runs -> Scans]
    BY <1>1, <1>2, Goes
  <2>3. scan' \in [Runs -> Scans]
    BY <1>3, <1>6, <2>1, <2>2 DEF Persist
  <2>4. hit' \subseteq Runs /\ faults' \in 0..MaxFaults
    BY <1>6, FaultType DEF Persist
  <2>5. hosts' \subseteq HostRows /\ promoted' \subseteq hosts'
    BY <1>1, <1>6 DEF Persist, TypeOK, HostRows
  <2> QED
    BY <1>6, <2>3, <2>4, <2>5 DEF Persist, TypeOK, Scans
<1>7. CASE Close(r)
  <2>1. scan' \in [Runs -> Scans]
    BY <1>2, <1>7, Goes DEF Close
  <2>2. hit' \subseteq Runs /\ faults' \in 0..MaxFaults
    BY <1>7, FaultType DEF Close
  <2>3. status' \in [Runs -> Statuses] /\ found' \in [Runs -> 0..Cardinality(Addrs)]
    BY <1>1, <1>7, Counted DEF Close, TypeOK, Statuses
  <2> QED
    BY <1>7, <2>1, <2>2, <2>3 DEF Close, TypeOK, Scans
<1> QED
  BY <1>4, <1>5, <1>6, <1>7 DEF ScanStep

-----------------------------------------------------------------------------
(* A promoter only has hosts in hand that the table holds, and the one     *)
(* whose device it has made is one of them.                                *)
TodoListed == \A p \in Promoters : Unrecorded(p) \subseteq Todo(p) /\ Todo(p) \subseteq hosts

TypeInv == TypeOK /\ TodoListed

\* What p has in hand after it has turned to j.
LEMMA Turns ==
  ASSUME TypeOK, NEW p \in Promoters, NEW j \in {NotCalled} \cup Promotions,
         pro' = [pro EXCEPT ![p] = j]
  PROVE  /\ pro' \in [Promoters -> {NotCalled} \cup Promotions]
         /\ pro'[p] = j
         /\ \A q \in Promoters \ {p} : pro'[q] = pro[q] /\ Todo(q)' = Todo(q)
                                       /\ Unrecorded(q)' = Unrecorded(q)
  BY DEF TypeOK, Todo, Unrecorded

LEMMA SelectSteps ==
  ASSUME TypeInv, NEW p \in Promoters, NEW r \in Runs, SelectHosts(p, r)
  PROVE  /\ TypeInv'
         /\ \E S \in SUBSET Addrs :
              /\ {r} \X S \subseteq hosts \ promoted
              /\ Todo(p)' = {r} \X S /\ Unrecorded(p)' = {}
              /\ \A q \in Promoters \ {p} : Todo(q)' = Todo(q)
                                            /\ Unrecorded(q)' = Unrecorded(q)
              /\ shaky' = shaky \cup (({r} \X S) \cap UNION {Todo(q) : q \in Promoters \ {p}})
<1>1. PICK S \in SUBSET {a \in HostsOf(r) : <<r, a>> \notin promoted} :
        /\ pro' = [pro EXCEPT ![p] = [pc |-> "build", run |-> r, todo |-> S]]
        /\ shaky' = shaky \cup (({r} \X S) \cap UNION {Todo(q) : q \in Promoters \ {p}})
  BY DEF SelectHosts
<1>2. S \in SUBSET Addrs /\ {r} \X S \subseteq hosts \ promoted
  <2>1. S \in SUBSET Addrs /\ \A a \in S : <<r, a>> \in hosts \ promoted
    BY DEF HostsOf
  <2>2. \A h \in {r} \X S : h = <<r, h[2]>> /\ h[2] \in S
    OBVIOUS
  <2> QED
    BY <2>1, <2>2
<1>3. [pc |-> "build", run |-> r, todo |-> S] \in Promotions
  BY <1>2 DEF Promotions
<1>4. /\ pro' \in [Promoters -> {NotCalled} \cup Promotions]
      /\ pro'[p] = [pc |-> "build", run |-> r, todo |-> S]
      /\ \A q \in Promoters \ {p} : Todo(q)' = Todo(q) /\ Unrecorded(q)' = Unrecorded(q)
  BY <1>1, <1>3, Turns DEF TypeInv
<1>5. Todo(p)' = {r} \X S /\ Unrecorded(p)' = {}
  BY <1>4 DEF Todo, Unrecorded, NotCalled
<1>6. TodoListed'
  BY <1>2, <1>4, <1>5 DEF TypeInv, TodoListed, SelectHosts
<1>7. shaky' \subseteq HostRows
  BY <1>1, <1>2 DEF TypeInv, TypeOK
<1>8. TypeOK'
  BY <1>4, <1>7 DEF TypeInv, TypeOK, SelectHosts
<1> QED
  BY <1>1, <1>2, <1>4, <1>5, <1>6, <1>8 DEF TypeInv

\* A promoter gives up, or is done.
LEMMA Stops ==
  ASSUME TypeOK, NEW p \in Promoters, pro' = [pro EXCEPT ![p] = NotCalled]
  PROVE  /\ pro' \in [Promoters -> {NotCalled} \cup Promotions]
         /\ Todo(p)' = {} /\ Unrecorded(p)' = {}
         /\ \A q \in Promoters \ {p} : Todo(q)' = Todo(q) /\ Unrecorded(q)' = Unrecorded(q)
<1>1. /\ pro' \in [Promoters -> {NotCalled} \cup Promotions]
      /\ pro'[p] = NotCalled
      /\ \A q \in Promoters \ {p} : Todo(q)' = Todo(q) /\ Unrecorded(q)' = Unrecorded(q)
  BY Turns
<1> QED
  BY <1>1 DEF Todo, Unrecorded, NotCalled

LEMMA BuildSteps ==
  ASSUME TypeInv, NEW p \in Promoters, Build(p)
  PROVE  /\ TypeInv'
         /\ \A q \in Promoters \ {p} : Todo(q)' = Todo(q) /\ Unrecorded(q)' = Unrecorded(q)
         /\ Unrecorded(p) = {}
         /\ \/ /\ Todo(p)' = {} /\ Unrecorded(p)' = {}
               /\ devices' = devices
            \/ \E h \in Todo(p) :
                 /\ Todo(p)' = Todo(p) /\ Unrecorded(p)' = {h}
                 /\ devices' = [devices EXCEPT ![h] = @ + 1]
<1>1. /\ pro[p] \in {NotCalled} \cup Promotions /\ pro[p].pc = "build"
      /\ pro[p].run \in Runs /\ pro[p].todo \in SUBSET Addrs
      /\ pro[p] # NotCalled
  BY Working DEF TypeInv, Build, TypeOK
<1>2. Unrecorded(p) = {} /\ Todo(p) = {pro[p].run} \X pro[p].todo
  BY <1>1 DEF Unrecorded, Todo
<1>3. hit' \subseteq Runs /\ faults' \in 0..MaxFaults
  BY FaultType DEF Build, TypeInv
<1>4. ASSUME NEW a \in pro[p].todo,
             devices[<<pro[p].run, a>>] < MaxDevices,
             devices' = [devices EXCEPT ![<<pro[p].run, a>>] = @ + 1],
             pro' = [pro EXCEPT ![p] = [pc |-> "mark", run |-> @.run, todo |-> @.todo, at |-> a]]
      PROVE  /\ TypeInv'
             /\ \A q \in Promoters \ {p} : Todo(q)' = Todo(q) /\ Unrecorded(q)' = Unrecorded(q)
             /\ Todo(p)' = Todo(p) /\ Unrecorded(p)' = {<<pro[p].run, a>>}
             /\ <<pro[p].run, a>> \in Todo(p)
  <2> DEFINE j == [pc |-> "mark", run |-> pro[p].run, todo |-> pro[p].todo, at |-> a]
  <2>1. j \in Promotions
    BY <1>1 DEF Promotions
  <2>2. pro' = [pro EXCEPT ![p] = j]
    BY <1>4
  <2>3. /\ pro' \in [Promoters -> {NotCalled} \cup Promotions]
        /\ pro'[p] = j
        /\ \A q \in Promoters \ {p} : Todo(q)' = Todo(q) /\ Unrecorded(q)' = Unrecorded(q)
    BY <2>1, <2>2, Turns DEF TypeInv
  <2>4. Todo(p)' = Todo(p) /\ Unrecorded(p)' = {<<pro[p].run, a>>}
    BY <1>2, <2>3 DEF Todo, Unrecorded, NotCalled
  <2>5. <<pro[p].run, a>> \in HostRows /\ <<pro[p].run, a>> \in Todo(p)
    BY <1>1, <1>2 DEF HostRows
  <2>6. devices' \in [HostRows -> 0..MaxDevices]
    BY <1>4, <2>5, DiscoveryAssumption DEF TypeInv, TypeOK
  <2>7. TodoListed'
    BY <2>3, <2>4, <2>5 DEF TypeInv, TodoListed, Build
  <2>8. TypeOK'
    BY <1>3, <2>3, <2>6 DEF TypeInv, TypeOK, Build
  <2> QED
    BY <2>3, <2>4, <2>5, <2>7, <2>8 DEF TypeInv
<1>5. ASSUME pro' = [pro EXCEPT ![p] = NotCalled], UNCHANGED devices
      PROVE  /\ TypeInv'
             /\ \A q \in Promoters \ {p} : Todo(q)' = Todo(q) /\ Unrecorded(q)' = Unrecorded(q)
             /\ Todo(p)' = {} /\ Unrecorded(p)' = {}
  <2>1. /\ pro' \in [Promoters -> {NotCalled} \cup Promotions]
        /\ Todo(p)' = {} /\ Unrecorded(p)' = {}
        /\ \A q \in Promoters \ {p} : Todo(q)' = Todo(q) /\ Unrecorded(q)' = Unrecorded(q)
    BY <1>5, Stops DEF TypeInv
  <2>2. TodoListed'
    BY <2>1 DEF TypeInv, TodoListed, Build
  <2>3. TypeOK'
    BY <1>3, <1>5, <2>1 DEF TypeInv, TypeOK, Build
  <2> QED
    BY <2>1, <2>2, <2>3 DEF TypeInv
<1> QED
  BY <1>2, <1>4, <1>5 DEF Build

LEMMA MarkSteps ==
  ASSUME TypeInv, NEW p \in Promoters, Mark(p)
  PROVE  /\ TypeInv'
         /\ \A q \in Promoters \ {p} : Todo(q)' = Todo(q) /\ Unrecorded(q)' = Unrecorded(q)
         /\ Unrecorded(p)' = {}
         /\ Todo(p)' \subseteq Todo(p) \ Unrecorded(p)
<1>1. /\ pro[p] \in {NotCalled} \cup Promotions /\ pro[p].pc = "mark"
      /\ pro[p].run \in Runs /\ pro[p].todo \in SUBSET Addrs /\ pro[p].at \in Addrs
      /\ pro[p] # NotCalled
  BY Working DEF TypeInv, Mark, TypeOK
<1>2. /\ Unrecorded(p) = {<<pro[p].run, pro[p].at>>}
      /\ Todo(p) = {pro[p].run} \X pro[p].todo
  BY <1>1 DEF Unrecorded, Todo
<1>3. hit' \subseteq Runs /\ faults' \in 0..MaxFaults
  BY FaultType DEF Mark, TypeInv
<1>4. /\ pro' \in [Promoters -> {NotCalled} \cup Promotions]
      /\ \A q \in Promoters \ {p} : Todo(q)' = Todo(q) /\ Unrecorded(q)' = Unrecorded(q)
      /\ Unrecorded(p)' = {}
      /\ Todo(p)' \subseteq Todo(p) \ Unrecorded(p)
  <2> DEFINE left == pro[p].todo \ {pro[p].at}
             j    == [pc |-> "build", run |-> pro[p].run, todo |-> left]
  <2>1. CASE pro' = [pro EXCEPT ![p] = NotCalled]
    BY <2>1, Stops DEF TypeInv
  <2>2. CASE pro' = [pro EXCEPT ![p] = j]
    <3>1. j \in Promotions
      BY <1>1 DEF Promotions
    <3>2. /\ pro' \in [Promoters -> {NotCalled} \cup Promotions]
          /\ pro'[p] = j
          /\ \A q \in Promoters \ {p} : Todo(q)' = Todo(q) /\ Unrecorded(q)' = Unrecorded(q)
      BY <2>2, <3>1, Turns DEF TypeInv
    <3>3. Todo(p)' = {pro[p].run} \X left /\ Unrecorded(p)' = {}
      BY <3>2 DEF Todo, Unrecorded, NotCalled
    <3>4. {pro[p].run} \X left \subseteq Todo(p) \ Unrecorded(p)
      BY <1>2
    <3> QED
      BY <3>2, <3>3, <3>4
  <2>3. pro' = [pro EXCEPT ![p] = NotCalled] \/ pro' = [pro EXCEPT ![p] = j]
    BY DEF Mark, Rest
  <2> QED
    BY <2>1, <2>2, <2>3
<1>5. TodoListed'
  BY <1>4 DEF TypeInv, TodoListed, Mark
<1>6. Unrecorded(p) \subseteq hosts /\ Unrecorded(p) \subseteq HostRows
  BY DEF TypeInv, TodoListed, TypeOK
<1>7. promoted' \subseteq hosts /\ shaky' \subseteq HostRows
  BY <1>6 DEF TypeInv, TypeOK, Mark
<1>8. TypeOK'
  BY <1>3, <1>4, <1>7 DEF TypeInv, TypeOK, Mark
<1> QED
  BY <1>4, <1>5, <1>8 DEF TypeInv

LEMMA CrashSteps ==
  ASSUME TypeInv, Crash
  PROVE  /\ TypeInv'
         /\ \A p \in Promoters : Todo(p)' = {} /\ Unrecorded(p)' = {}
<1>1. \A p \in Promoters : Todo(p)' = {} /\ Unrecorded(p)' = {}
  BY DEF Crash, Todo, Unrecorded, NotCalled
<1>2. pro' \in [Promoters -> {NotCalled} \cup Promotions]
  BY DEF Crash
<1>3. scan' \in [Runs -> Scans]
  BY DEF TypeInv, TypeOK, Crash, Scans, ScanPcs
<1>4. \A p \in Promoters : Unrecorded(p) \subseteq HostRows
  BY DEF TypeInv, TypeOK, TodoListed
<1>5. shaky' \subseteq HostRows
  BY <1>4 DEF TypeInv, TypeOK, Crash
<1>6. hit' \subseteq Runs /\ faults' \in 0..MaxFaults
  BY FaultType DEF TypeInv, Crash
<1>7. TypeOK'
  BY <1>2, <1>3, <1>5, <1>6 DEF TypeInv, TypeOK, Crash, Scans
<1>8. TodoListed'
  BY <1>1 DEF TodoListed
<1> QED
  BY <1>1, <1>7, <1>8 DEF TypeInv

LEMMA RunSteps ==
  ASSUME TypeInv, NEW r \in Runs, StartRun(r) \/ ScanStep(r)
  PROVE  /\ TypeInv'
         /\ hosts \subseteq hosts'
         /\ UNCHANGED <<promoted, devices, pro, shaky>>
<1>1. /\ hosts \subseteq hosts'
      /\ UNCHANGED <<promoted, devices, pro, shaky>>
  BY DEF StartRun, ScanStep, Scan, Dedup, Persist, Close
<1>2. TodoListed'
  BY <1>1 DEF TypeInv, TodoListed, Todo, Unrecorded
<1>3. CASE StartRun(r)
  <2>1. scan' \in [Runs -> Scans]
    BY <1>3, Goes DEF StartRun, ScanPcs, TypeInv
  <2>2. status' \in [Runs -> Statuses] /\ met' \subseteq SUBSET Runs
    BY <1>3 DEF StartRun, TypeInv, TypeOK, Statuses
  <2>3. TypeOK'
    BY <1>3, <2>1, <2>2 DEF StartRun, TypeInv, TypeOK, Scans
  <2> QED
    BY <1>1, <1>2, <2>3 DEF TypeInv
<1>4. CASE ScanStep(r)
  BY <1>1, <1>2, <1>4, ScanStepType DEF TypeInv
<1> QED
  BY <1>3, <1>4

LEMMA NextType == TypeInv /\ [Next]_vars => TypeInv'
<1> SUFFICES ASSUME TypeInv, [Next]_vars PROVE TypeInv'
  OBVIOUS
<1>1. CASE UNCHANGED vars
  BY <1>1 DEF vars, TypeInv, TypeOK, TodoListed, Todo, Unrecorded
<1>2. CASE Next
  BY <1>2, RunSteps, SelectSteps, BuildSteps, MarkSteps, CrashSteps DEF Next
<1> QED
  BY <1>1, <1>2

LEMMA InitTodo == Init => TodoListed
  BY DEF Init, TodoListed, Todo, Unrecorded, NotCalled

(* Every variable keeps its type.                                          *)
THEOREM Typing == Spec => []TypeOK
<1>1. Init => TypeInv
  BY InitType, InitTodo DEF TypeInv
<1>2. TypeInv => TypeOK
  BY DEF TypeInv
<1> QED
  BY <1>1, <1>2, NextType, PTL DEF Spec
-----------------------------------------------------------------------------
(***************************************************************************)
(* Promotions.  Two promoters only share shaky hosts, and no host in hand  *)
(* that is not shaky has been promoted.  So the one that makes the device  *)
(* of such a host finds none made, and nobody else makes or records it.    *)
(***************************************************************************)
Apart ==
  \A p \in Promoters :
    /\ \A q \in Promoters \ {p} : Todo(p) \cap Todo(q) \subseteq shaky
    /\ Todo(p) \cap promoted \subseteq shaky

NoneYet == \A h \in HostRows \ hosts : devices[h] = 0

DeviceInv == TypeInv /\ Apart /\ NoneYet /\ OneDevicePerHost

LEMMA DeviceInit == Init => Apart /\ NoneYet /\ OneDevicePerHost
  BY DEF Init, Apart, NoneYet, OneDevicePerHost, Todo, Unrecorded

LEMMA DeviceRun ==
  ASSUME DeviceInv, NEW r \in Runs, StartRun(r) \/ ScanStep(r)
  PROVE  Apart' /\ NoneYet' /\ OneDevicePerHost'
<1>1. /\ TypeInv' /\ hosts \subseteq hosts'
      /\ UNCHANGED <<promoted, devices, pro, shaky>>
  BY RunSteps DEF DeviceInv
<1>2. \A p \in Promoters : Todo(p)' = Todo(p) /\ Unrecorded(p)' = Unrecorded(p)
  BY <1>1 DEF Todo, Unrecorded
<1>3. Apart' /\ NoneYet'
  BY <1>1, <1>2 DEF DeviceInv, Apart, NoneYet
<1>4. ASSUME NEW h \in hosts' \ hosts
      PROVE  /\ devices[h] = 0 /\ h \notin promoted
             /\ \A p \in Promoters : h \notin Unrecorded(p)
  BY <1>1, <1>4 DEF DeviceInv, TypeInv, TypeOK, TodoListed, NoneYet
<1>5. OneDevicePerHost'
  BY <1>1, <1>2, <1>4 DEF DeviceInv, OneDevicePerHost
<1> QED
  BY <1>3, <1>5

LEMMA DeviceSelect ==
  ASSUME DeviceInv, NEW p \in Promoters, NEW r \in Runs, SelectHosts(p, r)
  PROVE  Apart' /\ NoneYet' /\ OneDevicePerHost'
<1>1. PICK S \in SUBSET Addrs :
        /\ {r} \X S \subseteq hosts \ promoted
        /\ Todo(p)' = {r} \X S /\ Unrecorded(p)' = {}
        /\ \A q \in Promoters \ {p} : Todo(q)' = Todo(q) /\ Unrecorded(q)' = Unrecorded(q)
        /\ shaky' = shaky \cup (({r} \X S) \cap UNION {Todo(q) : q \in Promoters \ {p}})
  BY SelectSteps DEF DeviceInv
<1>2. UNCHANGED <<hosts, promoted, devices>> /\ Unrecorded(p) = {}
  BY DEF SelectHosts, Unrecorded, NotCalled
<1>3. \A q \in Promoters \ {p} : Todo(p)' \cap Todo(q)' \subseteq shaky'
  BY <1>1
<1>4. Apart'
  BY <1>1, <1>2, <1>3 DEF DeviceInv, Apart
<1>5. NoneYet'
  BY <1>2 DEF DeviceInv, NoneYet
<1>6. OneDevicePerHost'
  BY <1>1, <1>2 DEF DeviceInv, OneDevicePerHost
<1> QED
  BY <1>4, <1>5, <1>6

LEMMA DeviceBuild ==
  ASSUME DeviceInv, NEW p \in Promoters, Build(p)
  PROVE  Apart' /\ NoneYet' /\ OneDevicePerHost'
<1>1. UNCHANGED <<hosts, promoted, shaky>> /\ Unrecorded(p) = {}
      /\ \A q \in Promoters \ {p} : Todo(q)' = Todo(q) /\ Unrecorded(q)' = Unrecorded(q)
  BY BuildSteps DEF Build, DeviceInv
<1>2. CASE Todo(p)' = {} /\ Unrecorded(p)' = {} /\ devices' = devices
  <2>1. Apart' /\ NoneYet'
    BY <1>1, <1>2 DEF DeviceInv, Apart, NoneYet
  <2>2. OneDevicePerHost'
    BY <1>1, <1>2 DEF DeviceInv, OneDevicePerHost
  <2> QED
    BY <2>1, <2>2
<1>3. ASSUME NEW h \in Todo(p),
             Todo(p)' = Todo(p), Unrecorded(p)' = {h},
             devices' = [devices EXCEPT ![h] = @ + 1]
      PROVE  Apart' /\ NoneYet' /\ OneDevicePerHost'
  <2>1. Apart'
    BY <1>1, <1>3 DEF DeviceInv, Apart
  <2>2. h \in hosts /\ devices \in [HostRows -> 0..MaxDevices] /\ hosts \subseteq HostRows
    BY DEF DeviceInv, TypeInv, TodoListed, TypeOK
  <2>3. NoneYet'
    BY <1>1, <1>3, <2>2 DEF DeviceInv, NoneYet
  <2>4. ASSUME h \notin shaky PROVE devices[h] = 0
    <3>1. h \notin promoted
      BY <1>1, <2>4 DEF DeviceInv, Apart
    <3>2. \A q \in Promoters : h \notin Unrecorded(q)
      BY <1>1, <2>4 DEF DeviceInv, Apart, TypeInv, TodoListed
    <3>3. devices[h] <= 1 /\ devices[h] # 1
      BY <2>2, <2>4, <3>1, <3>2 DEF DeviceInv, OneDevicePerHost
    <3> QED
      BY <2>2, <3>3, DiscoveryAssumption
  <2>5. \A g \in hosts : devices'[g] = IF g = h THEN devices[g] + 1 ELSE devices[g]
    BY <1>3, <2>2
  <2>6. OneDevicePerHost'
    BY <1>1, <1>3, <2>4, <2>5 DEF DeviceInv, OneDevicePerHost
  <2> QED
    BY <2>1, <2>3, <2>6
<1> QED
  BY <1>2, <1>3, BuildSteps DEF DeviceInv

LEMMA DeviceMark ==
  ASSUME DeviceInv, NEW p \in Promoters, Mark(p)
  PROVE  Apart' /\ NoneYet' /\ OneDevicePerHost'
<1>1. /\ UNCHANGED <<hosts, devices>>
      /\ shaky \subseteq shaky'
      /\ \/ promoted' = promoted \cup Unrecorded(p) /\ shaky' = shaky
         \/ promoted' = promoted /\ Unrecorded(p) \subseteq shaky'
  BY DEF Mark
<1>2. /\ \A q \in Promoters \ {p} : Todo(q)' = Todo(q) /\ Unrecorded(q)' = Unrecorded(q)
      /\ Unrecorded(p)' = {}
      /\ Todo(p)' \subseteq Todo(p) \ Unrecorded(p)
      /\ Unrecorded(p) \subseteq Todo(p)
  BY MarkSteps DEF DeviceInv, TypeInv, TodoListed
<1>3. Apart'
  <2>1. ASSUME NEW q \in Promoters, NEW t \in Promoters \ {q}
        PROVE  Todo(q)' \cap Todo(t)' \subseteq shaky'
    BY <1>1, <1>2 DEF DeviceInv, Apart
  <2>2. ASSUME NEW q \in Promoters
        PROVE  Todo(q)' \cap promoted' \subseteq shaky'
    <3>1. CASE q = p
      BY <1>1, <1>2, <3>1 DEF DeviceInv, Apart
    <3>2. CASE q # p
      BY <1>1, <1>2, <3>2 DEF DeviceInv, Apart
    <3> QED
      BY <3>1, <3>2
  <2> QED
    BY <2>1, <2>2 DEF Apart
<1>4. NoneYet'
  BY <1>1 DEF DeviceInv, NoneYet
<1>5. OneDevicePerHost'
  BY <1>1, <1>2 DEF DeviceInv, OneDevicePerHost
<1> QED
  BY <1>3, <1>4, <1>5

LEMMA DeviceCrash ==
  ASSUME DeviceInv, Crash
  PROVE  Apart' /\ NoneYet' /\ OneDevicePerHost'
<1>1. /\ UNCHANGED <<hosts, promoted, devices>>
      /\ \A p \in Promoters : Todo(p)' = {} /\ Unrecorded(p)' = {}
      /\ shaky' = shaky \cup UNION {Unrecorded(p) : p \in Promoters}
  BY CrashSteps DEF Crash, DeviceInv
<1> QED
  BY <1>1 DEF DeviceInv, Apart, NoneYet, OneDevicePerHost

LEMMA DeviceNext == DeviceInv /\ [Next]_vars => DeviceInv'
<1> SUFFICES ASSUME DeviceInv, [Next]_vars PROVE DeviceInv'
  OBVIOUS
<1>1. CASE UNCHANGED vars
  BY <1>1, NextType DEF vars, DeviceInv, Apart, NoneYet, OneDevicePerHost, Todo, Unrecorded
<1>2. CASE Next
  <2>1. TypeInv'
    BY NextType DEF DeviceInv
  <2>2. Apart' /\ NoneYet' /\ OneDevicePerHost'
    BY <1>2, DeviceRun, DeviceSelect, DeviceBuild, DeviceMark, DeviceCrash DEF Next
  <2> QED
    BY <2>1, <2>2 DEF DeviceInv
<1> QED
  BY <1>1, <1>2

(* A host that no two requests promote at a time, and whose mark no fault  *)
(* prevents, becomes one device (service.go:268-273).                      *)
THEOREM OneDevice == Spec => []OneDevicePerHost
<1>1. Init => DeviceInv
  BY InitType, InitTodo, DeviceInit DEF DeviceInv, TypeInv
<1>2. DeviceInv => OneDevicePerHost
  BY DEF DeviceInv
<1> QED
  BY <1>1, <1>2, DeviceNext, PTL DEF Spec
-----------------------------------------------------------------------------
(***************************************************************************)
(* Duplicates.  An address that one run is about to record and another has *)
(* recorded was recorded after the first run looked, hence while both were *)
(* at work.                                                                *)
(***************************************************************************)
AtWorkMet == \A r, s \in Runs : r # s /\ Scanning(r) /\ Scanning(s) => {r, s} \in met

NewLeft ==
  \A r \in Runs : /\ scan[r].new # {} => Scanning(r)
                  /\ scan[r].pc = "persist" => scan[r].left \subseteq scan[r].new

ClaimsMet == \A r, s \in Runs : r # s /\ scan[r].new \cap HostsOf(s) # {} => {r, s} \in met

DuplicateInv == TypeInv /\ AtWorkMet /\ NewLeft /\ ClaimsMet /\ DuplicatesOverlapped

LEMMA DuplicateInit == Init => AtWorkMet /\ NewLeft /\ ClaimsMet /\ DuplicatesOverlapped
  BY DEF Init, AtWorkMet, NewLeft, ClaimsMet, DuplicatesOverlapped, HostsOf, Scanning

\* A step of r that records nothing and starts nobody, and after which what
\* r carries has no row yet unless it carried it before.
LEMMA DuplicateGo ==
  ASSUME DuplicateInv, NEW r \in Runs, NEW pc \in ScanPcs \ {"none"},
         NEW left \in SUBSET Addrs, NEW new \in SUBSET Addrs,
         GoOn(r, pc, left, new), UNCHANGED <<hosts, met>>,
         Scanning(r), new # {} => pc # "done", pc = "persist" => left \subseteq new,
         \A s \in Runs : new \cap HostsOf(s) \subseteq scan[r].new
  PROVE  AtWorkMet' /\ NewLeft' /\ ClaimsMet' /\ DuplicatesOverlapped'
<1>1. /\ scan'[r] = [pc |-> pc, left |-> left, new |-> new]
      /\ \A s \in Runs \ {r} : scan'[s] = scan[s]
  BY DEF GoOn, DuplicateInv, TypeInv, TypeOK
<1>2. \A s \in Runs : HostsOf(s)' = HostsOf(s) /\ (Scanning(s)' => Scanning(s))
  BY <1>1 DEF HostsOf, Scanning
<1>3. AtWorkMet'
  BY <1>2 DEF DuplicateInv, AtWorkMet
<1>4. NewLeft'
  BY <1>1 DEF DuplicateInv, NewLeft, Scanning
<1>5. ClaimsMet'
  BY <1>1, <1>2 DEF DuplicateInv, ClaimsMet
<1>6. DuplicatesOverlapped'
  BY <1>2 DEF DuplicateInv, DuplicatesOverlapped
<1> QED
  BY <1>3, <1>4, <1>5, <1>6

LEMMA DuplicateScanStep ==
  ASSUME DuplicateInv, NEW r \in Runs, ScanStep(r)
  PROVE  AtWorkMet' /\ NewLeft' /\ ClaimsMet' /\ DuplicatesOverlapped'
<1>1. /\ scan[r].left \in SUBSET Addrs /\ scan[r].new \in SUBSET Addrs
      /\ Scanning(r)
      /\ {"scan", "dedup", "persist", "close", "fail", "done"} \subseteq ScanPcs \ {"none"}
  BY DEF DuplicateInv, TypeInv, TypeOK, Scanning, ScanStep, Scan, Dedup, Persist, Close, ScanPcs
<1>2. ASSUME GoOn(r, "fail", {}, {}), UNCHANGED <<hosts, met>>
      PROVE  AtWorkMet' /\ NewLeft' /\ ClaimsMet' /\ DuplicatesOverlapped'
  BY <1>1, <1>2, DuplicateGo
<1>3. CASE Scan(r)
  <2>1. ASSUME NEW live \in SUBSET Addrs, GoOn(r, "dedup", live, {})
        PROVE  AtWorkMet' /\ NewLeft' /\ ClaimsMet' /\ DuplicatesOverlapped'
    BY <1>1, <1>3, <2>1, DuplicateGo DEF Scan
  <2> QED
    BY <1>2, <1>3, <2>1 DEF Scan
<1>4. CASE Dedup(r)
  <2>1. ASSUME GoOn(r, "persist", scan[r].new, scan[r].new)
        PROVE  AtWorkMet' /\ NewLeft' /\ ClaimsMet' /\ DuplicatesOverlapped'
    BY <1>1, <1>4, <2>1, DuplicateGo DEF Dedup
  <2>2. ASSUME NEW a \in scan[r].left,
               GoOn(r, "dedup", scan[r].left \ {a},
                    IF \E s \in Runs : a \in HostsOf(s) THEN scan[r].new
                                                        ELSE scan[r].new \cup {a})
        PROVE  AtWorkMet' /\ NewLeft' /\ ClaimsMet' /\ DuplicatesOverlapped'
    <3>1. CASE \E s \in Runs : a \in HostsOf(s)
      <4>1. GoOn(r, "dedup", scan[r].left \ {a}, scan[r].new)
        BY <2>2, <3>1
      <4> QED
        BY <1>1, <1>4, <4>1, DuplicateGo DEF Dedup
    <3>2. CASE ~\E s \in Runs : a \in HostsOf(s)
      <4>1. GoOn(r, "dedup", scan[r].left \ {a}, scan[r].new \cup {a})
        BY <2>2, <3>2
      <4> QED
        BY <1>1, <1>4, <3>2, <4>1, DuplicateGo DEF Dedup
    <3> QED
      BY <3>1, <3>2
  <2> QED
    BY <1>2, <1>4, <2>1, <2>2 DEF Dedup
<1>5. CASE Persist(r)
  <2>1. ASSUME GoOn(r, "close", {}, scan[r].new), UNCHANGED hosts
        PROVE  AtWorkMet' /\ NewLeft' /\ ClaimsMet' /\ DuplicatesOverlapped'
    BY <1>1, <1>5, <2>1, DuplicateGo DEF Persist
  <2>2. ASSUME NEW a \in scan[r].left, hosts' = hosts \cup {<<r, a>>},
               GoOn(r, "persist", scan[r].left \ {a}, scan[r].new)
        PROVE  AtWorkMet' /\ NewLeft' /\ ClaimsMet' /\ DuplicatesOverlapped'
    <3>1. /\ scan'[r] = [pc |-> "persist", left |-> scan[r].left \ {a}, new |-> scan[r].new]
          /\ \A s \in Runs \ {r} : scan'[s] = scan[s]
      BY <2>2 DEF GoOn, DuplicateInv, TypeInv, TypeOK
    <3>2. /\ HostsOf(r)' = HostsOf(r) \cup {a}
          /\ \A s \in Runs \ {r} : HostsOf(s)' = HostsOf(s)
          /\ \A s \in Runs : Scanning(s)' => Scanning(s)
      BY <1>1, <2>2, <3>1 DEF HostsOf, Scanning
    <3>3. UNCHANGED met /\ a \in scan[r].new
      BY <1>5, <2>2 DEF Persist, DuplicateInv, NewLeft
    <3>4. AtWorkMet'
      BY <3>2, <3>3 DEF DuplicateInv, AtWorkMet
    <3>5. NewLeft'
      BY <1>5, <2>2, <3>1 DEF DuplicateInv, NewLeft, Scanning, Persist
    <3>6. ASSUME NEW s \in Runs \ {r}, a \in scan[s].new PROVE {s, r} \in met
      BY <1>1, <3>6 DEF DuplicateInv, NewLeft, AtWorkMet
    <3>7. ClaimsMet'
      BY <3>1, <3>2, <3>3, <3>6 DEF DuplicateInv, ClaimsMet
    <3>8. ASSUME NEW s \in Runs \ {r}, a \in HostsOf(s) PROVE {r, s} \in met
      BY <3>3, <3>8 DEF DuplicateInv, ClaimsMet
    <3>9. ASSUME NEW s \in Runs, NEW t \in Runs, s # t, HostsOf(s)' \cap HostsOf(t)' # {}
          PROVE  {s, t} \in met'
      <4>1. {r, s} = {s, r} /\ {r, t} = {t, r}
        OBVIOUS
      <4>2. CASE s = r
        BY <3>2, <3>3, <3>8, <3>9, <4>2 DEF DuplicateInv, DuplicatesOverlapped
      <4>3. CASE t = r
        BY <3>2, <3>3, <3>8, <3>9, <4>1, <4>3 DEF DuplicateInv, DuplicatesOverlapped
      <4>4. CASE s # r /\ t # r
        BY <3>2, <3>3, <3>9, <4>4 DEF DuplicateInv, DuplicatesOverlapped
      <4> QED
        BY <4>2, <4>3, <4>4
    <3> QED
      BY <3>4, <3>5, <3>7, <3>9 DEF DuplicatesOverlapped
  <2> QED
    BY <1>2, <1>5, <2>1, <2>2 DEF Persist
<1>6. CASE Close(r)
  BY <1>1, <1>6, DuplicateGo DEF Close
<1> QED
  BY <1>3, <1>4, <1>5, <1>6 DEF ScanStep

LEMMA DuplicateStart ==
  ASSUME DuplicateInv, NEW r \in Runs, StartRun(r)
  PROVE  AtWorkMet' /\ NewLeft' /\ ClaimsMet' /\ DuplicatesOverlapped'
<1>1. /\ scan'[r] = [pc |-> "scan", left |-> {}, new |-> {}]
      /\ \A s \in Runs \ {r} : scan'[s] = scan[s]
  BY DEF StartRun, GoOn, DuplicateInv, TypeInv, TypeOK
<1>2. /\ \A s \in Runs : HostsOf(s)' = HostsOf(s)
      /\ \A s \in Runs \ {r} : Scanning(s)' = Scanning(s)
      /\ met \subseteq met'
      /\ \A s \in Runs : Scanning(s) => {r, s} \in met'
  BY <1>1 DEF StartRun, HostsOf, Scanning
<1>3. AtWorkMet'
  <2>1. ASSUME NEW s \in Runs, NEW t \in Runs, s # t, Scanning(s)', Scanning(t)'
        PROVE  {s, t} \in met'
    <3>1. {r, s} = {s, r}
      OBVIOUS
    <3> QED
      BY <1>2, <2>1, <3>1 DEF DuplicateInv, AtWorkMet
  <2> QED
    BY <2>1 DEF AtWorkMet
<1>4. NewLeft'
  BY <1>1 DEF DuplicateInv, NewLeft, Scanning
<1>5. ClaimsMet' /\ DuplicatesOverlapped'
  BY <1>1, <1>2 DEF DuplicateInv, ClaimsMet, DuplicatesOverlapped
<1> QED
  BY <1>3, <1>4, <1>5

LEMMA DuplicateOther ==
  ASSUME DuplicateInv,
         \/ \E p \in Promoters : (\E r \in Runs : SelectHosts(p, r)) \/ Build(p) \/ Mark(p)
         \/ Crash
         \/ UNCHANGED vars
  PROVE  AtWorkMet' /\ NewLeft' /\ ClaimsMet' /\ DuplicatesOverlapped'
<1>1. CASE UNCHANGED scan /\ UNCHANGED <<hosts, met>>
  BY <1>1 DEF DuplicateInv, AtWorkMet, NewLeft, ClaimsMet, DuplicatesOverlapped,
              Scanning, HostsOf
<1>2. CASE Crash
  <2>1. UNCHANGED <<hosts, met>>
        /\ \A r \in Runs : scan'[r] = scan[r] \/ scan'[r] = [pc |-> "done", left |-> {}, new |-> {}]
    BY <1>2 DEF Crash
  <2> QED
    BY <2>1 DEF DuplicateInv, AtWorkMet, NewLeft, ClaimsMet, DuplicatesOverlapped,
                Scanning, HostsOf
<1> QED
  BY <1>1, <1>2 DEF SelectHosts, Build, Mark, vars

LEMMA DuplicateNext == DuplicateInv /\ [Next]_vars => DuplicateInv'
<1> SUFFICES ASSUME DuplicateInv, [Next]_vars PROVE DuplicateInv'
  OBVIOUS
<1>1. TypeInv'
  BY NextType DEF DuplicateInv
<1>2. AtWorkMet' /\ NewLeft' /\ ClaimsMet' /\ DuplicatesOverlapped'
  BY DuplicateScanStep, DuplicateStart, DuplicateOther DEF Next
<1> QED
  BY <1>1, <1>2 DEF DuplicateInv

(* An address is in two runs' results only if the scans overlapped         *)
(* (repository.go:163-166, HostExistsByIP).                                *)
THEOREM Deduplicated == Spec => []DuplicatesOverlapped
<1>1. Init => DuplicateInv
  BY InitType, InitTodo, DuplicateInit DEF DuplicateInv, TypeInv
<1>2. DuplicateInv => DuplicatesOverlapped
  BY DEF DuplicateInv
<1> QED
  BY <1>1, <1>2, DuplicateNext, PTL DEF Spec
-----------------------------------------------------------------------------
(***************************************************************************)
(* What a run's row tells.  While its scan is at work the row says         *)
(* "running", and the scan carries exactly the hosts that it has recorded  *)
(* or will: sc is the scan, st and fd the row's status and hosts_found, hs *)
(* the addresses it has rows for, struck whether a fault has hit the run.  *)
(***************************************************************************)
Tells(sc, st, fd, hs, struck) ==
  /\ sc.pc = "none" <=> st = "none"
  /\ sc.pc \notin {"none", "done"} => st = "running"
  /\ st = "running" => sc.pc # "done" \/ struck
  /\ st # "completed" => fd = 0
  /\ sc.pc \in {"none", "scan", "dedup"} => hs = {}
  /\ sc.pc = "scan" => sc.new = {}
  /\ sc.pc = "persist" => hs \cup sc.left = sc.new
  /\ sc.pc = "close" => hs = sc.new
  /\ sc.pc = "fail" => sc.new = {}
  /\ st = "completed" => hs # {} /\ fd = Cardinality(hs)
  /\ st = "empty" => hs = {}

RowTold  == \A r \in Runs : Tells(scan[r], status[r], found[r], HostsOf(r), r \in hit)
RowInv   == TypeInv /\ RowTold

LEMMA RowToldInit == Init => RowTold
  BY DEF Init, RowTold, Tells, HostsOf

\* Only the scan of r works, on rows of r.
LEMMA RowToldFrame ==
  ASSUME RowInv, NEW r \in Runs,
         \A s \in Runs \ {r} : /\ scan'[s] = scan[s] /\ status'[s] = status[s] /\ found'[s] = found[s]
                               /\ \A a \in Addrs : <<s, a>> \in hosts' <=> <<s, a>> \in hosts
                               /\ s \in hit' <=> s \in hit,
         Tells(scan'[r], status'[r], found'[r], HostsOf(r)', r \in hit')
  PROVE  RowTold'
<1>1. \A s \in Runs \ {r} : HostsOf(s)' = HostsOf(s)
  BY DEF HostsOf
<1>2. ASSUME NEW s \in Runs \ {r}
      PROVE  Tells(scan'[s], status'[s], found'[s], HostsOf(s)', s \in hit')
  <2>1. Tells(scan[s], status[s], found[s], HostsOf(s), s \in hit)
    BY DEF RowInv, RowTold
  <2> QED BY <1>1, <2>1 DEF Tells
<1> QED BY <1>2 DEF RowTold

LEMMA RowToldStart ==
  ASSUME RowInv, NEW r \in Runs, StartRun(r)
  PROVE  RowTold'
<1>1. /\ scan' = [scan EXCEPT ![r] = [pc |-> "scan", left |-> {}, new |-> {}]]
      /\ status' = [status EXCEPT ![r] = "running"]
      /\ UNCHANGED <<found, hosts, hit>> /\ HostsOf(r)' = HostsOf(r)
  BY DEF StartRun, GoOn, HostsOf
<1>2. scan \in [Runs -> Scans] /\ status \in [Runs -> Statuses]
  BY DEF RowInv, TypeInv, TypeOK, Scans
<1>3. Tells(scan[r], status[r], found[r], HostsOf(r), r \in hit) /\ scan[r].pc = "none"
  BY DEF RowInv, RowTold, StartRun
<1>4. Tells(scan'[r], status'[r], found'[r], HostsOf(r)', r \in hit')
  BY <1>1, <1>2, <1>3 DEF Tells
<1> QED BY <1>1, <1>2, <1>4, RowToldFrame

LEMMA RowToldScan ==
  ASSUME RowInv, NEW r \in Runs, ScanStep(r)
  PROVE  RowTold'
<1> DEFINE told(sc, hs) == Tells(sc, status[r], found[r], hs, r \in hit)
           Goal         == Tells(scan'[r], status'[r], found'[r], HostsOf(r)', r \in hit')
<1>0. /\ scan \in [Runs -> Scans] /\ status \in [Runs -> Statuses]
      /\ found \in [Runs -> 0..Cardinality(Addrs)] /\ hosts \subseteq HostRows
      /\ told(scan[r], HostsOf(r))
  BY DEF RowInv, RowTold, TypeInv, TypeOK, Scans
<1>1. \A s \in Runs \ {r} : s \in hit' <=> s \in hit
  BY DEF ScanStep, Scan, Dedup, Persist, Close, NoFault, Hit
<1>2. r \in hit => r \in hit'
  BY DEF ScanStep, Scan, Dedup, Persist, Close, NoFault, Hit
\* A step that leaves the run's row as it is.
<1>3. ASSUME NEW pc, NEW left, NEW new, GoOn(r, pc, left, new), UNCHANGED <<status, found>>,
             scan[r].pc \in {"scan", "dedup", "persist"},
             \A s \in Runs \ {r}, a \in Addrs : <<s, a>> \in hosts' <=> <<s, a>> \in hosts,
             told([pc |-> pc, left |-> left, new |-> new], HostsOf(r)')
      PROVE  RowTold'
  <2>1. scan' = [scan EXCEPT ![r] = [pc |-> pc, left |-> left, new |-> new]]
    BY <1>3 DEF GoOn
  <2>2. Goal
    <3> DEFINE sc == [pc |-> pc, left |-> left, new |-> new]
    <3>1. scan'[r] = sc
      BY <1>0, <2>1
    <3>2. told(sc, HostsOf(r)')
      BY <1>3
    <3> HIDE DEF sc
    <3> QED BY <1>2, <1>3, <3>1, <3>2 DEF Tells
  <2> QED BY <1>0, <1>1, <1>3, <2>1, <2>2, RowToldFrame
<1>4. scan[r].pc \in {"scan", "dedup", "persist"} => status[r] = "running" /\ found[r] = 0
  BY <1>0 DEF Tells
<1>5. ASSUME scan[r].pc \in {"scan", "dedup", "persist"}, GoOn(r, "fail", {}, {}),
             UNCHANGED <<status, found, hosts>>
      PROVE  RowTold'
  <2>1. HostsOf(r)' = HostsOf(r)
    BY <1>5 DEF HostsOf
  <2>2. told([pc |-> "fail", left |-> {}, new |-> {}], HostsOf(r)')
    BY <1>4, <1>5, <2>1 DEF Tells
  <2> QED BY <1>3, <1>5, <2>2
<1>6. CASE Scan(r)
  <2>1. ASSUME NEW live \in SUBSET Addrs, GoOn(r, "dedup", live, {}) PROVE RowTold'
    <3>1. HostsOf(r)' = HostsOf(r) /\ scan[r].pc = "scan" /\ UNCHANGED <<status, found, hosts>>
      BY <1>6 DEF HostsOf, Scan
    <3>2. told([pc |-> "dedup", left |-> live, new |-> {}], HostsOf(r)')
      BY <1>0, <1>4, <3>1 DEF Tells
    <3> QED BY <1>3, <2>1, <3>1, <3>2
  <2> QED BY <1>5, <1>6, <2>1 DEF Scan
<1>7. CASE Dedup(r)
  <2>0. HostsOf(r)' = HostsOf(r) /\ scan[r].pc = "dedup" /\ UNCHANGED <<status, found, hosts>>
    BY <1>7 DEF HostsOf, Dedup
  <2>1. ASSUME NEW left, NEW new, GoOn(r, "dedup", left, new) PROVE RowTold'
    <3>1. told([pc |-> "dedup", left |-> left, new |-> new], HostsOf(r)')
      BY <1>0, <1>4, <2>0 DEF Tells
    <3> QED BY <1>3, <2>0, <2>1, <3>1
  <2>2. ASSUME GoOn(r, "persist", scan[r].new, scan[r].new) PROVE RowTold'
    <3>1. told([pc |-> "persist", left |-> scan[r].new, new |-> scan[r].new], HostsOf(r)')
      BY <1>0, <1>4, <2>0 DEF Tells
    <3> QED BY <1>3, <2>0, <2>2, <3>1
  <2> QED BY <1>5, <1>7, <2>0, <2>1, <2>2 DEF Dedup
<1>8. CASE Persist(r)
  <2>0. scan[r].pc = "persist" /\ UNCHANGED <<status, found>> /\ HostsOf(r) \cup scan[r].left = scan[r].new
    BY <1>0, <1>8 DEF Persist, Tells
  <2>1. CASE scan[r].left = {} /\ GoOn(r, "close", {}, scan[r].new) /\ UNCHANGED hosts
    <3>1. HostsOf(r)' = HostsOf(r)
      BY <2>1 DEF HostsOf
    <3>2. told([pc |-> "close", left |-> {}, new |-> scan[r].new], HostsOf(r)')
      BY <1>4, <2>0, <2>1, <3>1 DEF Tells
    <3> QED BY <1>3, <2>0, <2>1, <3>2
  <2>2. ASSUME NEW a \in scan[r].left, hosts' = hosts \cup {<<r, a>>},
               GoOn(r, "persist", scan[r].left \ {a}, scan[r].new)
        PROVE  RowTold'
    <3>1. a \in Addrs
      BY <1>0 DEF Scans
    <3>2. HostsOf(r)' = HostsOf(r) \cup {a}
      BY <2>2, <3>1 DEF HostsOf
    <3>3. told([pc |-> "persist", left |-> scan[r].left \ {a}, new |-> scan[r].new], HostsOf(r)')
      BY <1>4, <2>0, <3>2 DEF Tells
    <3>4. \A s \in Runs \ {r}, b \in Addrs : <<s, b>> \in hosts' <=> <<s, b>> \in hosts
      BY <2>2
    <3> QED BY <1>3, <2>0, <2>2, <3>3, <3>4
  <2> QED BY <1>5, <1>8, <2>0, <2>1, <2>2 DEF Persist
<1>9. CASE Close(r)
  <2>1. /\ scan' = [scan EXCEPT ![r] = [pc |-> "done", left |-> {}, new |-> {}]]
        /\ UNCHANGED hosts /\ HostsOf(r)' = HostsOf(r) /\ scan[r].pc \in {"close", "fail"}
    BY <1>9 DEF Close, GoOn, HostsOf
  <2>2. status[r] = "running" /\ found[r] = 0
    BY <1>0, <2>1 DEF Tells
  <2>3. CASE UNCHANGED <<status, found>> /\ Hit({r})
    <3>1. r \in hit'
      BY <2>3 DEF Hit
    <3>2. Goal
      BY <1>0, <2>1, <2>2, <2>3, <3>1 DEF Tells
    <3> QED BY <1>0, <1>1, <2>1, <2>3, <3>2, RowToldFrame
  <2>4. CASE /\ status' = [status EXCEPT ![r] = IF scan[r].pc = "fail" THEN "failed"
                                                ELSE IF scan[r].new = {} THEN "empty"
                                                ELSE "completed"]
             /\ found' = [found EXCEPT ![r] = Cardinality(scan[r].new)]
    <3>1. Cardinality({}) = 0
      BY FS_EmptySet
    <3>2. found'[r] = Cardinality(scan[r].new) /\ scan'[r].pc = "done"
      BY <1>0, <2>1, <2>4
    <3>3. CASE scan[r].pc = "fail"
      <4>1. scan[r].new = {} /\ status'[r] = "failed"
        BY <1>0, <2>4, <3>3 DEF Tells
      <4> QED BY <1>0, <1>1, <2>1, <2>4, <3>1, <3>2, <4>1, RowToldFrame DEF Tells
    <3>4. CASE scan[r].pc = "close"
      <4>1. /\ HostsOf(r)' = scan[r].new
            /\ status'[r] = IF scan[r].new = {} THEN "empty" ELSE "completed"
        BY <1>0, <2>1, <2>4, <3>4 DEF Tells
      <4>2. Goal
        BY <3>1, <3>2, <4>1 DEF Tells
      <4> QED BY <1>0, <1>1, <2>1, <2>4, <4>2, RowToldFrame
    <3> QED BY <2>1, <3>3, <3>4
  <2> QED BY <1>9, <2>3, <2>4 DEF Close
<1> QED BY <1>6, <1>7, <1>8, <1>9 DEF ScanStep

LEMMA RowToldOther ==
  ASSUME RowInv,
         \/ \E p \in Promoters : (\E r \in Runs : SelectHosts(p, r)) \/ Build(p) \/ Mark(p)
         \/ Crash
         \/ UNCHANGED vars
  PROVE  RowTold'
<1>1. /\ UNCHANGED <<status, found, hosts>>
      /\ \A r \in Runs : HostsOf(r)' = HostsOf(r)
  BY DEF SelectHosts, Build, Mark, Crash, vars, HostsOf
<1>2. CASE Crash
  <2>1. \A r \in Runs : IF Scanning(r) THEN r \in hit' /\ scan'[r].pc = "done"
                                       ELSE (r \in hit => r \in hit') /\ scan'[r] = scan[r]
    BY <1>2 DEF Crash, Hit
  <2> SUFFICES ASSUME NEW r \in Runs
               PROVE  Tells(scan'[r], status'[r], found'[r], HostsOf(r)', r \in hit')
    BY DEF RowTold
  <2>2. Tells(scan[r], status[r], found[r], HostsOf(r), r \in hit)
    BY DEF RowInv, RowTold
  <2>3. CASE Scanning(r)
    BY <1>1, <2>1, <2>2, <2>3 DEF Tells, Scanning
  <2>4. CASE ~Scanning(r)
    BY <1>1, <2>1, <2>2, <2>4 DEF Tells
  <2> QED BY <2>3, <2>4
<1>3. CASE ~Crash
  <2>1. scan' = scan /\ hit' = hit
    BY <1>3 DEF SelectHosts, Build, Mark, vars, NoFault, Hit
  <2> QED BY <1>1, <2>1 DEF RowInv, RowTold
<1> QED BY <1>2, <1>3

(* The row of a run tells what its scan has recorded, and one that says    *)
(* "running" has a goroutine or was struck by a fault (service.go,         *)
(* StartRun).                                                              *)
THEOREM RowsTell == Spec => []RunsTold
<1>1. Init => RowInv
  BY InitType, InitTodo, RowToldInit DEF RowInv, TypeInv
<1>2. RowInv /\ [Next]_vars => RowInv'
  BY NextType, RowToldStart, RowToldScan, RowToldOther DEF RowInv, Next
<1>3. RowInv => RunsTold
  <2> SUFFICES ASSUME RowInv, NEW r \in Runs
               PROVE  /\ status[r] = "completed" => HostsOf(r) # {} /\ found[r] = Cardinality(HostsOf(r))
                      /\ status[r] \in {"none", "empty"} => HostsOf(r) = {}
                      /\ status[r] \in {"empty", "failed"} => found[r] = 0
                      /\ status[r] = "running" => Scanning(r) \/ r \in hit
    BY DEF RunsTold
  <2> QED BY DEF RowInv, RowTold, Tells, Scanning
<1> QED
  BY <1>1, <1>2, <1>3, PTL DEF Spec
=============================================================================
