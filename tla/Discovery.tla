------------------------------ MODULE Discovery ------------------------------
(***************************************************************************)
(* internal/discovery: scans (StartRun) record the hosts they find unless  *)
(* an earlier scan has, and promotions (PromoteHosts) make devices of      *)
(* them.  Both run in request goroutines, any number at a time; one step   *)
(* is one database statement or one call of the scanner.                   *)
(***************************************************************************)
EXTENDS Integers, FiniteSets

CONSTANTS
  Addrs,      \* addresses that a scan can find
  Runs,       \* discovery_runs rows, each with the request that made it
  Promoters,  \* request goroutines that may be inside PromoteHosts at a time
  MaxDevices, \* bound: devices made of one host row
  MaxFaults   \* bound: database errors and crashes in a behaviour

ASSUME DiscoveryAssumption ==
  IsFiniteSet(Addrs) /\ MaxDevices \in Nat \ {0} /\ MaxFaults \in Nat

HostRows == Runs \X Addrs   \* a scan finds an address once: run and address name a row

VARIABLES
  status,   \* discovery_runs rows: the status column ("none": no row)
  found,    \* discovery_runs rows: hosts_found
  scan,     \* the goroutine of each run
  hosts,    \* discovered_hosts rows
  promoted, \* those with a promoted_to_device_id
  devices,  \* how many devices rows have been made of each host row
  pro,      \* what each promoter is doing
  met,      \* ghost: pairs of runs whose scans have overlapped
  shaky,    \* ghost: host rows selected by two promoters at a time, or whose
            \*        device was made and not recorded for a fault
  hit,      \* ghost: runs a database error or a crash has struck
  faults

vars == <<status, found, scan, hosts, promoted, devices, pro, met, shaky, hit, faults>>

Statuses   == {"none", "running", "completed", "empty", "failed"}
ScanPcs    == {"none", "scan", "dedup", "persist", "close", "fail", "done"}
NotCalled  == [pc |-> "idle"]
Promotions == [pc : {"build"}, run : Runs, todo : SUBSET Addrs]
                \cup [pc : {"mark"}, run : Runs, todo : SUBSET Addrs, at : Addrs]

Scanning(r)   == scan[r].pc \notin {"none", "done"}
HostsOf(r)    == {a \in Addrs : <<r, a>> \in hosts}
Todo(p)       == IF pro[p] = NotCalled THEN {} ELSE {pro[p].run} \X pro[p].todo
Unrecorded(p) == IF pro[p].pc = "mark" THEN {<<pro[p].run, pro[p].at>>} ELSE {}

Init ==
  /\ status = [r \in Runs |-> "none"]
  /\ found = [r \in Runs |-> 0]
  /\ scan = [r \in Runs |-> [pc |-> "none", left |-> {}, new |-> {}]]
  /\ hosts = {} /\ promoted = {}
  /\ devices = [h \in HostRows |-> 0]
  /\ pro = [p \in Promoters |-> NotCalled]
  /\ met = {} /\ shaky = {} /\ hit = {}
  /\ faults = 0

Hit(rs) == faults < MaxFaults /\ faults' = faults + 1 /\ hit' = hit \cup rs
NoFault == UNCHANGED <<faults, hit>>

-----------------------------------------------------------------------------
(* StartRun.                                                               *)

GoOn(r, pc, left, new) == scan' = [scan EXCEPT ![r] = [pc |-> pc, left |-> left, new |-> new]]

StartRun(r) ==
  /\ scan[r].pc = "none"
  /\ status' = [status EXCEPT ![r] = "running"]
  /\ GoOn(r, "scan", {}, {})
  /\ met' = met \cup {{r, s} : s \in {t \in Runs : Scanning(t)}}
  /\ UNCHANGED <<found, hosts, promoted, devices, pro, shaky, hit, faults>>

\* The scanner's result, or its error.
Scan(r) ==
  /\ scan[r].pc = "scan"
  /\ \/ \E live \in SUBSET Addrs : GoOn(r, "dedup", live, {})
     \/ GoOn(r, "fail", {}, {})
  /\ UNCHANGED <<status, found, hosts, promoted, devices, pro, met, shaky, hit, faults>>

\* Mutant: the hosts of this run alone are looked at.
DedupOwnRun(r) ==
  /\ scan[r].pc = "dedup"
  /\ \/ /\ scan[r].left = {}
        /\ GoOn(r, "persist", scan[r].new, scan[r].new) /\ NoFault
     \/ \E a \in scan[r].left :
          \/ /\ GoOn(r, "dedup", scan[r].left \ {a},
                     IF a \in HostsOf(r) THEN scan[r].new ELSE scan[r].new \cup {a})
             /\ NoFault
          \/ Hit({r}) /\ GoOn(r, "fail", {}, {})
  /\ UNCHANGED <<status, found, hosts, promoted, devices, pro, met, shaky>>

\* HostExistsByIP for each host, then on to the new ones.
Dedup(r) ==
  /\ scan[r].pc = "dedup"
  /\ \/ /\ scan[r].left = {}
        /\ GoOn(r, "persist", scan[r].new, scan[r].new) /\ NoFault
     \/ \E a \in scan[r].left :
          \/ /\ GoOn(r, "dedup", scan[r].left \ {a},
                     IF \E s \in Runs : a \in HostsOf(s) THEN scan[r].new
                                                         ELSE scan[r].new \cup {a})
             /\ NoFault
          \/ Hit({r}) /\ GoOn(r, "fail", {}, {})
  /\ UNCHANGED <<status, found, hosts, promoted, devices, pro, met, shaky>>

\* Mutant: a host that cannot be written is skipped.
PersistSkips(r) ==
  /\ scan[r].pc = "persist"
  /\ \/ scan[r].left = {} /\ GoOn(r, "close", {}, scan[r].new) /\ UNCHANGED hosts /\ NoFault
     \/ \E a \in scan[r].left :
          /\ GoOn(r, "persist", scan[r].left \ {a}, scan[r].new)
          /\ \/ hosts' = hosts \cup {<<r, a>>} /\ NoFault
             \/ Hit({r}) /\ UNCHANGED hosts
  /\ UNCHANGED <<status, found, promoted, devices, pro, met, shaky>>

\* The probe and CreateHost for each new host; rows written stay on failure.
Persist(r) ==
  /\ scan[r].pc = "persist"
  /\ \/ scan[r].left = {} /\ GoOn(r, "close", {}, scan[r].new) /\ UNCHANGED hosts /\ NoFault
     \/ \E a \in scan[r].left :
          \/ /\ hosts' = hosts \cup {<<r, a>>} /\ NoFault
             /\ GoOn(r, "persist", scan[r].left \ {a}, scan[r].new)
          \/ Hit({r}) /\ GoOn(r, "fail", {}, {}) /\ UNCHANGED hosts
  /\ UNCHANGED <<status, found, promoted, devices, pro, met, shaky>>

\* Mutant: the error return of a failed scan leaves the run's row as it is.
CloseUnlessFailed(r) ==
  /\ scan[r].pc \in {"close", "fail"}
  /\ IF scan[r].pc = "fail" THEN UNCHANGED <<status, found>>
     ELSE /\ status' = [status EXCEPT ![r] = IF scan[r].new = {} THEN "empty" ELSE "completed"]
          /\ found' = [found EXCEPT ![r] = Cardinality(scan[r].new)]
  /\ GoOn(r, "done", {}, {})
  /\ UNCHANGED <<hosts, promoted, devices, pro, met, shaky, hit, faults>>

\* Mutant: an empty result leaves the status blank.
CloseBlank(r) ==
  /\ scan[r].pc \in {"close", "fail"}
  /\ status' = [status EXCEPT ![r] = IF scan[r].pc = "fail" THEN "failed"
                                     ELSE IF scan[r].new = {} THEN "" ELSE "completed"]
  /\ found' = [found EXCEPT ![r] = Cardinality(scan[r].new)]
  /\ GoOn(r, "done", {}, {})
  /\ UNCHANGED <<hosts, promoted, devices, pro, met, shaky, hit, faults>>

\* The last UpdateRun, with the result or with the failure.
Close(r) ==
  /\ scan[r].pc \in {"close", "fail"}
  /\ \/ /\ status' = [status EXCEPT ![r] = IF scan[r].pc = "fail" THEN "failed"
                                           ELSE IF scan[r].new = {} THEN "empty"
                                           ELSE "completed"]
        /\ found' = [found EXCEPT ![r] = Cardinality(scan[r].new)]
        /\ NoFault
     \/ Hit({r}) /\ UNCHANGED <<status, found>>
  /\ GoOn(r, "done", {}, {})
  /\ UNCHANGED <<hosts, promoted, devices, pro, met, shaky>>

ScanStep(r) == Scan(r) \/ Dedup(r) \/ Persist(r) \/ Close(r)

-----------------------------------------------------------------------------
(* PromoteHosts: the hosts of the run as they are listed, all or those the *)
(* request names; then, for each one not yet promoted, the device and the  *)
(* mark on the host, in two statements.                                    *)

SelectHosts(p, r) ==
  /\ pro[p] = NotCalled
  /\ \E S \in SUBSET {a \in HostsOf(r) : <<r, a>> \notin promoted} :
       /\ S # {}
       /\ pro' = [pro EXCEPT ![p] = [pc |-> "build", run |-> r, todo |-> S]]
       /\ shaky' = shaky \cup (({r} \X S) \cap UNION {Todo(q) : q \in Promoters \ {p}})
  /\ UNCHANGED <<status, found, scan, hosts, promoted, devices, met, hit, faults>>

Build(p) ==
  /\ pro[p].pc = "build"
  /\ \/ \E a \in pro[p].todo :
          LET h == <<pro[p].run, a>> IN
          /\ devices[h] < MaxDevices
          /\ devices' = [devices EXCEPT ![h] = @ + 1]
          /\ pro' = [pro EXCEPT ![p] = [pc |-> "mark", run |-> @.run, todo |-> @.todo, at |-> a]]
          /\ NoFault
     \/ Hit({}) /\ pro' = [pro EXCEPT ![p] = NotCalled] /\ UNCHANGED devices
  /\ UNCHANGED <<status, found, scan, hosts, promoted, met, shaky>>

Rest(p) == LET j == pro[p]
               left == j.todo \ {j.at}
           IN  IF left = {} THEN NotCalled ELSE [pc |-> "build", run |-> j.run, todo |-> left]

\* Mutant: the mark is made on a copy of the host.
MarkCopy(p) ==
  /\ pro[p].pc = "mark"
  /\ pro' = [pro EXCEPT ![p] = Rest(p)]
  /\ UNCHANGED <<status, found, scan, hosts, promoted, devices, met, shaky, hit, faults>>

Mark(p) ==
  /\ pro[p].pc = "mark"
  /\ \/ /\ promoted' = promoted \cup Unrecorded(p)
        /\ pro' = [pro EXCEPT ![p] = Rest(p)]
        /\ UNCHANGED shaky /\ NoFault
     \/ /\ Hit({}) /\ pro' = [pro EXCEPT ![p] = NotCalled]
        /\ shaky' = shaky \cup Unrecorded(p)
        /\ UNCHANGED promoted
  /\ UNCHANGED <<status, found, scan, hosts, devices, met>>

\* The process dies; the rows stay.
Crash ==
  /\ (\E r \in Runs : Scanning(r)) \/ (\E p \in Promoters : pro[p] # NotCalled)
  /\ Hit({r \in Runs : Scanning(r)})
  /\ scan' = [r \in Runs |-> IF Scanning(r) THEN [pc |-> "done", left |-> {}, new |-> {}]
                             ELSE scan[r]]
  /\ pro' = [p \in Promoters |-> NotCalled]
  /\ shaky' = shaky \cup UNION {Unrecorded(p) : p \in Promoters}
  /\ UNCHANGED <<status, found, hosts, promoted, devices, met>>

Next ==
  \/ \E r \in Runs : StartRun(r) \/ ScanStep(r)
  \/ \E p \in Promoters : (\E r \in Runs : SelectHosts(p, r)) \/ Build(p) \/ Mark(p)
  \/ Crash

Spec == Init /\ [][Next]_vars

(* A request that has started goes on; the scanner has a time limit.       *)
FairSpec == Spec /\ \A r \in Runs : WF_vars(ScanStep(r))

-----------------------------------------------------------------------------
(* Every variable holds what the code can put in it.                       *)
TypeOK ==
  /\ status \in [Runs -> Statuses]
  /\ found \in [Runs -> 0..Cardinality(Addrs)]
  /\ scan \in [Runs -> [pc : ScanPcs, left : SUBSET Addrs, new : SUBSET Addrs]]
  /\ hosts \subseteq HostRows /\ promoted \subseteq hosts
  /\ devices \in [HostRows -> 0..MaxDevices]
  /\ pro \in [Promoters -> {NotCalled} \cup Promotions]
  /\ met \subseteq SUBSET Runs /\ shaky \subseteq HostRows /\ hit \subseteq Runs
  /\ faults \in 0..MaxFaults

(***************************************************************************)
(* repository.go:163-166, the "Result deduplication across scans" rule: an *)
(* address has rows in two runs only if their scans overlapped.            *)
(***************************************************************************)
DuplicatesOverlapped ==
  \A r, s \in Runs : r # s /\ HostsOf(r) \cap HostsOf(s) # {} => {r, s} \in met

(***************************************************************************)
(* service.go:268-273, "a host that has already been promoted is skipped   *)
(* on subsequent calls": a host that no two requests promote at the same   *)
(* time, and whose mark no fault prevents, never becomes two devices, and  *)
(* a promoted one is a device, whatever happens to other hosts.            *)
(***************************************************************************)
OneDevicePerHost ==
  \A h \in hosts \ shaky :
    /\ devices[h] <= 1
    /\ devices[h] = 1 <=> \/ h \in promoted
                          \/ \E p \in Promoters : h \in Unrecorded(p)

(***************************************************************************)
(* A run's row tells what its scan did: what it counts is there, an empty  *)
(* run has no rows, and one that is still "running" has a goroutine, or    *)
(* was struck by a fault that kept its end from being written.             *)
(***************************************************************************)
RunsTold ==
  \A r \in Runs :
    /\ status[r] = "completed" => HostsOf(r) # {} /\ found[r] = Cardinality(HostsOf(r))
    /\ status[r] \in {"none", "empty"} => HostsOf(r) = {}
    /\ status[r] \in {"empty", "failed"} => found[r] = 0
    /\ status[r] = "running" => Scanning(r) \/ r \in hit

(* Every run ends, its row closed unless a fault prevented that.           *)
RunsClose ==
  \A r \in Runs : status[r] = "running" ~> status[r] # "running" \/ r \in hit
=============================================================================
