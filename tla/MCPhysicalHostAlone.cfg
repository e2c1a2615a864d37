\* Two hosts, one request at a time and no loop, no fault: operations do not
\* overlap, and the service is the atomic HostLifecycle.
SPECIFICATION Spec
CONSTANTS
  Hosts = {h1, h2}
  Addrs = {a1, a2}
  Threshold = 2
  MaxFails = 2
  StateOverrides = {"online", "maintenance"}
  Loops = {}
  Requests = {r1}
  MaxFaults = 0
INVARIANTS AuditTellsMaintenance
PROPERTIES AtomicSpec
