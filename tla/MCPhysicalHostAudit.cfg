\* The monitor loop beside one request, no fault: is the audit trail right?
SPECIFICATION Spec
CONSTANTS
  Hosts = {h1}
  Addrs = {a1}
  Threshold = 2
  MaxFails = 2
  StateOverrides = {}
  Loops = {loop}
  Requests = {r1}
  MaxFaults = 0
INVARIANTS AuditTellsMaintenance
