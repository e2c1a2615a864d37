\* One host; the monitor loop, one request at a time, one fault: every race
\* between a check and a request, and a crash in the middle of either.  A
\* counter past the threshold acts as one that has reached it (MaxFails).
SPECIFICATION FairSpec
CONSTANTS
  Hosts = {h1}
  Addrs = {a1, a2}
  Threshold = 2
  MaxFails = 2
  StateOverrides = {"maintenance", "offline"}
  Loops = {loop}
  Requests = {r1}
  MaxFaults = 1
INVARIANTS TypeOK RowsConsistent
PROPERTIES OnlyOvertakenSavesDiffer DownHostsGoOffline UpHostsComeOnline
