\* Two scans and two promotions at a time over two addresses, one fault.
SPECIFICATION FairSpec
CONSTANTS
  Addrs = {a1, a2}
  Runs = {r1, r2}
  Promoters = {p1, p2}
  MaxDevices = 2
  MaxFaults = 1
INVARIANTS TypeOK DuplicatesOverlapped OneDevicePerHost RunsTold
PROPERTIES RunsClose
CHECK_DEADLOCK FALSE
