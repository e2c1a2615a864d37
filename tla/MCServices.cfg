\* Small instances of each service; README.md says what fits in them.
SPECIFICATION ServicesSpec
CONSTANTS
  Callers = {p1, p2}  Workers = {w1, w2}  Closers = {c1, c2}  Cap = 1  MaxEntries = 3
  Clients = {c1, c2}  Topics = {alert, log}
  MaxConnections = 1  MaxChannels = 1  OutBuffer = 1
  MaxLines = 4  Backpressure = 2
  Requests = {r1, r2}  AlertIds = {a1}  ChannelIds = {h1}  MaxNamed = 1
  Users = {u1}  Projects = {p1, p2}  MaxList = 2  MaxTouched = 2
  ClusterIds = {k1, k2}  ClusterNames = {n1, n2}  Kubeconfigs = {y1}
  Askers = {q1, q2}  MaxAsked = 2
  ServiceIds = {s1}  ServiceNames = {n1, n2}  ShiftIds = {i1, i2}  NoteIds = {e1}
  Visitors = {u1, u2}  MaxUses = 3
  RowIds = {r1}  Editors = {w1, w2}  MaxWrites = 4
  CachedHosts = {h1, h2}  Viewers = {v1, v2}  Life = 2  MaxCached = 1  MaxTime = 2
  People = {m1}  Roles = {"Operator", "Developer"}  Needed = {"k8s.pods.exec", "services.view"}  Logins = {l1, l2}
  MaxFails = 2  Window = 1  TokenLife = 1  MaxTicks = 2  MaxTries = 4
  Searchers = {q1, q2}  Policies = {y1}  SavedRows = {w1}
  CacheLife = 2  MaxFile = 2  MaxEcho = 1  MaxSeconds = 3
  Visits = {v1, v2}  Visited = {"alerts", "catalog", "logs", "streams"}  Grace = 2  MaxFaults = 1
  Reachable = {k1, k2}  CheckCap = 1
  Serials = {1, 2, 3}  Instants = {1, 2}  Tenants = {p1}  PageSize = 1  MaxRange = 0
  Pods = {p1, p2, p3}  MaxPods = 2  DefaultTimeout = 1  LongTimeout = 2
INVARIANTS
  ServicesTypeOK OnlyLateEntriesStay SocketsTold SuppressionTold AccessTold CatalogTold
  CachesTold ProcessTold
PROPERTIES SinkKeepsPromise RowsTold ServicesSettle
CHECK_DEADLOCK FALSE
