---------------------------- MODULE MCServices ----------------------------
(***************************************************************************)
(* The services that share no state with each other, checked side by side: *)
(* a behaviour follows one of them, chosen in its first state, and leaves  *)
(* the variables of the others at their start.                             *)
(***************************************************************************)
EXTENDS
  BoundedSink, HubRegistry, LogStream, Alerts, ProjectAccess, Clusters,
  ServiceCatalog, Devices, MetricsCache, Login, LogStore, Server, Health,
  PodCalls, Listings

\* Requests, clients and instants the steps below name.
ASSUME ServicesAssumption == Requests # {} /\ Clients # {} /\ {1, 2} \subseteq Instants

VARIABLE on   \* the service followed

vars == <<on,
          sinkVars, regVars, logVars, alertVars, accessVars, clusterVars,
          catalogVars, deviceVars, cacheVars, loginVars, logStoreVars,
          serverVars, healthVars, podVars, listingVars>>

(* A step of one service.                                                  *)
Sink(step) ==
  /\ on = "sink" /\ step /\ UNCHANGED <<on,
       regVars, logVars, alertVars, accessVars, clusterVars, catalogVars,
       deviceVars, cacheVars, loginVars, logStoreVars, serverVars, healthVars,
       podVars, listingVars>>
Sockets(step) ==
  /\ on = "hub" /\ step /\ UNCHANGED <<on,
       sinkVars, logVars, alertVars, accessVars, clusterVars, catalogVars,
       deviceVars, cacheVars, loginVars, logStoreVars, serverVars, healthVars,
       podVars, listingVars>>
Stream(step) ==
  /\ on = "stream" /\ step /\ UNCHANGED <<on,
       sinkVars, regVars, alertVars, accessVars, clusterVars, catalogVars,
       deviceVars, cacheVars, loginVars, logStoreVars, serverVars, healthVars,
       podVars, listingVars>>
Alerting(step) ==
  /\ on = "alerts" /\ step /\ UNCHANGED <<on,
       sinkVars, regVars, logVars, accessVars, clusterVars, catalogVars,
       deviceVars, cacheVars, loginVars, logStoreVars, serverVars, healthVars,
       podVars, listingVars>>
Asking(step) ==
  /\ on = "access" /\ step /\ UNCHANGED <<on,
       sinkVars, regVars, logVars, alertVars, clusterVars, catalogVars,
       deviceVars, cacheVars, loginVars, logStoreVars, serverVars, healthVars,
       podVars, listingVars>>
Managing(step) ==
  /\ on = "clusters" /\ step /\ UNCHANGED <<on,
       sinkVars, regVars, logVars, alertVars, accessVars, catalogVars,
       deviceVars, cacheVars, loginVars, logStoreVars, serverVars, healthVars,
       podVars, listingVars>>
Browsing(step) ==
  /\ on = "catalog" /\ step /\ UNCHANGED <<on,
       sinkVars, regVars, logVars, alertVars, accessVars, clusterVars,
       deviceVars, cacheVars, loginVars, logStoreVars, serverVars, healthVars,
       podVars, listingVars>>
Editing(step) ==
  /\ on = "devices" /\ step /\ UNCHANGED <<on,
       sinkVars, regVars, logVars, alertVars, accessVars, clusterVars,
       catalogVars, cacheVars, loginVars, logStoreVars, serverVars,
       healthVars, podVars, listingVars>>
Viewing(step) ==
  /\ on = "metrics" /\ step /\ UNCHANGED <<on,
       sinkVars, regVars, logVars, alertVars, accessVars, clusterVars,
       catalogVars, deviceVars, loginVars, logStoreVars, serverVars,
       healthVars, podVars, listingVars>>
Signing(step) ==
  /\ on = "login" /\ step /\ UNCHANGED <<on,
       sinkVars, regVars, logVars, alertVars, accessVars, clusterVars,
       catalogVars, deviceVars, cacheVars, logStoreVars, serverVars,
       healthVars, podVars, listingVars>>
Searching(step) ==
  /\ on \in {"logs", "log rows"} /\ step /\ UNCHANGED <<on,
       sinkVars, regVars, logVars, alertVars, accessVars, clusterVars,
       catalogVars, deviceVars, cacheVars, loginVars, serverVars, healthVars,
       podVars, listingVars>>
Serving(step) ==
  /\ on = "server" /\ step /\ UNCHANGED <<on,
       sinkVars, regVars, logVars, alertVars, accessVars, clusterVars,
       catalogVars, deviceVars, cacheVars, loginVars, logStoreVars,
       healthVars, podVars, listingVars>>
Checking(step) ==
  /\ on = "health" /\ step /\ UNCHANGED <<on,
       sinkVars, regVars, logVars, alertVars, accessVars, clusterVars,
       catalogVars, deviceVars, cacheVars, loginVars, logStoreVars,
       serverVars, podVars, listingVars>>
Entering(step) ==
  /\ on = "pods" /\ step /\ UNCHANGED <<on,
       sinkVars, regVars, logVars, alertVars, accessVars, clusterVars,
       catalogVars, deviceVars, cacheVars, loginVars, logStoreVars,
       serverVars, healthVars, listingVars>>
Paging(step) ==
  /\ on = "listings" /\ step /\ UNCHANGED <<on,
       sinkVars, regVars, logVars, alertVars, accessVars, clusterVars,
       catalogVars, deviceVars, cacheVars, loginVars, logStoreVars,
       serverVars, healthVars, podVars>>

(* Where a service starts in one of several states, those are told apart   *)
(* in the behaviours that follow it only.                                  *)
ServicesInit ==
  /\ on \in {"sink", "hub", "stream", "alerts", "access", "clusters",
            "catalog", "devices", "metrics", "login", "logs", "log rows",
            "server", "health", "pods", "listings"}
  /\ SinkInit /\ RegistryInit /\ StreamInit /\ AlertsInit /\ AccessInit
  /\ ClustersInit /\ CatalogInit /\ DevicesInit /\ MetricsInit /\ LoginInit
  /\ LogStoreInit /\ ServerInit /\ HealthInit /\ PodsInit /\ ListingsInit
  /\ on # "sink" => kind = "audit"
  /\ on # "stream" => endpoint = "ws"
  /\ on # "access" \/ ~getter => dialect = "sqlite"
  /\ on # "access" => getter
  /\ on # "login" => directory = "fake" /\ \A p \in People : roleOf[p] = CHOOSE r \in Roles : TRUE
  /\ IF on = "health" THEN "db" \in configured ELSE configured = {}
  /\ (on # "pods" => running = {})
  /\ (on # "listings" => listing = "audit")

(* Requests, and clients, are alike: the first of them fires the one alert, *)
(* and connects before the other does.                                     *)
First(S) == CHOOSE x \in S : TRUE
Upgrading(c) == c = First(Clients) \/ reader[First(Clients)].pc # "none"

SinkMoves ==
  \/ \E c \in Callers : Sink(alive /\ Call(c)) \/ Sink(alive /\ Send(c))
  \/ \E w \in Workers : Sink(alive /\ Take(w)) \/ Sink(alive /\ WriteEntry(w)) \/ Sink(alive /\ LookIfTold(w))
  \/ \E w \in Workers : Sink(alive /\ Stop(w)) \/ Sink(alive /\ LeaveWorker(w))
  \/ \E c \in Closers : Sink(alive /\ BeginClose(c)) \/ Sink(Closing(c))
  \/ Sink(Exit)

SocketsMove ==
  \/ \E c \in Clients : Sockets(Upgrading(c) /\ Upgrade(c)) \/ Sockets(SubscribeRegistry(c)) \/ Sockets(UnsubscribeRegistry(c))
  \/ \E c \in Clients : Sockets(ReadEnds(c)) \/ Sockets(Unregister(c)) \/ Sockets(RemoveAll(c))
  \/ \E c \in Clients : Sockets(WriteFrame(c)) \/ Sockets(WriteEnds(c)) \/ Sockets(BroadcastSend(c))
  \/ \E c \in Clients, t \in Topics : Sockets(SubscribeOwn(c, t)) \/ Sockets(UnsubscribeOwn(c, t))
  \/ \E t \in Topics : Sockets(BroadcastSnapshot(t))
  \/ \E c \in Clients : Sockets(ShutdownForget(c))
  \/ Sockets(ShutdownSnapshot) \/ Sockets(ShutdownRemove) \/ Sockets(ShutdownClose)

StreamMoves ==
  \/ Stream(Open) \/ Stream(TakeLine) \/ Stream(SourceEnds) \/ Stream(ToFan) \/ Stream(StreamerReturns)
  \/ Stream(FanPublish) \/ Stream(FanPersist) \/ Stream(ToHandler) \/ Stream(FanReturns)
  \/ Stream(HandlerWrites) \/ Stream(HandlerWriteFails) \/ Stream(HandlerReturns)
  \/ Stream(ClientLeaves) \/ Stream(RequestDone)

AlertsMove ==
  \/ \E a \in AlertIds, s \in {"host", "other"}, l \in Lists : Alerting(Fire(First(Requests), a, s, l))
  \/ \E r \in Requests : Alerting(LookAtHost(r)) \/ Alerting(Stamp(r)) \/ Alerting(DispatchLog(r))
  \/ \E r \in Requests : Alerting(Dispatch(r)) \/ Alerting(ReturnCall(r))
  \/ \E r \in Requests, a \in AlertIds, o \in {"acknowledge", "resolve"} : Alerting(LoadAlert(r, a, o))
  \/ \E r \in Requests : Alerting(WriteAlert(r)) \/ Alerting(UpdateChannel(r))
  \/ \E a \in AlertIds : Alerting(DeleteAlert(a))
  \/ \E h \in ChannelIds, b \in BOOLEAN : Alerting(CreateChannel(h, b))
  \/ \E r \in Requests, h \in ChannelIds, b \in BOOLEAN : Alerting(LoadChannel(r, h, b))
  \/ \E h \in ChannelIds : Alerting(DeleteChannel(h))
  \/ Alerting(Maintain) \/ Alerting(AlertsCrash)

AccessMoves ==
  \/ \E u \in Users \cup {Admin}, k \in Kinds, l \in SeqOf(Projects, MaxList), t \in Users :
       \E r \in RolesOf(u) : Asking(Begin(u, r, k, l, t))
  \/ Asking(Gate) \/ Asking(GateLinks) \/ Asking(GateAny)
  \/ Asking(CheckDevice) \/ Asking(CheckProject)
  \/ Asking(WriteProject) \/ Asking(WriteStops) \/ Asking(ReturnOp)
  \/ \E p \in Projects, u \in Users : Asking(OtherMember(p, u))
  \/ \E p \in Projects : Asking(OtherLink(p))
  \/ \E x \in Projects \cup {Device} : Asking(Vanish(x))

ClustersMove ==
  \/ \E q \in Askers, n \in ClusterNames, t \in Texts : Managing(AskCreate(q, n, t))
  \/ \E q \in Askers, c \in ClusterIds, n \in ClusterNames, t \in Texts : Managing(AskUpdate(q, c, n, t))
  \/ \E q \in Askers, c \in ClusterIds : Managing(Delete(q, c))
  \/ \E q \in Askers, c \in ClusterIds, p \in {"connected", "disconnected"} : Managing(AskProbe(q, c, p))
  \/ \E q \in Askers, g \in Registries, c \in ClusterIds : Managing(AskClient(q, g, c))
  \/ \E q \in Askers : Managing(Insert(q)) \/ Managing(LookForName(q)) \/ Managing(FindAgain(q))
  \/ \E q \in Askers : Managing(Save(q)) \/ Managing(UpdateStatus(q))
  \/ \E q \in Askers : Managing(BuildClient(q)) \/ Managing(KeepClient(q))
  \/ Managing(ClustersRestart)

CatalogMoves ==
  \/ \E u \in Visitors, s \in ServiceIds, n \in ServiceNames :
       Browsing(CreateService(u, s, n)) \/ Browsing(AskRename(u, s, n))
  \/ \E u \in Visitors, s \in ServiceIds : Browsing(SoftDelete(u, s)) \/ Browsing(AskNote(u, s)) \/ Browsing(AskHealth(u, s))
  \/ \E u \in Visitors, s \in ServiceIds, g \in {"service", "global"}, p \in Spans : Browsing(AskShift(u, s, g, p))
  \/ \E u \in Visitors, s \in ServiceIds, i \in ShiftIds : Browsing(AskDropShift(u, s, i))
  \/ \E u \in Visitors, s \in ServiceIds, i \in NoteIds : Browsing(AskDropNote(u, s, i))
  \/ \E u \in Visitors : Browsing(UpdateService(u)) \/ Browsing(Reset(u)) \/ Browsing(CheckOverlap(u))
  \/ \E u \in Visitors : Browsing(CreateOnCall(u)) \/ Browsing(DeleteOnCall(u))
  \/ \E u \in Visitors : Browsing(CreateRunbook(u)) \/ Browsing(DeleteRunbook(u))
  \/ \E u \in Visitors, h \in Healths : Browsing(Record(u, h))
  \/ Browsing(CatalogRestart)

DevicesMove ==
  \/ \E w \in Editors, i \in RowIds, s \in States : Editing(CreateDevice(w, i, s))
  \/ \E w \in Editors, i \in RowIds, v \in Values("group") :
       Editing(CreateGroup(w, i, v)) \/ Editing(CreateTemplate(w, i, v))
  \/ \E w \in Editors, i \in RowIds : Editing(UpdateDevice(w, i)) \/ Editing(DeleteDevice(w, i))
  \/ \E w \in Editors, i \in RowIds : Editing(UpdateGroup(w, i)) \/ Editing(DeleteGroup(w, i))
  \/ \E w \in Editors, i \in RowIds : Editing(UpdateTemplate(w, i)) \/ Editing(DeleteTemplate(w, i))
  \/ \E w \in Editors, i \in RowIds :
       Editing(EnterMaintenance(w, <<"device", i>>)) \/ Editing(ExitMaintenance(w, <<"device", i>>))
  \/ \E w \in Editors : Editing(FindRow(w)) \/ Editing(SaveRow(w))

CacheMoves ==
  \/ \E v \in Viewers, h \in CachedHosts : Viewing(FindHost(v, h))
  \/ \E v \in Viewers : Viewing(Lookup(v)) \/ Viewing(Collect(v)) \/ Viewing(Store(v)) \/ Viewing(Show(v))
  \/ \E h \in CachedHosts : Viewing(DropHost(h))
  \/ Viewing(Passes)

LoginMoves ==
  \/ \E l \in Logins, p \in People : Signing(CheckLimit(l, p))
  \/ \E l \in Logins, b \in BOOLEAN : Signing(AskDirectory(l, b))
  \/ \E l \in Logins : Signing(RecordFailure(l)) \/ Signing(RecordSuccess(l))
  \/ \E t \in tokens, p \in Needed : Signing(Admit(t, p))
  \/ Signing(LoginRestart) \/ Signing(ClockTicks)

\* Lines, and the rows, which share no state: each half is followed by itself.
Lines(step) == Searching(on = "logs" /\ step)
OfRows(step) == Searching(on = "log rows" /\ step)

LogsMove ==
  \/ Lines(AppendLine) \/ Lines(SecondPasses)
  \/ \E b \in BOOLEAN : Lines(FileGrows(b))
  \/ \E s \in Searchers, w \in Windows : Lines(Query(s, w))
  \/ \E s \in Searchers : Lines(Peek(s)) \/ Lines(Scan(s)) \/ Lines(ScanFails(s)) \/ Lines(AnswerSearch(s))
  \/ \E s \in Searchers : OfRows(GetRetention(s)) \/ OfRows(LookAgain(s)) \/ OfRows(Seed(s)) \/ OfRows(SeedFails(s))
  \/ \E p \in Policies : OfRows(SetRetention(p))
  \/ \E r \in SavedRows : OfRows(SaveLogRow(r)) \/ OfRows(DeleteLogRow(r))

ServerMoves ==
  \/ Serving(RefuseToStart) \/ Serving(Register) \/ Serving(Listen) \/ Serving(ListenFails)
  \/ \E v \in Visits, m \in Visited : Serving(Arrive(v, m))
  \/ \E v \in Visits : Serving(Respond(v)) \/ Serving(Hijack(v)) \/ Serving(SocketCloses(v))
  \/ Serving(Signal) \/ Serving(LoopEnds) \/ Serving(Shutdown)
  \/ Serving(Drained) \/ Serving(Wait) \/ Serving(GiveUp)

HealthMoves ==
  \/ Checking(Run) \/ Checking(ListClusters) \/ Checking(RollUp) \/ Checking(Report)
  \/ \E d \in Dependencies : Checking(Skip(d)) \/ Checking(Answer(d)) \/ Checking(GivesUp(d))
  \/ \E id \in Reachable : Checking(Ping(id))
  \/ Checking(HealthTick) \/ Checking(Leaves)

PodsMove ==
  \/ \E t \in Timeouts : Entering(AskExec(t))
  \/ \E t \in {"unset", "within", "outside"}, s \in {"unset", "within", "beyond"} : Entering(AskLogs(t, s))
  \/ Entering(Resolve) \/ Entering(OpenStream) \/ Entering(StreamEnds) \/ Entering(AuditWrites) \/ Entering(StreamBreaks)
  \/ \E c \in Codes : Entering(CommandEnds(c))
  \/ Entering(ListPods) \/ Entering(FetchPod) \/ Entering(AnswerLogs)
  \/ \E p \in Pods : Entering(PodChanges(p))
  \/ Entering(ExecTick) \/ Entering(ClientGoes)

ListingMoves ==
  \/ \E r \in {x \in ListedRows : x.at = 2 => x.of = NoTenant} : Paging(Ingest(r))
  \/ \E p \in Tenants : Paging(JoinOrLeave(p))
  \/ \E n \in {0, PageSize}, s \in {"all", "mine"}, b \in {<<0, 0>>, <<2, 0>>, <<1, 2>>} :
       Paging(AskFirst(n, b[1], b[2], s))
  \/ Paging(AskNext) \/ Paging(LoadMembers) \/ Paging(CountRows)
  \/ Paging(FindRows) \/ Paging(Leave)

ServicesNext ==
  \/ SinkMoves \/ SocketsMove \/ StreamMoves \/ AlertsMove \/ AccessMoves
  \/ ClustersMove \/ CatalogMoves \/ DevicesMove \/ CacheMoves \/ LoginMoves
  \/ LogsMove \/ ServerMoves \/ HealthMoves \/ PodsMove \/ ListingMoves

(* The fairness of each service is its own: what it lets wait for ever is  *)
(* not enabled while another service is followed.                          *)
ServicesSpec ==
  /\ ServicesInit /\ [][ServicesNext]_vars
  /\ SinkFairness /\ RegistryFairness /\ StreamFairness /\ ServerFairness

-----------------------------------------------------------------------------
(* Every variable of every service holds what the code can put in it.      *)
ServicesTypeOK ==
  /\ SinkTypeOK /\ RegistryTypeOK /\ StreamTypeOK /\ AlertsTypeOK /\ AccessTypeOK
  /\ ClustersTypeOK /\ CatalogTypeOK /\ DevicesTypeOK
  /\ MetricsTypeOK /\ LoginTypeOK /\ LogStoreTypeOK /\ ServerTypeOK
  /\ HealthTypeOK /\ PodsTypeOK /\ ListingsTypeOK

(* What WebSocket clients are subscribed to is what they asked for (hub),  *)
(* and a pod's lines reach them in order and without a gap (log streams).  *)
SocketsTold == RegistryFollowsClients /\ LinesReachClient

(* Only members link hosts to projects and see them, and success is true;  *)
(* nobody is turned away from login, or let in with a token, without a     *)
(* reason; and a role above another keeps its permissions, but one.        *)
AccessTold == MembershipTold /\ LoginTold /\ RanksKeepPermissions

(* Shifts that overlap were not there at each other's check, and the       *)
(* gauge of a deleted service is explained; a list that is read page by    *)
(* page (metrics, audit trail) leaves no row out that was there, and shows *)
(* none twice, unless something came in between.                           *)
CatalogTold == ShiftsTold /\ PagesTold

(* What the three caches answer (the clients of clusters, the metrics of   *)
(* hosts, the lines of logs) has been so since the oldest copy kept was    *)
(* made, and what has a life is not older than it.                         *)
CachesTold == ClientsTold /\ CacheTold /\ LogsTold

(* Nothing but a WebSocket is cut off before the grace of a shutdown is    *)
(* over, nothing is called down without a reason by a probe, and what a    *)
(* command in a pod answered is its own and was handed to the audit.       *)
ProcessTold == ServerTold /\ ReportTold /\ PodsTold

(* Again and again nothing is owed: accepted entries are written and Close *)
(* returns, broken clients have left the hub, ended streams have left no   *)
(* goroutine behind, and a signal has ended the process.                   *)
ServicesSettle == []<>(SinkSettled /\ RegistrySettled /\ StreamSettled /\ ServerSettled)
============================================================================
