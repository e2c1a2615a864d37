--------------------------- MODULE ServicesProofs ---------------------------
(***************************************************************************)
(* Proofs about MCServices: side by side, every service follows its own    *)
(* specification, so that what StreamsProofs and TablesProofs prove about  *)
(* each of them holds of what the run checks.                              *)
(***************************************************************************)
EXTENDS MCServices, StreamsProofs, TablesProofs

-----------------------------------------------------------------------------
(* A move of a service is a step of its own specification.                 *)

LEMMA FirstRequest == First(Requests) \in Requests
  BY ServicesAssumption DEF First

LEMMA SinkMovesIsStep == SinkMoves => Sink(SinkNext)
  BY DEF SinkMoves, Sink, SinkNext, Work, Closing

LEMMA SocketsMoveIsStep == SocketsMove => Sockets(RegistryNext)
  BY DEF SocketsMove, Sockets, RegistryNext, Upgrading, ReadPump

LEMMA StreamMovesIsStep == StreamMoves => Stream(StreamNext)
  BY DEF StreamMoves, Stream, StreamNext, Streamer, Fan, Handler

LEMMA AlertsMoveIsStep == AlertsMove => Alerting(AlertsNext)
  BY FirstRequest DEF AlertsMove, Alerting, AlertsNext

LEMMA AccessMovesIsStep == AccessMoves => Asking(AccessNext)
  BY DEF AccessMoves, Asking, AccessNext, Checks

LEMMA ClustersMoveIsStep == ClustersMove => Managing(ClustersNext)
  BY DEF ClustersMove, Managing, ClustersNext

LEMMA CatalogMovesIsStep == CatalogMoves => Browsing(CatalogNext)
  BY DEF CatalogMoves, Browsing, CatalogNext

LEMMA DevicesMoveIsStep == DevicesMove => Editing(DevicesNext)
<1>1. ASSUME NEW w \in Editors, NEW i \in RowIds, NEW s \in States, CreateDevice(w, i, s)
      PROVE  DevicesNext
  BY <1>1 DEF DevicesNext
<1>2. ASSUME NEW w \in Editors, NEW i \in RowIds, NEW v \in Values("group"), CreateGroup(w, i, v)
      PROVE  DevicesNext
  BY <1>2 DEF DevicesNext
<1>3. ASSUME NEW w \in Editors, NEW i \in RowIds, NEW v \in Values("group"), CreateTemplate(w, i, v)
      PROVE  DevicesNext
  <2>1. Values("group") = Values("template")
    BY DEF Values
  <2> QED
    BY <1>3, <2>1 DEF DevicesNext
<1>4. ASSUME NEW w \in Editors, NEW i \in RowIds,
             \/ UpdateDevice(w, i) \/ DeleteDevice(w, i) \/ UpdateGroup(w, i) \/ DeleteGroup(w, i)
             \/ UpdateTemplate(w, i) \/ DeleteTemplate(w, i)
             \/ EnterMaintenance(w, <<"device", i>>) \/ ExitMaintenance(w, <<"device", i>>)
      PROVE  DevicesNext
  BY <1>4 DEF DevicesNext
<1>5. ASSUME NEW w \in Editors, FindRow(w) \/ SaveRow(w) PROVE DevicesNext
  BY <1>5 DEF DevicesNext
<1> QED
  BY <1>1, <1>2, <1>3, <1>4, <1>5 DEF DevicesMove, Editing

LEMMA CacheMovesIsStep == CacheMoves => Viewing(MetricsNext)
  BY DEF CacheMoves, Viewing, MetricsNext

LEMMA LoginMovesIsStep == LoginMoves => Signing(LoginNext)
  BY DEF LoginMoves, Signing, LoginNext

LEMMA LogsMoveIsStep == LogsMove => Searching(LogStoreNext)
  BY DEF LogsMove, Lines, OfRows, Searching, LogStoreNext

LEMMA ServerMovesIsStep == ServerMoves => Serving(ServerNext)
  BY DEF ServerMoves, Serving, ServerNext

LEMMA HealthMovesIsStep == HealthMoves => Checking(HealthNext)
  BY DEF HealthMoves, Checking, HealthNext

LEMMA PodsMoveIsStep == PodsMove => Entering(PodsNext)
  BY DEF PodsMove, Entering, PodsNext

LEMMA ListingMovesIsStep == ListingMoves => Paging(ListingsNext)
  BY ServicesAssumption DEF ListingMoves, Paging, ListingsNext

\* What a service does leaves the others alone.
EachSteps ==
  /\ [SinkNext]_sinkVars
  /\ [RegistryNext]_regVars
  /\ [StreamNext]_logVars
  /\ [AlertsNext]_alertVars
  /\ [AccessNext]_accessVars
  /\ [ClustersNext]_clusterVars
  /\ [CatalogNext]_catalogVars
  /\ [DevicesNext]_deviceVars
  /\ [MetricsNext]_cacheVars
  /\ [LoginNext]_loginVars
  /\ [LogStoreNext]_logStoreVars
  /\ [ServerNext]_serverVars
  /\ [HealthNext]_healthVars
  /\ [PodsNext]_podVars
  /\ [ListingsNext]_listingVars

LEMMA SinkMovesOnly == SinkMoves => EachSteps
  BY SinkMovesIsStep DEF Sink, EachSteps

LEMMA SocketsMoveOnly == SocketsMove => EachSteps
  BY SocketsMoveIsStep DEF Sockets, EachSteps

LEMMA StreamMovesOnly == StreamMoves => EachSteps
  BY StreamMovesIsStep DEF Stream, EachSteps

LEMMA AlertsMoveOnly == AlertsMove => EachSteps
  BY AlertsMoveIsStep DEF Alerting, EachSteps

LEMMA AccessMovesOnly == AccessMoves => EachSteps
  BY AccessMovesIsStep DEF Asking, EachSteps

LEMMA ClustersMoveOnly == ClustersMove => EachSteps
  BY ClustersMoveIsStep DEF Managing, EachSteps

LEMMA CatalogMovesOnly == CatalogMoves => EachSteps
  BY CatalogMovesIsStep DEF Browsing, EachSteps

LEMMA DevicesMoveOnly == DevicesMove => EachSteps
  BY DevicesMoveIsStep DEF Editing, EachSteps

LEMMA CacheMovesOnly == CacheMoves => EachSteps
  BY CacheMovesIsStep DEF Viewing, EachSteps

LEMMA LoginMovesOnly == LoginMoves => EachSteps
  BY LoginMovesIsStep DEF Signing, EachSteps

LEMMA LogsMoveOnly == LogsMove => EachSteps
  BY LogsMoveIsStep DEF Searching, EachSteps

LEMMA ServerMovesOnly == ServerMoves => EachSteps
  BY ServerMovesIsStep DEF Serving, EachSteps

LEMMA HealthMovesOnly == HealthMoves => EachSteps
  BY HealthMovesIsStep DEF Checking, EachSteps

LEMMA PodsMoveOnly == PodsMove => EachSteps
  BY PodsMoveIsStep DEF Entering, EachSteps

LEMMA ListingMovesOnly == ListingMoves => EachSteps
  BY ListingMovesIsStep DEF Paging, EachSteps

LEMMA ServicesStep == [ServicesNext]_vars => EachSteps
<1>1. UNCHANGED vars => EachSteps
  BY DEF vars, EachSteps
<1> QED
  BY <1>1,
     SinkMovesOnly, SocketsMoveOnly, StreamMovesOnly, AlertsMoveOnly,
     AccessMovesOnly, ClustersMoveOnly, CatalogMovesOnly, DevicesMoveOnly,
     CacheMovesOnly, LoginMovesOnly, LogsMoveOnly, ServerMovesOnly,
     HealthMovesOnly, PodsMoveOnly, ListingMovesOnly
  DEF ServicesNext

(* Each service follows its own specification: what the run of all of them *)
(* explores is what each module says, one at a time.                       *)
THEOREM ServicesFollowTheirSpecs ==
  ServicesSpec =>
    /\ SinkSpec
    /\ RegistrySpec
    /\ StreamSpec
    /\ AlertsSpec
    /\ AccessSpec
    /\ ClustersSpec
    /\ CatalogSpec
    /\ DevicesSpec
    /\ MetricsSpec
    /\ LoginSpec
    /\ LogStoreSpec
    /\ ServerSpec
    /\ HealthSpec
    /\ PodsSpec
    /\ ListingsSpec
<1>1. ServicesInit =>
        /\ SinkInit
        /\ RegistryInit
        /\ StreamInit
        /\ AlertsInit
        /\ AccessInit
        /\ ClustersInit
        /\ CatalogInit
        /\ DevicesInit
        /\ MetricsInit
        /\ LoginInit
        /\ LogStoreInit
        /\ ServerInit
        /\ HealthInit
        /\ PodsInit
        /\ ListingsInit
  BY DEF ServicesInit
<1>2. [ServicesNext]_vars =>
        /\ [SinkNext]_sinkVars
        /\ [RegistryNext]_regVars
        /\ [StreamNext]_logVars
        /\ [AlertsNext]_alertVars
        /\ [AccessNext]_accessVars
        /\ [ClustersNext]_clusterVars
        /\ [CatalogNext]_catalogVars
        /\ [DevicesNext]_deviceVars
        /\ [MetricsNext]_cacheVars
        /\ [LoginNext]_loginVars
        /\ [LogStoreNext]_logStoreVars
        /\ [ServerNext]_serverVars
        /\ [HealthNext]_healthVars
        /\ [PodsNext]_podVars
        /\ [ListingsNext]_listingVars
  BY ServicesStep DEF EachSteps
<1> QED
  BY <1>1, <1>2, PTL DEF ServicesSpec,
       SinkSpec, RegistrySpec, StreamSpec, AlertsSpec, AccessSpec,
       ClustersSpec, CatalogSpec, DevicesSpec, MetricsSpec, LoginSpec,
       LogStoreSpec, ServerSpec, HealthSpec, PodsSpec, ListingsSpec

-----------------------------------------------------------------------------
(* Every variable of every service keeps its type.                         *)
THEOREM ServicesTyped == ServicesSpec => []ServicesTypeOK
<1>1. SinkTypeOK /\ RegistryTypeOK /\ StreamTypeOK /\ AlertsTypeOK /\ AccessTypeOK
      /\ ClustersTypeOK /\ CatalogTypeOK /\ DevicesTypeOK /\ MetricsTypeOK /\ LoginTypeOK
      /\ LogStoreTypeOK /\ ServerTypeOK /\ HealthTypeOK /\ PodsTypeOK /\ ListingsTypeOK
      => ServicesTypeOK
  BY DEF ServicesTypeOK
<1> QED
  BY <1>1, ServicesFollowTheirSpecs, SinkTyping, CapsHold, StreamKeepsLines,
     SuppressionIsTold, OnlyMembersLink, ClientsAreTold, ShiftsAndGaugeTold, RowsTyped,
     CacheAnswersAreFresh, LoginsAreTold, SearchesFindLines, ServerKeepsGrace, ReportIsTrue,
     PodAnswersAreTrue, PagesLeaveNothingOut, PTL

(* What WebSocket clients are subscribed to is what they asked for (ws/hub,*)
(* Unregister), and a pod's lines reach them without a gap (k8s/logstream).*)
THEOREM SocketsAreTold == ServicesSpec => []SocketsTold
<1>1. RegistryFollowsClients /\ LinesReachClient => SocketsTold
  BY DEF SocketsTold
<1> QED
  BY <1>1, ServicesFollowTheirSpecs, RegistryFollows, StreamKeepsLines, PTL

(* Only members link hosts to projects, nobody is turned away from login or*)
(* let in without a reason, and ranks keep permissions (hostproject, auth).*)
THEOREM AccessIsTold == ServicesSpec => []AccessTold
<1>1. MembershipTold /\ LoginTold /\ RanksKeepPermissions => AccessTold
  BY DEF AccessTold
<1> QED
  BY <1>1, ServicesFollowTheirSpecs, OnlyMembersLink, LoginsAreTold, RanksKeep, PTL

(* Shifts overlap only by a race of their checks, and a list read page by  *)
(* page leaves nothing out unasked (servicecatalog, metrics, audit).       *)
THEOREM CatalogIsTold == ServicesSpec => []CatalogTold
<1>1. ShiftsTold /\ PagesTold => CatalogTold
  BY DEF CatalogTold
<1> QED
  BY <1>1, ServicesFollowTheirSpecs, ShiftsAndGaugeTold, PagesLeaveNothingOut, PTL

(* What the three caches answer has been so since the oldest copy kept was *)
(* made (k8s/registry.go, physicalhost/cache.go, logs/local.go).           *)
THEOREM CachesAreTold == ServicesSpec => []CachesTold
<1>1. ClientsTold /\ CacheTold /\ LogsTold => CachesTold
  BY DEF CachesTold
<1> QED
  BY <1>1, ServicesFollowTheirSpecs, ClientsAreTold, CacheAnswersAreFresh, SearchesFindLines, PTL

(* Nothing but a WebSocket is cut off before its time, nothing is called   *)
(* down without a reason, and a command's answer is its own (server,       *)
(* health, k8s).                                                           *)
THEOREM ProcessIsTold == ServicesSpec => []ProcessTold
<1>1. ServerTold /\ ReportTold /\ PodsTold => ProcessTold
  BY DEF ProcessTold
<1> QED
  BY <1>1, ServicesFollowTheirSpecs, ServerKeepsGrace, ReportIsTrue, PodAnswersAreTrue, PTL
=============================================================================
