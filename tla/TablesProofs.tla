---------------------------- MODULE TablesProofs ----------------------------
(***************************************************************************)
(* Proofs about the services that keep rows in a table or answers in a     *)
(* cache, for any rows, requests and bounds: what they answer, refuse and  *)
(* keep, whatever requests interleave.                                     *)
(***************************************************************************)
EXTENDS
  Clusters, Devices, ServiceCatalog, MetricsCache, Login, LogStore,
  ProjectAccess, Listings,
  FiniteSetTheorems, SequenceTheorems, TLAPS

-----------------------------------------------------------------------------
(* Clusters: what a registry answers was built from a row its cluster had. *)

NamesDiffer(rs) == \A c, d \in DOMAIN rs : c # d => rs[c].name # rs[d].name

\* What a request carries between two of its statements.
AskerCarries(q) ==
  \/ asker[q] = Idle
  \/ asker[q] \in [pc : {"insert"}, row : Rows]
  \/ asker[q] \in [pc : {"look", "find", "save"}, id : DOMAIN clusters, row : Rows]
  \/ asker[q] \in [pc : {"status"}, id : ClusterIds, status : {"connected", "disconnected"}]
  \/ asker[q] \in [pc : {"build"}, id : ClusterIds, registry : Registries]
  \/ /\ asker[q] \in [pc : {"keep"}, id : ClusterIds, registry : Registries, result : Results]
     /\ asker[q].result \in held[asker[q].id] \cup {"failed"}

Table ==
  /\ DOMAIN clusters \subseteq ClusterIds
  /\ \A c \in DOMAIN clusters : clusters[c] \in Rows
  /\ NamesDiffer(clusters)

\* held keeps up with the rows, and the registries with held.
AnswersTrue ==
  /\ held \in [ClusterIds -> SUBSET Results]
  /\ \A c \in ClusterIds : Build(clusters, c) \in held[c]
  /\ DOMAIN kept = Registries
  /\ \A g \in Registries : /\ DOMAIN kept[g] \subseteq ClusterIds
                           /\ \A c \in DOMAIN kept[g] : kept[g][c] \in held[c] \cup {"failed"}

ClusterInv ==
  /\ Table /\ AnswersTrue
  /\ DOMAIN asker = Askers /\ \A q \in Askers : AskerCarries(q)

LEMMA NoEntry == DOMAIN <<>> = {}
  OBVIOUS

LEMMA IdleAsker == Idle.pc = "idle"
  BY DEF Idle

LEMMA BuildType ==
  ASSUME Table, NEW c \in ClusterIds PROVE Build(clusters, c) \in Results
  BY DEF Table, Build, Rows, Texts, Results

\* A write of the table by q, which then carries nothing.
LEMMA ClusterWriteInv ==
  ASSUME ClusterInv, NEW q \in Askers, NEW rs, Write(rs), DOMAIN clusters \subseteq DOMAIN rs,
         DOMAIN rs \subseteq ClusterIds, \A c \in DOMAIN rs : rs[c] \in Rows, NamesDiffer(rs),
         kept' = kept, Ends(q) \/ asker' = asker
  PROVE  ClusterInv'
<1>1. clusters' = rs /\ Table'
  BY DEF Write, Table
<1>2. AnswersTrue'
  <2>1. \A c \in ClusterIds : Build(rs, c) \in Results
    BY <1>1, BuildType DEF Write, Table, Build, Rows, Texts, Results
  <2>2. held \in [ClusterIds -> SUBSET Results]
    BY DEF AnswersTrue, ClusterInv
  <2>3. /\ held' \in [ClusterIds -> SUBSET Results]
        /\ \A c \in ClusterIds : Build(rs, c) \in held'[c]
        /\ \A c \in ClusterIds : Cached(c) => held[c] \subseteq held'[c]
    BY <2>1, <2>2 DEF Write
  <2>5. \A g \in Registries : \A c \in DOMAIN kept[g] : c \in ClusterIds /\ Cached(c)
    BY DEF Cached, AnswersTrue, ClusterInv
  <2>4. \A c \in ClusterIds : Build(clusters, c)' = Build(rs, c)
    BY <1>1 DEF Build
  <2> QED
    BY <2>3, <2>4, <2>5 DEF AnswersTrue, ClusterInv
\* What a request is about to keep counts as answered.
<1>3. ASSUME NEW p \in Askers, asker[p].pc = "keep", asker[p].id \in ClusterIds
      PROVE  held[asker[p].id] \subseteq held'[asker[p].id]
  BY <1>3 DEF Write, Cached
<1>4. ASSUME NEW p \in Askers PROVE AskerCarries(p)'
  <2>1. asker'[p] = asker[p] \/ asker'[p] = Idle
    BY DEF Ends, Goes, ClusterInv
  <2>2. AskerCarries(p)
    BY DEF ClusterInv
  <2>3. CASE asker'[p] = Idle
    BY <2>3 DEF AskerCarries
  <2>4. CASE asker'[p] = asker[p]
    <3>1. CASE asker[p].pc = "keep" /\ asker[p].id \in ClusterIds
      BY <2>2, <2>4, <1>1, <1>3, <3>1 DEF AskerCarries
    <3>2. CASE ~(asker[p].pc = "keep" /\ asker[p].id \in ClusterIds)
      BY <2>2, <2>4, <1>1, <3>2 DEF AskerCarries
    <3> QED
      BY <3>1, <3>2
  <2> QED
    BY <2>1, <2>3, <2>4
<1>5. DOMAIN asker' = Askers
  BY DEF Ends, Goes, ClusterInv
<1> QED
  BY <1>1, <1>2, <1>4, <1>5 DEF ClusterInv

\* A step of one request that writes neither the table nor a registry.
LEMMA GoesInv ==
  ASSUME ClusterInv, NEW q \in Askers, NEW step, Goes(q, step),
         UNCHANGED <<clusters, kept, held>>, asker'[q] = step => AskerCarries(q)'
  PROVE  ClusterInv'
<1>1. Table' /\ AnswersTrue'
  BY DEF ClusterInv, Table, AnswersTrue, Build
<1>2. DOMAIN asker' = Askers /\ asker'[q] = step
  BY DEF Goes, ClusterInv
<1>3. ASSUME NEW p \in Askers \ {q} PROVE AskerCarries(p)'
  BY DEF Goes, ClusterInv, AskerCarries
<1> QED
  BY <1>1, <1>2, <1>3 DEF ClusterInv

LEMMA EndsInv ==
  ASSUME ClusterInv, NEW q \in Askers, Ends(q), UNCHANGED <<clusters, kept, held>>
  PROVE  ClusterInv'
<1>1. asker'[q] = Idle => AskerCarries(q)'
  BY DEF AskerCarries
<1> QED
  BY <1>1, GoesInv DEF Ends

LEMMA InsertInv ==
  ASSUME ClusterInv, NEW q \in Askers, Insert(q) PROVE ClusterInv'
<1>1. CASE UNCHANGED <<clusters, held>>
  BY <1>1, EndsInv DEF Insert
<1>2. ASSUME NEW c \in ClusterIds \ DOMAIN clusters, NameFree(c, asker[q].row.name),
             Write(Put(clusters, c, asker[q].row))
      PROVE  ClusterInv'
  <2> DEFINE rs == Put(clusters, c, asker[q].row)
  <2>1. asker[q].row \in Rows
    BY IdleAsker DEF Insert, ClusterInv, AskerCarries
  <2>2. /\ DOMAIN rs = DOMAIN clusters \cup {c}
        /\ rs[c] = asker[q].row
        /\ \A d \in DOMAIN clusters : rs[d] = clusters[d]
    BY DEF Put
  <2>3. DOMAIN rs \subseteq ClusterIds /\ \A d \in DOMAIN rs : rs[d] \in Rows
    BY <2>1, <2>2 DEF ClusterInv, Table
  <2>4. NamesDiffer(rs)
    BY <2>2, <1>2 DEF NamesDiffer, NameFree, ClusterInv, Table
  <2> HIDE DEF rs
  <2> QED
    BY <1>2, <2>2, <2>3, <2>4, ClusterWriteInv DEF Insert, rs
<1> QED
  BY <1>1, <1>2 DEF Insert

LEMMA ClusterSaveInv ==
  ASSUME ClusterInv, NEW q \in Askers, Save(q) PROVE ClusterInv'
<1> DEFINE c == asker[q].id
           rs == [clusters EXCEPT ![c] = asker[q].row]
<1>1. c \in DOMAIN clusters /\ asker[q].row \in Rows
  BY IdleAsker DEF Save, ClusterInv, AskerCarries
<1>2. CASE UNCHANGED <<clusters, held>>
  BY <1>2, EndsInv DEF Save
<1>3. CASE NameFree(c, asker[q].row.name) /\ Write(rs)
  <2>1. DOMAIN rs = DOMAIN clusters /\ \A d \in DOMAIN rs : rs[d] \in Rows
    BY <1>1 DEF ClusterInv, Table
  <2>2. NamesDiffer(rs)
    BY <1>1, <1>3 DEF NamesDiffer, NameFree, ClusterInv, Table
  <2>3. DOMAIN rs \subseteq ClusterIds
    BY <2>1 DEF ClusterInv, Table
  <2> HIDE DEF rs
  <2> QED
    BY <1>3, <2>1, <2>2, <2>3, ClusterWriteInv DEF Save
<1> QED
  BY <1>2, <1>3 DEF Save

\* Write of row c with another gone or status column.
LEMMA ColumnInv ==
  ASSUME ClusterInv, NEW q \in Askers, NEW c \in DOMAIN clusters, NEW row \in Rows,
         row.name = clusters[c].name, Write([clusters EXCEPT ![c] = row]),
         kept' = kept, Ends(q) \/ asker' = asker
  PROVE  ClusterInv'
<1> DEFINE rs == [clusters EXCEPT ![c] = row]
<1>1. /\ DOMAIN rs = DOMAIN clusters /\ DOMAIN rs \subseteq ClusterIds
      /\ \A d \in DOMAIN rs : rs[d] \in Rows
  BY DEF ClusterInv, Table
<1>2. \A d \in DOMAIN rs : rs[d].name = clusters[d].name
  OBVIOUS
<1>3. NamesDiffer(rs)
  BY <1>1, <1>2 DEF NamesDiffer, ClusterInv, Table
<1>4. Write(rs)
  OBVIOUS
<1> HIDE DEF rs
<1> QED
  BY <1>1, <1>3, <1>4, ClusterWriteInv

LEMMA ClusterDeleteInv ==
  ASSUME ClusterInv, NEW q \in Askers, NEW c \in ClusterIds, Delete(q, c) PROVE ClusterInv'
<1> DEFINE row == [clusters[c] EXCEPT !.gone = TRUE]
<1>1. c \in DOMAIN clusters /\ clusters[c] \in Rows
  BY DEF Delete, Live, ClusterInv, Table
<1>2. row \in Rows /\ row.name = clusters[c].name
  BY <1>1 DEF Rows
<1>3. Write([clusters EXCEPT ![c] = row]) /\ kept' = kept /\ asker' = asker
  BY DEF Delete
<1> HIDE DEF row
<1> QED
  BY <1>1, <1>2, <1>3, ColumnInv

LEMMA StatusInv ==
  ASSUME ClusterInv, NEW q \in Askers, UpdateStatus(q) PROVE ClusterInv'
<1> DEFINE c == asker[q].id
           row == [clusters[c] EXCEPT !.status = asker[q].status]
<1>1. CASE UNCHANGED <<clusters, held>>
  BY <1>1, EndsInv DEF UpdateStatus
<1>2. CASE c \in Live /\ Write([clusters EXCEPT ![c] = row])
  <2>1. c \in DOMAIN clusters /\ clusters[c] \in Rows
    BY <1>2 DEF Live, ClusterInv, Table
  <2>2. asker[q].status \in {"connected", "disconnected"}
    BY IdleAsker DEF UpdateStatus, ClusterInv, AskerCarries
  <2>3. row \in Rows /\ row.name = clusters[c].name
    BY <2>1, <2>2 DEF Rows
  <2>4. kept' = kept /\ Ends(q)
    BY DEF UpdateStatus
  <2> HIDE DEF row
  <2> QED
    BY <1>2, <2>1, <2>3, <2>4, ColumnInv
<1> QED
  BY <1>1, <1>2 DEF UpdateStatus

LEMMA ClusterCreateInv ==
  ASSUME ClusterInv, NEW q \in Askers, NEW name \in ClusterNames, NEW text \in Texts,
         AskCreate(q, name, text)
  PROVE  ClusterInv'
<1> DEFINE step == [pc |-> "insert", row |-> [name |-> name, config |-> text,
                                              status |-> "unknown", gone |-> FALSE]]
<1>1. step \in [pc : {"insert"}, row : Rows]
  BY DEF Rows
<1>2. Goes(q, step) /\ UNCHANGED <<clusters, kept, held>>
  BY DEF AskCreate
<1> HIDE DEF step
<1>3. asker'[q] = step => AskerCarries(q)'
  BY <1>1 DEF AskerCarries
<1> QED
  BY <1>2, <1>3, GoesInv

LEMMA UpdateInv ==
  ASSUME ClusterInv, NEW q \in Askers, NEW c \in ClusterIds, NEW name \in ClusterNames,
         NEW text \in Texts,
         AskUpdate(q, c, name, text)
  PROVE  ClusterInv'
<1> DEFINE row == [clusters[c] EXCEPT !.name = name, !.config = text]
           step == [pc |-> IF name = clusters[c].name THEN "find" ELSE "look", id |-> c,
                    row |-> row]
<1>1. c \in DOMAIN clusters /\ clusters[c] \in Rows
  BY DEF AskUpdate, Live, ClusterInv, Table
<1>2. row \in Rows
  BY <1>1 DEF Rows
<1> HIDE DEF row
<1>3. step \in [pc : {"look", "find", "save"}, id : DOMAIN clusters, row : Rows]
  BY <1>1, <1>2
<1>4. Goes(q, step) /\ UNCHANGED <<clusters, kept, held>>
  BY DEF AskUpdate, row
<1> HIDE DEF step
<1>5. asker'[q] = step => AskerCarries(q)'
  BY <1>3, <1>4 DEF AskerCarries
<1> QED
  BY <1>4, <1>5, GoesInv

LEMMA ProbeInv ==
  ASSUME ClusterInv, NEW q \in Askers, NEW c \in ClusterIds, NEW ping \in {"connected", "disconnected"},
         AskProbe(q, c, ping)
  PROVE  ClusterInv'
<1> DEFINE step == [pc |-> "status", id |-> c, status |-> ping]
<1>1. Goes(q, step) /\ UNCHANGED <<clusters, kept, held>>
  BY DEF AskProbe
<1>2. asker'[q] = step => AskerCarries(q)'
  BY DEF AskerCarries
<1> HIDE DEF step
<1> QED
  BY <1>1, <1>2, GoesInv

LEMMA ClientInv ==
  ASSUME ClusterInv, NEW q \in Askers, NEW g \in Registries, NEW c \in ClusterIds,
         AskClient(q, g, c)
  PROVE  ClusterInv'
<1> DEFINE step == [pc |-> "build", id |-> c, registry |-> g]
<1>1. Goes(q, step) /\ UNCHANGED <<clusters, kept, held>>
  BY DEF AskClient
<1>2. asker'[q] = step => AskerCarries(q)'
  BY DEF AskerCarries
<1> HIDE DEF step
<1> QED
  BY <1>1, <1>2, GoesInv

LEMMA AskerLookInv ==
  ASSUME ClusterInv, NEW q \in Askers, LookForName(q) \/ FindAgain(q) PROVE ClusterInv'
<1>1. asker[q] \in [pc : {"look", "find", "save"}, id : DOMAIN clusters, row : Rows]
  BY IdleAsker DEF LookForName, FindAgain, ClusterInv, AskerCarries
<1>2. UNCHANGED <<clusters, kept, held>>
  BY DEF LookForName, FindAgain
<1>3. CASE Ends(q)
  BY <1>2, <1>3, EndsInv
<1>4. ASSUME NEW pc \in {"find", "save"}, Goes(q, [asker[q] EXCEPT !.pc = pc]) PROVE ClusterInv'
  <2> DEFINE step == [asker[q] EXCEPT !.pc = pc]
  <2>1. step \in [pc : {"look", "find", "save"}, id : DOMAIN clusters, row : Rows]
    BY <1>1
  <2> HIDE DEF step
  <2>2. asker'[q] = step => AskerCarries(q)'
    BY <2>1, <1>2 DEF AskerCarries
  <2> QED
    BY <1>2, <1>4, <2>2, GoesInv DEF step
<1> QED
  BY <1>3, <1>4 DEF LookForName, FindAgain

LEMMA BuildInv ==
  ASSUME ClusterInv, NEW q \in Askers, BuildClient(q) PROVE ClusterInv'
<1>0. PICK result \in {Build(clusters, asker[q].id), "failed"} :
        Goes(q, [pc |-> "keep", id |-> asker[q].id, registry |-> asker[q].registry,
                 result |-> result])
  BY DEF BuildClient
<1> DEFINE step == [pc |-> "keep", id |-> asker[q].id, registry |-> asker[q].registry,
                    result |-> result]
<1>1. asker[q].id \in ClusterIds /\ asker[q].registry \in Registries
  BY IdleAsker DEF BuildClient, ClusterInv, AskerCarries
<1>2. result \in Results /\ result \in held[asker[q].id] \cup {"failed"}
  <2>1. "failed" \in Results
    BY DEF Results
  <2>2. Build(clusters, asker[q].id) \in Results
    BY <1>1, BuildType DEF ClusterInv
  <2>3. Build(clusters, asker[q].id) \in held[asker[q].id]
    BY <1>1 DEF ClusterInv, AnswersTrue
  <2> QED
    BY <1>0, <2>1, <2>2, <2>3
<1>3. Goes(q, step) /\ UNCHANGED <<clusters, kept, held>>
  BY <1>0 DEF BuildClient
<1>4. /\ step \in [pc : {"keep"}, id : ClusterIds, registry : Registries, result : Results]
      /\ step.result \in held'[step.id] \cup {"failed"}
  BY <1>1, <1>2, <1>3
<1> HIDE DEF step
<1>5. asker'[q] = step => AskerCarries(q)'
  BY <1>4 DEF AskerCarries
<1> QED
  BY <1>3, <1>5, GoesInv

LEMMA KeepInv ==
  ASSUME ClusterInv, NEW q \in Askers, KeepClient(q) PROVE ClusterInv'
<1> DEFINE g == asker[q].registry
           c == asker[q].id
<1>1. g \in Registries /\ c \in ClusterIds /\ asker[q].result \in held[c] \cup {"failed"}
  BY IdleAsker DEF KeepClient, ClusterInv, AskerCarries
<1>2. /\ kept' = [kept EXCEPT ![g] = Put(kept[g], c, asker[q].result)]
      /\ UNCHANGED <<clusters, held>> /\ Ends(q)
  BY DEF KeepClient
<1>3. Table'
  BY <1>2 DEF ClusterInv, Table
<1>4. AnswersTrue'
  <2>1. /\ DOMAIN kept' = Registries /\ kept'[g] = Put(kept[g], c, asker[q].result)
        /\ \A h \in Registries \ {g} : kept'[h] = kept[h]
    BY <1>2, <1>1 DEF ClusterInv, AnswersTrue
  <2>2. /\ DOMAIN kept'[g] = DOMAIN kept[g] \cup {c}
        /\ kept'[g][c] = asker[q].result
        /\ \A d \in DOMAIN kept[g] \ {c} : kept'[g][d] = kept[g][d]
    BY <2>1 DEF Put
  <2> QED
    BY <1>1, <1>2, <2>1, <2>2 DEF ClusterInv, AnswersTrue, Build
<1>5. DOMAIN asker' = Askers /\ asker'[q] = Idle
      /\ \A p \in Askers \ {q} : asker'[p] = asker[p]
  BY <1>2 DEF Ends, Goes, ClusterInv
<1>6. \A p \in Askers : AskerCarries(p)'
  BY <1>2, <1>5 DEF ClusterInv, AskerCarries
<1> QED
  BY <1>3, <1>4, <1>5, <1>6 DEF ClusterInv

LEMMA RestartInv == ASSUME ClusterInv, ClustersRestart PROVE ClusterInv'
<1>1. Table'
  BY DEF ClusterInv, ClustersRestart, Table
<1>2. AnswersTrue'
  <2>1. held' \in [ClusterIds -> SUBSET Results] /\ DOMAIN kept' = Registries
    <3>1. \A c \in ClusterIds : {Build(clusters, c)} \in SUBSET Results
      BY BuildType DEF ClusterInv
    <3> QED
      BY <3>1 DEF ClustersRestart
  <2>2. \A c \in ClusterIds : Build(clusters, c)' \in held'[c]
    BY DEF ClustersRestart, Build
  <2>3. \A g \in Registries : DOMAIN kept'[g] = {}
    BY NoEntry DEF ClustersRestart
  <2> QED
    BY <2>1, <2>2, <2>3 DEF AnswersTrue
<1>3. DOMAIN asker' = Askers /\ \A q \in Askers : AskerCarries(q)'
  BY DEF ClustersRestart, AskerCarries
<1> QED
  BY <1>1, <1>2, <1>3 DEF ClusterInv

LEMMA ClusterStep == ClusterInv /\ [ClustersNext]_clusterVars => ClusterInv'
<1> SUFFICES ASSUME ClusterInv, [ClustersNext]_clusterVars PROVE ClusterInv'
  OBVIOUS
<1>1. ASSUME NEW q \in Askers, NEW n \in ClusterNames, NEW t \in Texts, AskCreate(q, n, t)
      PROVE  ClusterInv'
  BY <1>1, ClusterCreateInv
<1>2. ASSUME NEW q \in Askers, NEW c \in ClusterIds, NEW n \in ClusterNames, NEW t \in Texts,
             AskUpdate(q, c, n, t)
      PROVE  ClusterInv'
  BY <1>2, UpdateInv
<1>3. ASSUME NEW q \in Askers, NEW c \in ClusterIds, Delete(q, c) PROVE ClusterInv'
  BY <1>3, ClusterDeleteInv
<1>4. ASSUME NEW q \in Askers, NEW c \in ClusterIds, NEW p \in {"connected", "disconnected"},
             AskProbe(q, c, p)
      PROVE  ClusterInv'
  BY <1>4, ProbeInv
<1>5. ASSUME NEW q \in Askers, NEW g \in Registries, NEW c \in ClusterIds, AskClient(q, g, c)
      PROVE  ClusterInv'
  BY <1>5, ClientInv
<1>6. ASSUME NEW q \in Askers,
             \/ Insert(q) \/ LookForName(q) \/ FindAgain(q) \/ Save(q)
             \/ UpdateStatus(q) \/ BuildClient(q) \/ KeepClient(q)
      PROVE  ClusterInv'
  BY <1>6, InsertInv, AskerLookInv, ClusterSaveInv, StatusInv, BuildInv, KeepInv
<1>7. CASE ClustersRestart
  BY <1>7, RestartInv
<1>8. CASE UNCHANGED clusterVars
  BY <1>8 DEF clusterVars, ClusterInv, Table, AnswersTrue, AskerCarries, Build
<1> QED
  BY <1>1, <1>2, <1>3, <1>4, <1>5, <1>6, <1>7, <1>8 DEF ClustersNext

LEMMA ClusterStart == ClustersInit => ClusterInv
<1> SUFFICES ASSUME ClustersInit PROVE ClusterInv
  OBVIOUS
<1>1. DOMAIN clusters = {} /\ \A g \in Registries : DOMAIN kept[g] = {}
  BY NoEntry DEF ClustersInit
<1>2. held \in [ClusterIds -> SUBSET Results]
  BY DEF ClustersInit, Results
<1> QED
  BY <1>1, <1>2 DEF ClustersInit, ClusterInv, Table, NamesDiffer, AnswersTrue, AskerCarries, Build

LEMMA ClusterInvEnough == ClusterInv => ClientsTold
  BY DEF ClusterInv, Table, NamesDiffer, AnswersTrue, ClientsTold

\* The two variables no answer depends on.
AskedTypes == walked \subseteq ClusterIds /\ asked \in 0..MaxAsked

LEMMA AskedStart == ClustersInit => AskedTypes
<1> SUFFICES ASSUME ClustersInit PROVE AskedTypes
  OBVIOUS
<1>1. walked = {} /\ asked = 0
  BY DEF ClustersInit
<1> QED
  BY <1>1, ClustersAssumption DEF AskedTypes

LEMMA AskedStep == ClusterInv /\ AskedTypes /\ [ClustersNext]_clusterVars => AskedTypes'
<1> SUFFICES ASSUME ClusterInv, AskedTypes, [ClustersNext]_clusterVars PROVE AskedTypes'
  OBVIOUS
<1>1. (\E q \in Askers : Begins(q)) /\ walked' = walked => AskedTypes'
  BY ClustersAssumption DEF Begins, AskedTypes
<1>2. UNCHANGED <<walked, asked>> => AskedTypes'
  BY DEF AskedTypes
<1>3. CASE ClustersRestart
  BY <1>3 DEF ClustersRestart, Live, AskedTypes, ClusterInv, Table
<1>4. ASSUME NEW q \in Askers, NEW c \in ClusterIds, NEW n, NEW t, NEW p,
             AskCreate(q, n, t) \/ AskUpdate(q, c, n, t) \/ Delete(q, c) \/ AskProbe(q, c, p)
      PROVE  AskedTypes'
  <2>1. Begins(q) /\ walked' = walked
    BY <1>4 DEF AskCreate, AskUpdate, Delete, AskProbe
  <2> QED
    BY <2>1, <1>1
<1>5. ASSUME NEW q \in Askers, NEW c, NEW g, 
             \/ AskClient(q, g, c) \/ Insert(q) \/ LookForName(q) \/ FindAgain(q) \/ Save(q)
             \/ UpdateStatus(q) \/ BuildClient(q) \/ KeepClient(q)
      PROVE  AskedTypes'
  BY <1>2, <1>5 DEF AskClient, Insert, LookForName, FindAgain, Save, UpdateStatus, BuildClient,
                    KeepClient
<1>6. ASSUME NEW q \in Askers, NEW n \in ClusterNames, NEW t \in Texts, AskCreate(q, n, t)
      PROVE  AskedTypes'
  BY <1>6, <1>1 DEF AskCreate
<1>7. CASE UNCHANGED clusterVars
  BY <1>7, <1>2 DEF clusterVars
<1> QED
  BY <1>3, <1>4, <1>5, <1>6, <1>7 DEF ClustersNext

LEMMA ClusterTypes == ClusterInv /\ AskedTypes => ClustersTypeOK
<1> SUFFICES ASSUME ClusterInv, AskedTypes PROVE ClustersTypeOK
  OBVIOUS
<1>1. "failed" \in Results
  BY DEF Results
<1>2. \A g \in Registries : \A c \in DOMAIN kept[g] : kept[g][c] \in Results
  BY <1>1 DEF ClusterInv, AnswersTrue
<1> QED
  BY <1>2 DEF ClusterInv, Table, AnswersTrue, AskedTypes, ClustersTypeOK

(* What either registry answers for a cluster is what its row has said     *)
(* since the oldest answer kept about it was read, or the error of a read  *)
(* that failed (k8s/registry.go, ClientFor), and names stay unique over    *)
(* deleted rows too, whatever requests interleave.                         *)
THEOREM ClientsAreTold == ClustersSpec => [](ClustersTypeOK /\ ClientsTold)
<1>1. ClustersInit => ClusterInv /\ AskedTypes
  BY ClusterStart, AskedStart
<1>2. ClusterInv /\ AskedTypes /\ [ClustersNext]_clusterVars => ClusterInv' /\ AskedTypes'
  BY ClusterStep, AskedStep
<1>3. ClusterInv /\ AskedTypes => ClustersTypeOK /\ ClientsTold
  BY ClusterTypes, ClusterInvEnough
<1> QED
  BY <1>1, <1>2, <1>3, PTL DEF ClustersSpec

-----------------------------------------------------------------------------
(* Devices: only an overtaken Save undoes what it was not asked to.        *)

RowOf(k) == [value : Values(k[1]), gone : BOOLEAN]

\* What a request carries between its load and its Save: a copy of a row that was there.
EditorCarries(w) ==
  \/ editor[w] = NoEdit
  \/ /\ editor[w].pc \in {"find", "save"} /\ editor[w].key \in DOMAIN table
     /\ editor[w].row \in RowOf(editor[w].key) /\ ~editor[w].row.gone

\* A writer nobody has overtaken: its row is still there, and is what it has loaded.
NotOvertaken(w) ==
  /\ editor[w].pc \in {"find", "save"} /\ editor[w].key \in Present
  /\ editor[w].op # "set" => editor[w].row.value = table[editor[w].key].value

DeviceInv ==
  /\ \A k \in DOMAIN table : table[k] \in RowOf(k)
  /\ DOMAIN editor = Editors /\ current \subseteq Editors
  /\ \A w \in Editors : EditorCarries(w)
  /\ \A w \in current : NotOvertaken(w)

LEMMA IdleEditor == NoEdit.pc = "idle"
  BY DEF NoEdit

\* A write, by a request that then has none in hand, of a row no fresh writer has.
LEMMA RowStoreInv ==
  ASSUME DeviceInv, DOMAIN table \subseteq DOMAIN table', DOMAIN editor' = Editors,
         \A k \in DOMAIN table' : table'[k] \in RowOf(k),
         \A w \in Editors : editor'[w] \in {editor[w], NoEdit},
         current' \subseteq current,
         \A w \in current' :
           editor'[w] = editor[w] /\ table'[editor[w].key] = table[editor[w].key]
  PROVE  DeviceInv'
<1>1. \A w \in Editors : EditorCarries(w)'
  BY DEF DeviceInv, EditorCarries
<1>2. ASSUME NEW w \in current' PROVE NotOvertaken(w)'
  BY <1>2 DEF DeviceInv, NotOvertaken, Present
<1> QED
  BY <1>1, <1>2 DEF DeviceInv

LEMMA RowCreateInv ==
  ASSUME DeviceInv, NEW w \in Editors, NEW k, NEW v \in Values(k[1]), CreateRow(w, k, v)
  PROVE  DeviceInv'
<1>1. DOMAIN table \subseteq DOMAIN table' /\ editor' = editor /\ current' \subseteq current
  BY DEF CreateRow, Stores
<1>2. \A x \in current' : table'[editor[x].key] = table[editor[x].key]
  BY DEF CreateRow, Stores, DeviceInv, NotOvertaken, Present
<1>3. DOMAIN editor' = Editors
  BY <1>1 DEF DeviceInv
<1>4. \A j \in DOMAIN table' : table'[j] \in RowOf(j)
  BY DEF CreateRow, Stores, DeviceInv, RowOf
<1> QED
  BY <1>1, <1>2, <1>3, <1>4, RowStoreInv

LEMMA RowDeleteInv ==
  ASSUME DeviceInv, NEW w \in Editors, NEW k, DeleteRow(w, k) PROVE DeviceInv'
<1>1. DOMAIN table \subseteq DOMAIN table' /\ editor' = editor /\ current' \subseteq current
  BY DEF DeleteRow, Stores
<1>2. \A x \in current' : table'[editor[x].key] = table[editor[x].key]
  BY DEF DeleteRow, Stores, DeviceInv, NotOvertaken, Present
<1>3. DOMAIN editor' = Editors
  BY <1>1 DEF DeviceInv
<1>4. [table[k] EXCEPT !.gone = TRUE] \in RowOf(k)
  BY DEF DeleteRow, Present, DeviceInv, RowOf
<1>5. \A j \in DOMAIN table' : table'[j] \in RowOf(j)
  BY <1>4 DEF DeleteRow, Stores, DeviceInv
<1> QED
  BY <1>1, <1>2, <1>3, <1>5, RowStoreInv

\* The copy of a load differs from its row in the value at most.
LEMMA RowLoadInv ==
  ASSUME DeviceInv, NEW w \in Editors, NEW k, NEW v \in Values(k[1]), NEW how,
         LoadRow(w, k, v, how),
         how # "set" => v = table[k].value
  PROVE  DeviceInv'
<1> DEFINE copy == [table[k] EXCEPT !.value = v]
           step == [pc |-> IF k[1] = "device" THEN "find" ELSE "save", key |-> k,
                    op |-> how, row |-> copy]
<1>2. /\ k \in Present /\ k \in DOMAIN table /\ ~table[k].gone /\ table' = table
      /\ table[k] \in RowOf(k)
  BY DEF LoadRow, Present, DeviceInv
<1>1. copy \in RowOf(k) /\ copy.value = v /\ copy.gone = table[k].gone
  BY <1>2 DEF RowOf
<1>3. DOMAIN editor' = Editors /\ editor'[w] = step
      /\ \A x \in Editors \ {w} : editor'[x] = editor[x]
  BY DEF LoadRow, EditorGoes, DeviceInv
<1>4. step.pc \in {"find", "save"} /\ step.key = k /\ step.op = how /\ step.row = copy
  OBVIOUS
<1> HIDE DEF copy, step
<1>5. EditorCarries(w)' /\ NotOvertaken(w)'
  BY <1>1, <1>2, <1>3, <1>4 DEF EditorCarries, NotOvertaken, Present
<1>6. \A x \in Editors \ {w} : (EditorCarries(x) => EditorCarries(x)') /\ (NotOvertaken(x) => NotOvertaken(x)')
  BY <1>2, <1>3 DEF EditorCarries, NotOvertaken, Present
<1>7. current' = current \cup {w}
  BY DEF LoadRow
<1> QED
  BY <1>2, <1>3, <1>5, <1>6, <1>7 DEF DeviceInv

LEMMA RowFindInv == ASSUME DeviceInv, NEW w \in Editors, FindRow(w) PROVE DeviceInv'
<1>1. table' = table /\ Present' = Present
  BY DEF FindRow, Present
<1>2. \A x \in Editors \ {w} : editor'[x] = editor[x]
  BY DEF FindRow, EditorGoes, DeviceInv
<1>3. DOMAIN editor' = Editors
  BY DEF FindRow, EditorGoes, DeviceInv
<1>4. editor[w] # NoEdit /\ EditorCarries(w)
  BY IdleEditor DEF FindRow, DeviceInv
<1>5. CASE editor[w].key \in Present
  <2>1. editor'[w] = [editor[w] EXCEPT !.pc = "save"] /\ current' = current
    BY <1>5 DEF FindRow, EditorGoes, DeviceInv
  <2>2. /\ editor'[w].key = editor[w].key /\ editor'[w].op = editor[w].op
        /\ editor'[w].row = editor[w].row /\ editor'[w].pc = "save"
    BY <2>1
  <2>3. /\ editor[w].key \in DOMAIN table /\ ~editor[w].row.gone
        /\ editor[w].row \in RowOf(editor[w].key)
    BY <1>4 DEF EditorCarries
  <2>4. EditorCarries(w)' /\ (NotOvertaken(w) => NotOvertaken(w)')
    BY <1>1, <2>2, <2>3 DEF EditorCarries, NotOvertaken
  <2>5. \A x \in Editors \ {w} : (EditorCarries(x) => EditorCarries(x)') /\ (NotOvertaken(x) => NotOvertaken(x)')
    BY <1>1, <1>2 DEF EditorCarries, NotOvertaken
  <2> QED
    BY <1>1, <1>3, <2>1, <2>4, <2>5 DEF DeviceInv
<1>6. CASE editor[w].key \notin Present
  <2>1. editor'[w] = NoEdit /\ current' = current \ {w}
    BY <1>6 DEF FindRow, EditorGoes, DeviceInv
  <2> QED
    BY <1>1, <1>2, <1>3, <2>1 DEF DeviceInv, EditorCarries, NotOvertaken
<1> QED
  BY <1>5, <1>6

LEMMA RowSaveInv == ASSUME DeviceInv, NEW w \in Editors, SaveRow(w) PROVE DeviceInv'
<1>1. DOMAIN table \subseteq DOMAIN table' /\ current' \subseteq current
  BY DEF SaveRow, Stores
<1>2. DOMAIN editor' = Editors /\ editor'[w] = NoEdit
      /\ \A x \in Editors \ {w} : editor'[x] = editor[x]
  BY DEF SaveRow, EditorGoes, DeviceInv
<1>3. \A x \in current' : x # w /\ table'[editor[x].key] = table[editor[x].key]
  BY DEF SaveRow, Stores, DeviceInv, NotOvertaken, Present
<1>4. \A x \in current' : editor'[x] = editor[x]
  BY <1>1, <1>2, <1>3 DEF DeviceInv
<1>5. \A x \in Editors : editor'[x] \in {editor[x], NoEdit}
  BY <1>2
<1>6. EditorCarries(w) /\ editor[w] # NoEdit
  BY IdleEditor DEF SaveRow, DeviceInv
<1>7. \A k \in DOMAIN table' : table'[k] \in RowOf(k)
  BY <1>6 DEF SaveRow, Stores, DeviceInv, EditorCarries
<1> QED
  BY <1>1, <1>2, <1>3, <1>4, <1>5, <1>7, RowStoreInv

LEMMA DeviceSkipInv == DeviceInv /\ UNCHANGED deviceVars => DeviceInv'
<1> SUFFICES ASSUME DeviceInv, UNCHANGED deviceVars PROVE DeviceInv'
  OBVIOUS
<1>1. /\ table' = table /\ editor' = editor /\ current' = current
      /\ \A w : (EditorCarries(w) => EditorCarries(w)') /\ (NotOvertaken(w) => NotOvertaken(w)')
  BY DEF deviceVars, EditorCarries, NotOvertaken, Present
<1> QED
  BY <1>1 DEF DeviceInv

-----------------------------------------------------------------------------
(* The steps, by what they do to a row.                                    *)

\* A load whose request asks for no value keeps that of the row.
Loads(w) ==
  \E k \in Keys : \E v \in Values(k[1]), how \in {"set", "keep"} :
    LoadRow(w, k, v, how) /\ (how # "set" => v = table[k].value)

EditorSteps(w) ==
  \/ \E k \in Keys : \E v \in Values(k[1]) : CreateRow(w, k, v)
  \/ \E k \in Keys : DeleteRow(w, k)
  \/ Loads(w) \/ FindRow(w) \/ SaveRow(w)

LEMMA UpdateLoads == ASSUME DeviceInv, NEW w, NEW k \in Keys, Update(w, k) PROVE Loads(w)
<1>1. k \in Present => table[k].value \in Values(k[1])
  BY DEF Present, DeviceInv, RowOf
<1> QED
  BY <1>1 DEF Update, Loads

LEMMA MaintenanceLoads ==
  ASSUME NEW w, NEW i \in RowIds,
         EnterMaintenance(w, <<"device", i>>) \/ ExitMaintenance(w, <<"device", i>>)
  PROVE  Loads(w)
<1>1. /\ <<"device", i>> \in Keys
      /\ {"maintenance", "online"} \subseteq Values(<<"device", i>>[1])
  BY DEF Keys, RowKinds, Values, States
<1> QED
  BY <1>1 DEF EnterMaintenance, ExitMaintenance, Loads

LEMMA DeviceSteps == ASSUME DeviceInv, DevicesNext PROVE \E w \in Editors : EditorSteps(w)
<1>1. \A kind \in RowKinds, i \in RowIds : <<kind, i>> \in Keys /\ <<kind, i>>[1] = kind
  BY DEF Keys
<1>2. {"device", "group", "template"} \subseteq RowKinds
  BY DEF RowKinds
<1>3. ASSUME NEW w \in Editors, NEW i \in RowIds, NEW s \in States, CreateDevice(w, i, s)
      PROVE  EditorSteps(w)
  BY <1>1, <1>2, <1>3 DEF CreateDevice, EditorSteps, Values
<1>4. ASSUME NEW w \in Editors, NEW i \in RowIds, NEW v \in {"one", "two"},
             CreateGroup(w, i, v) \/ CreateTemplate(w, i, v)
      PROVE  EditorSteps(w)
  BY <1>1, <1>2, <1>4 DEF CreateGroup, CreateTemplate, EditorSteps, Values
<1>5. ASSUME NEW w \in Editors, NEW i \in RowIds,
             DeleteDevice(w, i) \/ DeleteGroup(w, i) \/ DeleteTemplate(w, i)
      PROVE  EditorSteps(w)
  BY <1>1, <1>2, <1>5 DEF DeleteDevice, DeleteGroup, DeleteTemplate, EditorSteps
<1>6. ASSUME NEW w \in Editors, NEW i \in RowIds,
             UpdateDevice(w, i) \/ UpdateGroup(w, i) \/ UpdateTemplate(w, i)
      PROVE  EditorSteps(w)
  BY <1>1, <1>2, <1>6, UpdateLoads DEF UpdateDevice, UpdateGroup, UpdateTemplate, EditorSteps
<1>7. ASSUME NEW w \in Editors, NEW i \in RowIds,
             EnterMaintenance(w, <<"device", i>>) \/ ExitMaintenance(w, <<"device", i>>)
      PROVE  EditorSteps(w)
  BY <1>7, MaintenanceLoads DEF EditorSteps
<1>8. Values("group") = {"one", "two"} /\ Values("template") = {"one", "two"}
  BY DEF Values
<1> QED
  BY <1>3, <1>4, <1>5, <1>6, <1>7, <1>8 DEF DevicesNext, EditorSteps

LEMMA DeviceStart == DevicesInit => DeviceInv
  BY DEF DevicesInit, DeviceInv, EditorCarries

LEMMA DeviceStepInv == ASSUME DeviceInv, NEW w \in Editors, EditorSteps(w) PROVE DeviceInv'
<1>1. ASSUME NEW k \in Keys, NEW v \in Values(k[1]), CreateRow(w, k, v) PROVE DeviceInv'
  BY <1>1, RowCreateInv
<1>2. ASSUME NEW k \in Keys, DeleteRow(w, k) PROVE DeviceInv'
  BY <1>2, RowDeleteInv
<1>3. ASSUME Loads(w) PROVE DeviceInv'
  BY <1>3, RowLoadInv DEF Loads
<1> QED
  BY <1>1, <1>2, <1>3, RowFindInv, RowSaveInv DEF EditorSteps

-----------------------------------------------------------------------------
(* The tables hold rows of their own kind, and each request counts.        *)

WritesCounted == DOMAIN table \subseteq Keys /\ writes \in 0..MaxWrites

LEMMA CountedInit == DevicesInit => WritesCounted
<1> SUFFICES ASSUME DevicesInit PROVE WritesCounted
  OBVIOUS
<1>1. table = <<>> /\ writes = 0
  BY DEF DevicesInit
<1>2. DOMAIN <<>> = {}
  OBVIOUS
<1> QED
  BY <1>1, <1>2, DevicesAssumption DEF WritesCounted

LEMMA CountedStep ==
  ASSUME DeviceInv, WritesCounted, NEW w \in Editors, EditorSteps(w) PROVE WritesCounted'
<1>1. EditorBegins(w) => writes' \in 0..MaxWrites
  BY DevicesAssumption DEF EditorBegins, WritesCounted
<1>2. ASSUME NEW k \in Keys, NEW v, CreateRow(w, k, v) \/ DeleteRow(w, k) PROVE WritesCounted'
  <2>1. EditorBegins(w) /\ DOMAIN table' = DOMAIN table \cup {k}
    BY <1>2 DEF CreateRow, DeleteRow, Stores
  <2> QED
    BY <1>1, <2>1 DEF WritesCounted
<1>3. CASE Loads(w)
  <2>1. EditorBegins(w) /\ table' = table
    BY <1>3 DEF Loads, LoadRow
  <2> QED
    BY <1>1, <2>1 DEF WritesCounted
<1>4. CASE FindRow(w)
  BY <1>4 DEF FindRow, WritesCounted
<1>5. CASE SaveRow(w)
  <2>1. EditorCarries(w) /\ editor[w] # NoEdit
    BY <1>5, IdleEditor DEF SaveRow, DeviceInv
  <2>2. editor[w].key \in DOMAIN table
    BY <2>1 DEF EditorCarries
  <2>3. writes' = writes /\ DOMAIN table' = DOMAIN table \cup {editor[w].key}
    BY <1>5 DEF SaveRow, Stores
  <2> QED
    BY <2>2, <2>3 DEF WritesCounted
<1>6. ASSUME NEW k \in Keys, DeleteRow(w, k) PROVE WritesCounted'
  BY <1>2, <1>6
<1> QED
  BY <1>2, <1>3, <1>4, <1>5, <1>6 DEF EditorSteps

LEMMA DeviceInvNext ==
  DeviceInv /\ WritesCounted /\ [DevicesNext]_deviceVars => DeviceInv' /\ WritesCounted'
<1> SUFFICES ASSUME DeviceInv, WritesCounted, [DevicesNext]_deviceVars
             PROVE  DeviceInv' /\ WritesCounted'
  OBVIOUS
<1>1. UNCHANGED deviceVars => WritesCounted'
  BY DEF deviceVars, WritesCounted
<1>2. ASSUME NEW w \in Editors, EditorSteps(w) PROVE DeviceInv' /\ WritesCounted'
  BY <1>2, DeviceStepInv, CountedStep
<1> QED
  BY <1>1, <1>2, DeviceSteps, DeviceSkipInv

LEMMA DeviceTypes == DeviceInv /\ WritesCounted => DevicesTypeOK
  BY DEF DeviceInv, RowOf, WritesCounted, DevicesTypeOK

(* Every row is of its table's kind, deleted ones too, whatever a Save     *)
(* puts back (device/repository.go, groups.go, templates.go).              *)
THEOREM RowsTyped == DevicesSpec => []DevicesTypeOK
<1>1. DevicesInit => DeviceInv /\ WritesCounted
  BY DeviceStart, CountedInit
<1> QED
  BY <1>1, DeviceInvNext, DeviceTypes, PTL DEF DevicesSpec

-----------------------------------------------------------------------------
(* What a step may do to a row.                                            *)

RowTold(k) ==
  /\ table[k].gone /\ ~table'[k].gone => \E w \in Editors : Overtaken(w, k)
  /\ (table[k].value = "maintenance") # (table'[k].value = "maintenance") =>
       \E w \in Editors :
         /\ editor[w].pc = "save" /\ editor[w].key = k
         /\ editor[w].op = "set" \/ Overtaken(w, k)

LEMMA SaveTold ==
  ASSUME DeviceInv, NEW w \in Editors, SaveRow(w), NEW k \in DOMAIN table PROVE RowTold(k)
<1>1. CASE editor[w].key # k
  BY <1>1 DEF SaveRow, Stores, RowTold
<1>2. CASE editor[w].key = k /\ w \notin current
  BY <1>2 DEF SaveRow, RowTold, Overtaken
<1>3. CASE editor[w].key = k /\ w \in current
  <2>1. NotOvertaken(w) /\ k \in Present /\ ~table[k].gone
    BY <1>3 DEF DeviceInv, NotOvertaken, Present
  <2>2. table'[k] = editor[w].row
    BY <1>3 DEF SaveRow, Stores
  <2> QED
    BY <1>3, <2>1, <2>2 DEF RowTold, NotOvertaken, SaveRow
<1> QED
  BY <1>1, <1>2, <1>3

LEMMA StepTold ==
  ASSUME DeviceInv, NEW w \in Editors, EditorSteps(w), NEW k \in DOMAIN table PROVE RowTold(k)
<1>1. ASSUME NEW j \in Keys, NEW v, CreateRow(w, j, v) PROVE RowTold(k)
  BY <1>1 DEF CreateRow, Stores, RowTold
<1>2. ASSUME NEW j \in Keys, DeleteRow(w, j) PROVE RowTold(k)
  <2>1. table[k] \in RowOf(k)
    BY DEF DeviceInv
  <2>2. table'[k] = IF k = j THEN [table[k] EXCEPT !.gone = TRUE] ELSE table[k]
    BY <1>2 DEF DeleteRow, Stores
  <2>3. table'[k].value = table[k].value /\ (table[k].gone => table'[k].gone)
    BY <2>1, <2>2 DEF RowOf
  <2> QED
    BY <2>3 DEF RowTold
<1>3. ASSUME Loads(w) \/ FindRow(w) PROVE RowTold(k)
  <2>1. table' = table
    BY <1>3 DEF Loads, LoadRow, FindRow
  <2> QED
    BY <2>1 DEF RowTold
<1> QED
  BY <1>1, <1>2, <1>3, SaveTold DEF EditorSteps

(* A deleted row comes back, and a device enters or leaves maintenance     *)
(* unasked, only by a Save overtaken by another write (device/repository.go*)
(* and service.go, Update and ApplyAction).                                *)
THEOREM RowsKept == DevicesSpec => RowsTold
<1>1. DevicesInit => DeviceInv
  BY DeviceStart
<1>2. DeviceInv /\ [DevicesNext]_deviceVars => DeviceInv'
  BY DeviceSteps, DeviceStepInv, DeviceSkipInv
<1>3. DeviceInv /\ [DevicesNext]_deviceVars =>
        [\A k \in DOMAIN table : RowTold(k)]_deviceVars
  BY DeviceSteps, StepTold
<1>4. [\A k \in DOMAIN table : RowTold(k)]_deviceVars
      <=> [\A k \in DOMAIN table :
            /\ table[k].gone /\ ~table'[k].gone => \E w \in Editors : Overtaken(w, k)
            /\ (table[k].value = "maintenance") # (table'[k].value = "maintenance") =>
                 \E w \in Editors :
                   /\ editor[w].pc = "save" /\ editor[w].key = k
                   /\ editor[w].op = "set" \/ Overtaken(w, k)]_deviceVars
  BY DEF RowTold
<1> QED
  BY <1>1, <1>2, <1>3, <1>4, PTL DEF DevicesSpec, RowsTold

-----------------------------------------------------------------------------
(* The service catalog.  Who is about to insert a shift knows of every     *)
(* shift it has checked that it does not overlap its own.                  *)
Scopes      == ServiceIds \cup {Global}
ServiceRows == [name : ServiceNames, gone : BOOLEAN]
ShiftRows   == [scope : Scopes, span : Spans, checked : SUBSET ShiftIds]
Inserting   == [pc : {"insert"}, scope : Scopes, span : Spans, checked : SUBSET ShiftIds]

VisitorKnows(x) ==
  /\ x.pc = "update" => x.name \in ServiceNames
  /\ x.pc = "overlap" => x.scope \in Scopes /\ x.span \in Spans
  /\ x.pc = "insert" => /\ x \in Inserting /\ x.checked \subseteq DOMAIN shifts
                        /\ \A i \in x.checked : ~Overlap(shifts[i], x)

CatalogTables ==
  /\ DOMAIN services \subseteq ServiceIds /\ \A s \in DOMAIN services : services[s] \in ServiceRows
  /\ DOMAIN shifts \subseteq ShiftIds /\ DOMAIN notes \subseteq NoteIds
  /\ \A i \in DOMAIN shifts : shifts[i] \in ShiftRows /\ shifts[i].checked \subseteq DOMAIN shifts
  /\ uses \in 0..MaxUses

CheckedTold == \A i, j \in DOMAIN shifts :
                 i # j /\ Overlap(shifts[i], shifts[j]) => i \notin shifts[j].checked
GaugeTold   == \A l \in DOMAIN gauge :
                 l.service \in Found \/ gauge[l].late
                   \/ \E u \in Visitors : user[u].pc = "reset" /\ user[u].service = l.service

CatalogInv ==
  /\ CatalogTables /\ CheckedTold /\ GaugeTold
  /\ DOMAIN user = Visitors /\ \A u \in Visitors : VisitorKnows(user[u])

LEMMA CatalogInvInit == CatalogInit => CatalogInv
<1> SUFFICES ASSUME CatalogInit PROVE CatalogInv
  OBVIOUS
<1>1. DOMAIN services = {} /\ DOMAIN shifts = {} /\ DOMAIN notes = {} /\ DOMAIN gauge = {} /\ uses = 0
  BY DEF CatalogInit
<1>2. DOMAIN user = Visitors /\ \A u \in Visitors : user[u].pc = "idle"
  BY DEF CatalogInit, NotAsking
<1>3. \A u \in Visitors : VisitorKnows(user[u])
  BY <1>2 DEF VisitorKnows
<1> QED
  BY <1>1, <1>2, <1>3, CatalogAssumption DEF CatalogInv, CatalogTables, CheckedTold, GaugeTold

LEMMA VisitorGoes ==
  ASSUME CatalogInv, NEW u \in Visitors, NEW x, UserGoes(u, x)
  PROVE  user'[u] = x /\ DOMAIN user' = Visitors /\ \A v \in Visitors \ {u} : user'[v] = user[v]
BY DEF CatalogInv, UserGoes

\* A visitor goes on, and what the others know stays.
LEMMA VisitorSteps ==
  ASSUME CatalogInv, NEW u \in Visitors, NEW x, UserGoes(u, x), VisitorKnows(x)',
         CatalogTables', CheckedTold', GaugeTold',
         \A i \in DOMAIN shifts : i \in DOMAIN shifts' /\ shifts'[i] = shifts[i]
  PROVE  CatalogInv'
<1>1. user'[u] = x /\ DOMAIN user' = Visitors /\ \A v \in Visitors \ {u} : user'[v] = user[v]
  BY VisitorGoes
<1>2. ASSUME NEW v \in Visitors PROVE VisitorKnows(user[v])'
  <2>1. CASE v = u
    BY <1>1, <2>1 DEF VisitorKnows
  <2>2. CASE v # u
    <3>1. VisitorKnows(user[v]) /\ user'[v] = user[v]
      BY <1>1, <2>2 DEF CatalogInv
    <3> QED BY <3>1 DEF VisitorKnows
  <2> QED BY <2>1, <2>2
<1> QED BY <1>1, <1>2 DEF CatalogInv

\* The gauge stays told while no service goes and no reset is forgotten.
LEMMA GaugeFrame ==
  ASSUME CatalogInv, NEW u \in Visitors, NEW x, UserGoes(u, x), gauge' = gauge,
         user[u].pc = "reset" => x.pc = "reset" /\ x.service = user[u].service,
         Found \subseteq Found'
  PROVE  GaugeTold'
<1>1. user'[u] = x /\ \A v \in Visitors \ {u} : user'[v] = user[v]
  BY VisitorGoes
<1>2. \A v \in Visitors : user[v].pc = "reset" =>
        user'[v].pc = "reset" /\ user'[v].service = user[v].service
  BY <1>1
<1> QED BY <1>2 DEF CatalogInv, GaugeTold

LEMMA OnlyVisitor ==
  ASSUME CatalogInv, NEW u \in Visitors, NEW x, UserGoes(u, x), VisitorKnows(x),
         UNCHANGED <<services, shifts, notes, gauge>>, uses' \in 0..MaxUses, user[u].pc # "reset"
  PROVE  CatalogInv'
<1>1. Found' = Found
  BY DEF Found
<1>2. GaugeTold'
  BY <1>1, GaugeFrame
<1>3. CatalogTables' /\ CheckedTold' /\ VisitorKnows(x)'
  BY DEF CatalogInv, CatalogTables, CheckedTold, VisitorKnows
<1> QED BY <1>2, <1>3, VisitorSteps

LEMMA CatalogLoadInv ==
  ASSUME CatalogInv, NEW u \in Visitors, NEW s, NEW x, Load(u, s, x), VisitorKnows(x)
  PROVE  CatalogInv'
<1>1. user[u].pc # "reset" /\ uses' \in 0..MaxUses
  BY CatalogAssumption DEF Load, UserBegins, NotAsking, CatalogInv, CatalogTables
<1> QED BY <1>1, OnlyVisitor DEF Load

LEMMA AskInv ==
  ASSUME CatalogInv, NEW u \in Visitors, NEW s \in ServiceIds,
         \/ \E n \in ServiceNames : AskRename(u, s, n)
         \/ AskNote(u, s) \/ AskHealth(u, s)
         \/ \E g \in {"service", "global"}, p \in Spans : AskShift(u, s, g, p)
         \/ \E i \in ShiftIds : AskDropShift(u, s, i)
         \/ \E i \in NoteIds : AskDropNote(u, s, i)
  PROVE  CatalogInv'
<1>1. ASSUME NEW n \in ServiceNames, AskRename(u, s, n) PROVE CatalogInv'
  <2>1. VisitorKnows([pc |-> "update", service |-> s, name |-> n])
    BY DEF VisitorKnows
  <2> QED BY <1>1, <2>1, CatalogLoadInv DEF AskRename
<1>2. CASE AskNote(u, s)
  <2>1. VisitorKnows([pc |-> "note", service |-> s])
    BY DEF VisitorKnows
  <2> QED BY <1>2, <2>1, CatalogLoadInv DEF AskNote
<1>3. CASE AskHealth(u, s)
  <2>1. VisitorKnows([pc |-> "health", service |-> s, name |-> services[s].name])
    BY DEF VisitorKnows
  <2> QED BY <1>3, <2>1, CatalogLoadInv DEF AskHealth
<1>4. ASSUME NEW g \in {"service", "global"}, NEW p \in Spans, AskShift(u, s, g, p) PROVE CatalogInv'
  <2>1. VisitorKnows([pc |-> "overlap", scope |-> IF g = "global" THEN Global ELSE s, span |-> p])
    BY DEF VisitorKnows, Scopes
  <2> QED BY <1>4, <2>1, CatalogLoadInv DEF AskShift
<1>5. ASSUME NEW i \in ShiftIds, AskDropShift(u, s, i) PROVE CatalogInv'
  <2>1. VisitorKnows([pc |-> "drop shift", id |-> i])
    BY DEF VisitorKnows
  <2> QED BY <1>5, <2>1, CatalogLoadInv DEF AskDropShift
<1>6. ASSUME NEW i \in NoteIds, AskDropNote(u, s, i) PROVE CatalogInv'
  <2>1. VisitorKnows([pc |-> "drop note", id |-> i])
    BY DEF VisitorKnows
  <2> QED BY <1>6, <2>1, CatalogLoadInv DEF AskDropNote
<1> QED BY <1>1, <1>2, <1>3, <1>4, <1>5, <1>6

LEMMA NobodyKnows == VisitorKnows(NotAsking) /\ NotAsking.pc = "idle"
BY DEF VisitorKnows, NotAsking

LEMMA CreateServiceInv ==
  ASSUME CatalogInv, NEW u \in Visitors, NEW s \in ServiceIds, NEW n \in ServiceNames,
         CreateService(u, s, n)
  PROVE  CatalogInv'
<1>1. /\ services' = Put(services, s, [name |-> n, gone |-> FALSE]) /\ s \notin DOMAIN services
      /\ UNCHANGED <<shifts, notes, gauge, user>> /\ uses' \in 0..MaxUses
  BY CatalogAssumption DEF CreateService, UserBegins, CatalogInv, CatalogTables
<1>2. /\ DOMAIN services' = DOMAIN services \cup {s}
      /\ services'[s] = [name |-> n, gone |-> FALSE]
      /\ \A t \in DOMAIN services : services'[t] = services[t]
  BY <1>1 DEF Put
<1>3. CatalogTables'
  <2>1. [name |-> n, gone |-> FALSE] \in ServiceRows
    BY DEF ServiceRows
  <2>2. \A t \in DOMAIN services' : services'[t] \in ServiceRows
    BY <1>2, <2>1 DEF CatalogInv, CatalogTables
  <2> QED BY <1>1, <1>2, <2>2 DEF CatalogInv, CatalogTables
<1>4. Found \subseteq Found'
  BY <1>2 DEF Found
<1>5. GaugeTold' /\ CheckedTold'
  BY <1>1, <1>4 DEF CatalogInv, GaugeTold, CheckedTold
<1> QED BY <1>1, <1>3, <1>5 DEF CatalogInv, VisitorKnows

LEMMA RowChange ==
  ASSUME CatalogInv, NEW s \in DOMAIN services,
         \/ services' = [services EXCEPT ![s].gone = TRUE]
         \/ \E n \in ServiceNames : services' = [services EXCEPT ![s].name = n]
  PROVE  /\ DOMAIN services' = DOMAIN services
         /\ services'[s] \in ServiceRows
         /\ \A t \in DOMAIN services \ {s} : services'[t] = services[t]
         /\ services' = [services EXCEPT ![s].gone = TRUE] \/ services'[s].gone = services[s].gone
<1>1. PICK x \in ServiceRows : x = services[s]
  BY DEF CatalogInv, CatalogTables
<1>2. CASE services' = [services EXCEPT ![s].gone = TRUE]
  <2>1. PICK y \in ServiceRows : y = [x EXCEPT !.gone = TRUE]
    BY DEF ServiceRows
  <2> QED BY <1>1, <1>2, <2>1
<1>3. ASSUME NEW n \in ServiceNames, services' = [services EXCEPT ![s].name = n]
      PROVE  /\ DOMAIN services' = DOMAIN services /\ services'[s] \in ServiceRows
             /\ \A t \in DOMAIN services \ {s} : services'[t] = services[t]
             /\ services'[s].gone = services[s].gone
  <2>1. PICK y \in ServiceRows : y = [x EXCEPT !.name = n]
    BY DEF ServiceRows
  <2>2. y.gone = x.gone
    BY <2>1 DEF ServiceRows
  <2> QED BY <1>1, <1>3, <2>1, <2>2
<1> QED BY <1>2, <1>3

LEMMA SoftDeleteInv ==
  ASSUME CatalogInv, NEW u \in Visitors, NEW s \in ServiceIds, SoftDelete(u, s)
  PROVE  CatalogInv'
<1>1. PICK x : x = [pc |-> "reset", service |-> s]
  OBVIOUS
<1>2. /\ s \in DOMAIN services /\ services' = [services EXCEPT ![s].gone = TRUE]
      /\ UserGoes(u, x) /\ UNCHANGED <<shifts, notes, gauge>> /\ uses' \in 0..MaxUses
      /\ user[u].pc # "reset"
  BY <1>1, CatalogAssumption DEF SoftDelete, UserBegins, Found, NotAsking, CatalogInv, CatalogTables
<1>3. /\ DOMAIN services' = DOMAIN services /\ services'[s] \in ServiceRows
      /\ \A t \in DOMAIN services \ {s} : services'[t] = services[t]
  BY <1>2, RowChange
<1>4. user'[u] = x /\ \A v \in Visitors \ {u} : user'[v] = user[v]
  BY <1>2, VisitorGoes
<1>5. GaugeTold'
  <2> SUFFICES ASSUME NEW l \in DOMAIN gauge,
                      ~gauge[l].late,
                      ~\E v \in Visitors : user'[v].pc = "reset" /\ user'[v].service = l.service
               PROVE  l.service \in Found'
    BY <1>2 DEF GaugeTold
  <2>1. l.service # s
    BY <1>1, <1>4
  <2>2. ~\E v \in Visitors : user[v].pc = "reset" /\ user[v].service = l.service
    BY <1>2, <1>4
  <2>3. l.service \in Found
    BY <2>2 DEF CatalogInv, GaugeTold
  <2> QED BY <1>3, <2>1, <2>3 DEF Found
<1>6. CatalogTables' /\ CheckedTold'
  BY <1>2, <1>3 DEF CatalogInv, CatalogTables, CheckedTold
<1>7. VisitorKnows(x)'
  BY <1>1 DEF VisitorKnows
<1> QED BY <1>2, <1>5, <1>6, <1>7, VisitorSteps

LEMMA UpdateServiceInv == ASSUME CatalogInv, NEW u \in Visitors, UpdateService(u) PROVE CatalogInv'
<1>1. /\ user[u].pc = "update" /\ UserGoes(u, NotAsking) /\ UNCHANGED <<shifts, notes, gauge, uses>>
      /\ user[u].name \in ServiceNames
  BY DEF UpdateService, UserEnds, CatalogInv, VisitorKnows
<1>2. \/ services' = services
      \/ /\ user[u].service \in DOMAIN services
         /\ services' = [services EXCEPT ![user[u].service].name = user[u].name]
  BY DEF UpdateService, Found
<1>3. /\ DOMAIN services' = DOMAIN services
      /\ \A t \in DOMAIN services : services'[t] \in ServiceRows /\ services'[t].gone = services[t].gone
  <2>1. CASE services' = services
    BY <2>1 DEF CatalogInv, CatalogTables
  <2>2. ASSUME NEW s \in DOMAIN services, s = user[u].service,
               services' = [services EXCEPT ![s].name = user[u].name]
        PROVE  /\ DOMAIN services' = DOMAIN services
               /\ \A t \in DOMAIN services : services'[t] \in ServiceRows
                                             /\ services'[t].gone = services[t].gone
    <3>1. PICK x \in ServiceRows : x = services[s]
      BY DEF CatalogInv, CatalogTables
    <3>2. PICK n \in ServiceNames : n = user[u].name
      BY <1>1
    <3>3. PICK y \in ServiceRows : y = [x EXCEPT !.name = n]
      BY DEF ServiceRows
    <3>4. y.gone = x.gone
      BY <3>3 DEF ServiceRows
    <3>5. services' = [services EXCEPT ![s] = y]
      BY <2>2, <3>1, <3>2, <3>3
    <3> QED BY <3>1, <3>4, <3>5 DEF CatalogInv, CatalogTables
  <2> QED BY <1>2, <2>1, <2>2
<1>4. Found \subseteq Found'
  BY <1>3 DEF Found
<1>5. CatalogTables' /\ CheckedTold'
  BY <1>1, <1>3 DEF CatalogInv, CatalogTables, CheckedTold
<1>6. VisitorKnows(NotAsking)'
  BY NobodyKnows DEF VisitorKnows
<1> QED BY <1>1, <1>4, <1>5, <1>6, GaugeFrame, VisitorSteps

LEMMA ResetInv == ASSUME CatalogInv, NEW u \in Visitors, Reset(u) PROVE CatalogInv'
<1>1. /\ user[u].pc = "reset" /\ UserGoes(u, NotAsking) /\ UNCHANGED <<services, shifts, notes, uses>>
      /\ gauge' = Restrict(gauge, {l \in DOMAIN gauge : l.service # user[u].service})
  BY DEF Reset, UserEnds
<1>2. /\ DOMAIN gauge' = {l \in DOMAIN gauge : l.service # user[u].service}
      /\ \A l \in DOMAIN gauge' : gauge'[l] = gauge[l]
  BY <1>1 DEF Restrict
<1>3. user'[u] = NotAsking /\ \A v \in Visitors \ {u} : user'[v] = user[v]
  BY <1>1, VisitorGoes
<1>4. GaugeTold'
  BY <1>1, <1>2, <1>3 DEF CatalogInv, GaugeTold, Found
<1>5. CatalogTables' /\ CheckedTold' /\ VisitorKnows(NotAsking)'
  BY <1>1, NobodyKnows DEF CatalogInv, CatalogTables, CheckedTold, VisitorKnows
<1> QED BY <1>1, <1>4, <1>5, VisitorSteps

LEMMA CheckOverlapInv == ASSUME CatalogInv, NEW u \in Visitors, CheckOverlap(u) PROVE CatalogInv'
<1>1. /\ user[u].pc = "overlap" /\ UNCHANGED <<services, shifts, notes, gauge, uses>>
      /\ uses \in 0..MaxUses
      /\ user[u].scope \in Scopes /\ user[u].span \in Spans
  BY DEF CheckOverlap, CatalogInv, CatalogTables, VisitorKnows
<1>2. CASE HasOverlappingOnCall(u)
  BY <1>1, <1>2, NobodyKnows, OnlyVisitor DEF CheckOverlap, UserEnds
<1>3. CASE ~HasOverlappingOnCall(u)
  <2>1. PICK x : x = [pc |-> "insert", scope |-> user[u].scope, span |-> user[u].span,
                      checked |-> DOMAIN shifts]
    OBVIOUS
  <2>2. x \in Inserting /\ x.pc = "insert" /\ x.scope = user[u].scope /\ x.span = user[u].span
        /\ x.checked = DOMAIN shifts
    BY <1>1, <2>1 DEF Inserting, CatalogInv, CatalogTables
  <2>3. \A i \in DOMAIN shifts : ~Overlap(shifts[i], x)
    BY <1>3, <2>2 DEF HasOverlappingOnCall, Overlap
  <2>4. VisitorKnows(x)
    BY <2>2, <2>3 DEF VisitorKnows
  <2>5. UserGoes(u, x)
    BY <1>3, <2>1 DEF CheckOverlap
  <2> QED BY <1>1, <2>4, <2>5, OnlyVisitor
<1> QED BY <1>2, <1>3

LEMMA CreateOnCallInv == ASSUME CatalogInv, NEW u \in Visitors, CreateOnCall(u) PROVE CatalogInv'
<1>1. PICK x \in Inserting : /\ x = user[u] /\ x.checked \subseteq DOMAIN shifts
                             /\ \A i \in x.checked : ~Overlap(shifts[i], x)
  BY DEF CreateOnCall, CatalogInv, VisitorKnows
<1>2. PICK y \in ShiftRows : y = [scope |-> x.scope, span |-> x.span, checked |-> x.checked]
  BY DEF Inserting, ShiftRows
<1>3. y.scope = x.scope /\ y.span = x.span /\ y.checked = x.checked
  BY <1>2
<1>4. PICK k \in ShiftIds \ DOMAIN shifts : shifts' = Put(shifts, k, y)
  BY <1>1, <1>2 DEF CreateOnCall
<1>5. UserGoes(u, NotAsking) /\ UNCHANGED <<services, notes, gauge, uses>> /\ user[u].pc # "reset"
  BY DEF CreateOnCall, UserEnds
<1>6. /\ DOMAIN shifts' = DOMAIN shifts \cup {k} /\ shifts'[k] = y
      /\ \A i \in DOMAIN shifts : shifts'[i] = shifts[i]
  BY <1>4 DEF Put
<1>7. CatalogTables'
  BY <1>1, <1>3, <1>5, <1>6 DEF CatalogInv, CatalogTables
<1>8. CheckedTold'
  <2> SUFFICES ASSUME NEW i \in DOMAIN shifts', NEW j \in DOMAIN shifts', i # j,
                      Overlap(shifts'[i], shifts'[j]), i \in shifts'[j].checked
               PROVE  FALSE
    BY DEF CheckedTold
  <2>1. CASE j = k
    <3>1. i \in x.checked /\ i \in DOMAIN shifts /\ shifts'[i] = shifts[i]
      BY <1>3, <1>6, <2>1
    <3>2. Overlap(shifts[i], x)
      BY <1>3, <1>6, <2>1, <3>1 DEF Overlap
    <3> QED BY <1>1, <3>1, <3>2
  <2>2. CASE j # k
    <3>1. j \in DOMAIN shifts /\ shifts'[j] = shifts[j] /\ i \in DOMAIN shifts /\ shifts'[i] = shifts[i]
      BY <1>6, <2>2 DEF CatalogInv, CatalogTables
    <3> QED BY <3>1 DEF CatalogInv, CheckedTold
  <2> QED BY <2>1, <2>2
<1>9. GaugeTold'
  BY <1>5, GaugeFrame DEF Found
<1>10. VisitorKnows(NotAsking)'
  BY NobodyKnows DEF VisitorKnows
<1> QED BY <1>5, <1>6, <1>7, <1>8, <1>9, <1>10, VisitorSteps

LEMMA DeleteOnCallInv == ASSUME CatalogInv, NEW u \in Visitors, DeleteOnCall(u) PROVE CatalogInv'
<1>1. PICK id : id = user[u].id
  OBVIOUS
<1>2. /\ user[u].pc = "drop shift" /\ UNCHANGED <<services, notes, gauge, uses>>
      /\ shifts' = [i \in DOMAIN shifts \ {id} |-> Forgets(shifts[i], id)]
      /\ user' = [v \in Visitors |-> IF v = u THEN NotAsking
                                     ELSE IF user[v].pc = "insert" THEN Forgets(user[v], id)
                                     ELSE user[v]]
  BY <1>1 DEF DeleteOnCall
<1>3. ASSUME NEW i \in DOMAIN shifts \ {id}
      PROVE  /\ shifts'[i] \in ShiftRows /\ shifts'[i].scope = shifts[i].scope
             /\ shifts'[i].span = shifts[i].span /\ shifts'[i].checked = shifts[i].checked \ {id}
  <2>1. PICK x \in ShiftRows : x = shifts[i]
    BY DEF CatalogInv, CatalogTables
  <2> QED BY <1>2, <2>1 DEF Forgets, ShiftRows
<1>4. DOMAIN shifts' = DOMAIN shifts \ {id}
  BY <1>2
<1>5. CatalogTables'
  <2>1. \A i \in DOMAIN shifts' : shifts'[i] \in ShiftRows /\ shifts'[i].checked \subseteq DOMAIN shifts'
    <3> SUFFICES ASSUME NEW i \in DOMAIN shifts \ {id}
                 PROVE  shifts'[i] \in ShiftRows /\ shifts'[i].checked \subseteq DOMAIN shifts'
      BY <1>4
    <3>1. shifts[i].checked \subseteq DOMAIN shifts
      BY DEF CatalogInv, CatalogTables
    <3> QED BY <1>3, <1>4, <3>1
  <2> QED BY <1>2, <1>4, <2>1 DEF CatalogInv, CatalogTables
<1>6. CheckedTold'
  BY <1>3, <1>4 DEF CatalogInv, CheckedTold, Overlap
<1>7. ASSUME NEW v \in Visitors PROVE VisitorKnows(user[v])'
  <2>1. CASE v = u
    BY <1>2, <2>1, NobodyKnows DEF VisitorKnows
  <2>2. CASE v # u /\ user[v].pc = "insert"
    <3>1. PICK x \in Inserting : /\ x = user[v] /\ x.checked \subseteq DOMAIN shifts
                                 /\ \A i \in x.checked : ~Overlap(shifts[i], x)
      BY <2>2 DEF CatalogInv, VisitorKnows
    <3>2. PICK c \in SUBSET ShiftIds : c = x.checked \ {id}
      BY DEF Inserting
    <3>3. PICK y \in Inserting : y = [x EXCEPT !.checked = c]
      BY DEF Inserting
    <3>4. y = Forgets(x, id) /\ y.checked = x.checked \ {id}
      BY <3>2, <3>3 DEF Forgets, Inserting
    <3>5. y.scope = x.scope /\ y.span = x.span
      BY <3>3 DEF Inserting
    <3>6. user'[v] = y /\ y.pc = "insert"
      BY <1>2, <2>2, <3>1, <3>4 DEF Inserting
    <3>7. \A i \in y.checked : i \in DOMAIN shifts' /\ ~Overlap(shifts'[i], y)
      BY <1>3, <1>4, <3>1, <3>4, <3>5 DEF Overlap
    <3> QED BY <3>6, <3>7 DEF VisitorKnows
  <2>3. CASE v # u /\ user[v].pc # "insert"
    <3>1. user'[v] = user[v] /\ VisitorKnows(user[v])
      BY <1>2, <2>3 DEF CatalogInv
    <3> QED BY <2>3, <3>1 DEF VisitorKnows
  <2> QED BY <2>1, <2>2, <2>3
<1>8. GaugeTold'
  <2>1. \A v \in Visitors : user[v].pc = "reset" => user'[v] = user[v]
    BY <1>2
  <2> QED BY <1>2, <2>1 DEF CatalogInv, GaugeTold, Found
<1>9. DOMAIN user' = Visitors
  BY <1>2
<1> QED BY <1>5, <1>6, <1>7, <1>8, <1>9 DEF CatalogInv

LEMMA NotesInv ==
  ASSUME CatalogInv, NEW u \in Visitors, CreateRunbook(u) \/ DeleteRunbook(u)
  PROVE  CatalogInv'
<1>1. UserGoes(u, NotAsking) /\ UNCHANGED <<services, shifts, gauge, uses>> /\ user[u].pc # "reset"
  BY DEF CreateRunbook, DeleteRunbook, UserEnds
<1>2. DOMAIN notes' \subseteq NoteIds
  BY DEF CreateRunbook, DeleteRunbook, Put, Restrict, CatalogInv, CatalogTables
<1>3. CatalogTables' /\ CheckedTold' /\ VisitorKnows(NotAsking)'
  BY <1>1, <1>2, NobodyKnows DEF CatalogInv, CatalogTables, CheckedTold, VisitorKnows
<1>4. GaugeTold'
  BY <1>1, GaugeFrame DEF Found
<1> QED BY <1>1, <1>3, <1>4, VisitorSteps

LEMMA RecordInv == ASSUME CatalogInv, NEW u \in Visitors, NEW h \in Healths, Record(u, h) PROVE CatalogInv'
<1>1. PICK k : k = [service |-> user[u].service, name |-> user[u].name, from |-> h.from]
  OBVIOUS
<1>2. PICK y : y = [status |-> h.status, late |-> user[u].service \notin Found]
  OBVIOUS
<1>3. /\ UserGoes(u, NotAsking) /\ UNCHANGED <<services, shifts, notes, uses>> /\ user[u].pc # "reset"
      /\ gauge' = Put(gauge, k, y)
  BY <1>1, <1>2 DEF Record, UserEnds
<1>4. /\ DOMAIN gauge' = DOMAIN gauge \cup {k} /\ gauge'[k] = y
      /\ \A l \in DOMAIN gauge \ {k} : gauge'[l] = gauge[l]
  BY <1>3 DEF Put
<1>5. k.service = user[u].service /\ y.late = (user[u].service \notin Found)
  BY <1>1, <1>2
<1>6. user'[u] = NotAsking /\ \A v \in Visitors \ {u} : user'[v] = user[v]
  BY <1>3, VisitorGoes
<1>7. GaugeTold'
  <2> SUFFICES ASSUME NEW l \in DOMAIN gauge'
               PROVE  l.service \in Found \/ gauge'[l].late
                      \/ \E v \in Visitors : user'[v].pc = "reset" /\ user'[v].service = l.service
    BY <1>3 DEF GaugeTold, Found
  <2>1. CASE l = k
    BY <1>4, <1>5, <2>1
  <2>2. CASE l # k
    BY <1>3, <1>4, <1>6, <2>2 DEF CatalogInv, GaugeTold
  <2> QED BY <2>1, <2>2
<1>8. CatalogTables' /\ CheckedTold' /\ VisitorKnows(NotAsking)'
  BY <1>3, NobodyKnows DEF CatalogInv, CatalogTables, CheckedTold, VisitorKnows
<1> QED BY <1>3, <1>7, <1>8, VisitorSteps

LEMMA CatalogRestartInv == ASSUME CatalogInv, CatalogRestart PROVE CatalogInv'
<1>1. /\ DOMAIN gauge' = {} /\ UNCHANGED <<services, shifts, notes, uses>>
      /\ DOMAIN user' = Visitors /\ \A u \in Visitors : user'[u] = NotAsking
  BY DEF CatalogRestart
<1> QED
  BY <1>1, NobodyKnows DEF CatalogInv, CatalogTables, CheckedTold, GaugeTold, VisitorKnows

LEMMA CatalogInvNext == CatalogInv /\ [CatalogNext]_catalogVars => CatalogInv'
<1> SUFFICES ASSUME CatalogInv, [CatalogNext]_catalogVars PROVE CatalogInv'
  OBVIOUS
<1>1. CASE UNCHANGED catalogVars
  BY <1>1
  DEF catalogVars, CatalogInv, CatalogTables, CheckedTold, GaugeTold, VisitorKnows, Found
<1>2. ASSUME NEW u \in Visitors, NEW s \in ServiceIds,
             \/ \E n \in ServiceNames : CreateService(u, s, n) \/ AskRename(u, s, n)
             \/ SoftDelete(u, s) \/ AskNote(u, s) \/ AskHealth(u, s)
             \/ \E g \in {"service", "global"}, p \in Spans : AskShift(u, s, g, p)
             \/ \E i \in ShiftIds : AskDropShift(u, s, i)
             \/ \E i \in NoteIds : AskDropNote(u, s, i)
      PROVE  CatalogInv'
  BY <1>2, CreateServiceInv, SoftDeleteInv, AskInv
<1>3. ASSUME NEW u \in Visitors,
             \/ UpdateService(u) \/ Reset(u) \/ CheckOverlap(u) \/ CreateOnCall(u)
             \/ DeleteOnCall(u) \/ CreateRunbook(u) \/ DeleteRunbook(u)
             \/ \E h \in Healths : Record(u, h)
      PROVE  CatalogInv'
  BY <1>3, UpdateServiceInv, ResetInv, CheckOverlapInv, CreateOnCallInv, DeleteOnCallInv, NotesInv,
     RecordInv
<1> QED BY <1>1, <1>2, <1>3, CatalogRestartInv DEF CatalogNext

LEMMA CatalogInvEnough == CatalogInv => CatalogTypeOK /\ ShiftsTold
<1> SUFFICES ASSUME CatalogInv PROVE CatalogTypeOK /\ ShiftsTold
  OBVIOUS
<1>1. \A i \in DOMAIN shifts : shifts[i].scope \in ServiceIds \cup {Global} /\ shifts[i].span \in Spans
  BY DEF CatalogInv, CatalogTables, ShiftRows, Scopes
<1> QED
  BY <1>1 DEF CatalogInv, CatalogTables, CatalogTypeOK, ShiftsTold, CheckedTold, GaugeTold,
              ServiceRows

(***************************************************************************)
(* Of two shifts that overlap neither was there at the other's check, and  *)
(* a series of a deleted service is about to be dropped or came late, for  *)
(* any services, shifts and visitors (servicecatalog/service.go,           *)
(* handler.go).                                                            *)
(***************************************************************************)
THEOREM ShiftsAndGaugeTold == CatalogSpec => [](CatalogTypeOK /\ ShiftsTold)
  BY CatalogInvInit, CatalogInvNext, CatalogInvEnough, PTL DEF CatalogSpec

-----------------------------------------------------------------------------
(* The metrics cache.  An entry expires at most its life after it was      *)
(* measured, and what a request holds was measured after it began.         *)
ViewerAsks    == [pc : {"look", "collect"}, host : CachedHosts, began : 0..MaxTime]
Measured == [pc : {"hit", "store"}, host : CachedHosts, began : 0..MaxTime, measured : 0..MaxTime]
CacheEntries  == [measured : 0..MaxTime, expires : 0..(MaxTime + Life)]

CacheInv ==
  /\ rows \subseteq CachedHosts /\ time \in 0..MaxTime
  /\ viewer \in [Viewers -> {NoView} \cup ViewerAsks \cup Measured]
  /\ DOMAIN cache \subseteq CachedHosts /\ Cardinality(DOMAIN cache) <= MaxCached
  /\ \A h \in DOMAIN cache : cache[h] \in CacheEntries /\ cache[h].expires <= cache[h].measured + Life
  /\ \A v \in Viewers :
       /\ viewer[v].pc \in {"look", "collect", "store"} => viewer[v].began <= time
       /\ viewer[v].pc = "store" => viewer[v].began <= viewer[v].measured
       /\ viewer[v].pc = "hit" => viewer[v].began < viewer[v].measured + Life

LEMMA ViewKinds ==
  /\ NoView.pc = "idle"
  /\ \A x \in ViewerAsks : x.pc \in {"look", "collect"} /\ x.host \in CachedHosts /\ x.began \in 0..MaxTime
  /\ \A x \in Measured : /\ x.pc \in {"hit", "store"} /\ x.host \in CachedHosts
                         /\ x.began \in 0..MaxTime /\ x.measured \in 0..MaxTime
BY DEF NoView, ViewerAsks, Measured

LEMMA HoldsMeasured ==
  ASSUME NEW v \in Viewers, viewer[v] \in ViewerAsks, NEW step \in {"hit", "store"}, NEW m \in 0..MaxTime,
         Holds(v, step, m)
  PROVE  \E y \in Measured : /\ Views(v, y) /\ y.pc = step
                             /\ y.began = viewer[v].began /\ y.measured = m
<1>1. [pc |-> step, host |-> viewer[v].host, began |-> viewer[v].began, measured |-> m] \in Measured
  BY ViewKinds DEF Measured
<1> QED BY <1>1 DEF Holds

LEMMA PutRow ==
  ASSUME NEW f, NEW k, NEW v
  PROVE  /\ DOMAIN Put(f, k, v) = DOMAIN f \cup {k}
         /\ Put(f, k, v)[k] = v
         /\ \A j \in DOMAIN f \ {k} : Put(f, k, v)[j] = f[j]
BY DEF Put

LEMMA CacheInvInit == MetricsInit => CacheInv
<1> SUFFICES ASSUME MetricsInit PROVE CacheInv
  OBVIOUS
<1>1. DOMAIN cache = {}
  BY DEF MetricsInit
<1>2. Cardinality(DOMAIN cache) <= MaxCached
  BY <1>1, FS_EmptySet, MetricsAssumption
<1> QED BY <1>1, <1>2, ViewKinds, MetricsAssumption DEF MetricsInit, CacheInv

\* A viewer goes on, and the cache and the clock stay.
LEMMA ViewerMoves ==
  ASSUME CacheInv, NEW v \in Viewers, NEW x \in {NoView} \cup ViewerAsks \cup Measured, Views(v, x),
         UNCHANGED <<rows, cache, time>>,
         x.pc \in {"look", "collect", "store"} => x.began <= time,
         x.pc = "store" => x.began <= x.measured,
         x.pc = "hit" => x.began < x.measured + Life
  PROVE  CacheInv'
<1>1. viewer'[v] = x /\ \A w \in Viewers \ {v} : viewer'[w] = viewer[w]
  BY DEF CacheInv, Views
<1>2. viewer' \in [Viewers -> {NoView} \cup ViewerAsks \cup Measured]
  BY DEF CacheInv, Views
<1>3. ASSUME NEW w \in Viewers
      PROVE  /\ viewer'[w].pc \in {"look", "collect", "store"} => viewer'[w].began <= time
             /\ viewer'[w].pc = "store" => viewer'[w].began <= viewer'[w].measured
             /\ viewer'[w].pc = "hit" => viewer'[w].began < viewer'[w].measured + Life
  <2>1. CASE w = v
    BY <1>1, <2>1
  <2>2. CASE w # v
    BY <1>1, <2>2 DEF CacheInv
  <2> QED BY <2>1, <2>2
<1> QED BY <1>2, <1>3 DEF CacheInv

LEMMA FindHostInv ==
  ASSUME CacheInv, NEW v \in Viewers, NEW h \in CachedHosts, FindHost(v, h)
  PROVE  CacheInv'
<1>1. [pc |-> "look", host |-> h, began |-> time] \in ViewerAsks
  BY DEF CacheInv, ViewerAsks
<1>2. time <= time
  BY MetricsAssumption DEF CacheInv
<1> QED BY <1>1, <1>2, ViewerMoves DEF FindHost

LEMMA AskedView ==
  ASSUME CacheInv, NEW v \in Viewers
  PROVE  /\ viewer[v].pc \in {"look", "collect"} => viewer[v] \in ViewerAsks /\ viewer[v].began <= time
         /\ viewer[v].pc = "store" => /\ viewer[v] \in Measured /\ viewer[v].began <= time
                                      /\ viewer[v].began <= viewer[v].measured
BY ViewKinds DEF CacheInv

LEMMA LookupInv == ASSUME CacheInv, NEW v \in Viewers, Lookup(v) PROVE CacheInv'
<1>1. PICK x \in ViewerAsks : x = viewer[v] /\ x.began <= time
  BY AskedView DEF Lookup
<1>2. UNCHANGED <<rows, cache, time>>
  BY DEF Lookup
<1>3. ASSUME NEW e \in Kept(x.host), e.expires > x.began,
             Holds(v, "hit", e.measured)
      PROVE  CacheInv'
  <2>1. e \in CacheEntries /\ e.expires <= e.measured + Life
    BY <1>3 DEF Kept, CacheInv
  <2>2. e.measured \in 0..MaxTime /\ e.expires \in 0..(MaxTime + Life) /\ x.began \in 0..MaxTime
    BY <2>1, ViewKinds DEF CacheEntries
  <2>3. x.began < e.measured + Life
    BY <1>3, <2>1, <2>2, MetricsAssumption
  <2>4. PICK y \in Measured : /\ Views(v, y) /\ y.pc = "hit" /\ y.began = x.began
                              /\ y.measured = e.measured
    BY <1>1, <1>3, <2>2, HoldsMeasured
  <2> QED BY <1>2, <1>3, <2>3, <2>4, ViewerMoves
<1>4. CASE Views(v, [x EXCEPT !.pc = "collect"])
  <2>1. PICK y \in ViewerAsks : y = [x EXCEPT !.pc = "collect"]
    BY DEF ViewerAsks
  <2>2. y.pc = "collect" /\ y.began = x.began
    BY <2>1 DEF ViewerAsks
  <2> QED BY <1>1, <1>2, <1>4, <2>1, <2>2, ViewerMoves
<1> QED BY <1>1, <1>3, <1>4 DEF Lookup

LEMMA CollectInv == ASSUME CacheInv, NEW v \in Viewers, Collect(v) PROVE CacheInv'
<1>1. PICK x \in ViewerAsks : x = viewer[v] /\ x.began <= time
  BY AskedView DEF Collect
<1>2. PICK y \in Measured : Views(v, y) /\ y.pc = "store" /\ y.began = x.began /\ y.measured = time
  BY <1>1, HoldsMeasured DEF Collect, CacheInv
<1> QED BY <1>1, <1>2, ViewerMoves DEF Collect

LEMMA CacheStoreInv == ASSUME CacheInv, NEW v \in Viewers, Store(v) PROVE CacheInv'
<1>1. PICK x \in Measured : x = viewer[v] /\ x.began <= time /\ x.began <= x.measured
  BY AskedView DEF Store
<1>2. PICK h \in CachedHosts : h = x.host
  BY ViewKinds
<1>3. PICK e \in CacheEntries : e = Entry(v) /\ e.expires <= e.measured + Life
  <2>1. x.began \in 0..MaxTime /\ x.measured \in 0..MaxTime
    BY ViewKinds
  <2>2. Entry(v) \in CacheEntries
    BY <1>1, <2>1, MetricsAssumption DEF Entry, CacheEntries
  <2>3. Entry(v).expires <= Entry(v).measured + Life
    BY <1>1, <2>1, MetricsAssumption DEF Entry
  <2> QED BY <2>2, <2>3
<1>4. IsFiniteSet(DOMAIN cache) /\ Cardinality(DOMAIN cache) \in Nat
  BY FS_Subset, FS_CardinalityType, MetricsAssumption DEF CacheInv
<1>5. /\ DOMAIN cache' \subseteq CachedHosts /\ Cardinality(DOMAIN cache') <= MaxCached
      /\ \A g \in DOMAIN cache' : cache'[g] = e \/ (g \in DOMAIN cache /\ cache'[g] = cache[g])
  <2>1. CASE h \notin DOMAIN cache /\ Cardinality(DOMAIN cache) >= MaxCached
    <3>1. PICK d \in DOMAIN cache : cache' = Put(Restrict(cache, DOMAIN cache \ {d}), h, e)
      BY <1>1, <1>2, <1>3, <2>1 DEF Store
    <3>2. DOMAIN cache' = (DOMAIN cache \ {d}) \cup {h}
      BY <3>1 DEF Put, Restrict
    <3>3. \A g \in DOMAIN cache' : cache'[g] = e \/ (g \in DOMAIN cache /\ cache'[g] = cache[g])
      BY <3>1 DEF Put, Restrict
    <3>4. /\ IsFiniteSet(DOMAIN cache \ {d})
          /\ Cardinality(DOMAIN cache \ {d}) = Cardinality(DOMAIN cache) - 1
      BY <1>4, FS_RemoveElement
    <3>5. Cardinality((DOMAIN cache \ {d}) \cup {h}) =
            IF h \in DOMAIN cache \ {d} THEN Cardinality(DOMAIN cache \ {d})
            ELSE Cardinality(DOMAIN cache \ {d}) + 1
      BY <3>4, FS_AddElement
    <3>6. Cardinality(DOMAIN cache') <= MaxCached
      BY <1>4, <3>2, <3>4, <3>5, MetricsAssumption DEF CacheInv
    <3> QED BY <3>2, <3>3, <3>6 DEF CacheInv
  <2>2. CASE ~(h \notin DOMAIN cache /\ Cardinality(DOMAIN cache) >= MaxCached)
    <3>1. cache' = Put(cache, h, e)
      BY <1>1, <1>2, <1>3, <2>2 DEF Store
    <3>2. DOMAIN cache' = DOMAIN cache \cup {h}
      BY <3>1 DEF Put
    <3>3. \A g \in DOMAIN cache' : cache'[g] = e \/ (g \in DOMAIN cache /\ cache'[g] = cache[g])
      BY <3>1 DEF Put
    <3>4. Cardinality(DOMAIN cache \cup {h}) = IF h \in DOMAIN cache THEN Cardinality(DOMAIN cache)
                                               ELSE Cardinality(DOMAIN cache) + 1
      BY <1>4, FS_AddElement
    <3>5. Cardinality(DOMAIN cache') <= MaxCached
      BY <1>4, <2>2, <3>2, <3>4, MetricsAssumption DEF CacheInv
    <3> QED BY <3>2, <3>3, <3>5 DEF CacheInv
  <2> QED BY <2>1, <2>2
<1>6. rows' = rows /\ time' = time /\ Views(v, NoView)
  BY DEF Store
<1>7. viewer'[v] = NoView /\ \A w \in Viewers \ {v} : viewer'[w] = viewer[w]
  BY <1>6 DEF CacheInv, Views
<1>8. viewer' \in [Viewers -> {NoView} \cup ViewerAsks \cup Measured]
  BY <1>6 DEF CacheInv, Views
<1>9. ASSUME NEW w \in Viewers
      PROVE  /\ viewer'[w].pc \in {"look", "collect", "store"} => viewer'[w].began <= time
             /\ viewer'[w].pc = "store" => viewer'[w].began <= viewer'[w].measured
             /\ viewer'[w].pc = "hit" => viewer'[w].began < viewer'[w].measured + Life
  BY <1>7, ViewKinds DEF CacheInv
<1>10. \A g \in DOMAIN cache' : cache'[g] \in CacheEntries /\ cache'[g].expires <= cache'[g].measured + Life
  BY <1>3, <1>5 DEF CacheInv
<1> QED BY <1>5, <1>6, <1>8, <1>9, <1>10 DEF CacheInv

LEMMA PassesInv == ASSUME CacheInv, Passes PROVE CacheInv'
<1>1. time' = time + 1 /\ time' \in 0..MaxTime /\ UNCHANGED <<rows, cache, viewer>>
  BY MetricsAssumption DEF Passes, CacheInv
<1>2. ASSUME NEW v \in Viewers, viewer[v].pc \in {"look", "collect", "store"}
      PROVE  viewer[v].began <= time'
  <2>1. viewer[v].began <= time /\ viewer[v].began \in 0..MaxTime
    BY <1>2, AskedView, ViewKinds
  <2> QED BY <1>1, <2>1 DEF CacheInv
<1> QED BY <1>1, <1>2 DEF CacheInv

LEMMA CacheInvNext == CacheInv /\ [MetricsNext]_cacheVars => CacheInv'
<1> SUFFICES ASSUME CacheInv, [MetricsNext]_cacheVars PROVE CacheInv'
  OBVIOUS
<1>1. CASE UNCHANGED cacheVars
  BY <1>1 DEF CacheInv, cacheVars
<1>2. ASSUME NEW v \in Viewers, Show(v) PROVE CacheInv'
  BY <1>2, ViewerMoves, ViewKinds DEF Show
<1>3. ASSUME NEW h \in CachedHosts, DropHost(h) PROVE CacheInv'
  BY <1>3 DEF DropHost, CacheInv
<1> QED
  BY <1>1, <1>2, <1>3, FindHostInv, LookupInv, CollectInv, CacheStoreInv, PassesInv DEF MetricsNext

LEMMA CacheInvEnough == CacheInv => MetricsTypeOK /\ CacheTold
<1> SUFFICES ASSUME CacheInv PROVE MetricsTypeOK /\ CacheTold
  OBVIOUS
<1>1. ASSUME NEW v \in Viewers, viewer[v].pc = "hit" PROVE viewer[v].began - viewer[v].measured < Life
  <2>1. viewer[v] \in Measured /\ viewer[v].began < viewer[v].measured + Life
    BY <1>1, ViewKinds DEF CacheInv
  <2> QED BY <2>1, ViewKinds, MetricsAssumption
<1> QED BY <1>1 DEF CacheInv, MetricsTypeOK, CacheTold, CacheEntries

(***************************************************************************)
(* The metrics a request is answered from the cache were measured less     *)
(* than the cache's life before it began, and the cache never holds more   *)
(* than its bound, for any hosts, requests and times (cache.go).           *)
(***************************************************************************)
THEOREM CacheAnswersAreFresh == MetricsSpec => [](MetricsTypeOK /\ CacheTold)
  BY CacheInvInit, CacheInvNext, CacheInvEnough, PTL DEF MetricsSpec

-----------------------------------------------------------------------------
(* Roles.  The highest of several roles is one of them, and one more role  *)
(* makes it no lower.                                                      *)
LEMMA KnownRoles ==
  /\ AllRoles = {"SuperAdmin", "Operator", "Developer", "Auditor", "ScopedAuditor", "ProjectAdmin"}
  /\ roleRank["SuperAdmin"] = 4 /\ roleRank["Operator"] = 3 /\ roleRank["Developer"] = 2
  /\ roleRank["Auditor"] = 1 /\ roleRank["ProjectAdmin"] = 0 /\ roleRank["ScopedAuditor"] = -1
BY DEF AllRoles, RolePermissions, roleRank

LEMMA HighestRole ==
  ASSUME NEW roles \in SUBSET AllRoles
  PROVE  /\ mapRole(roles) \in AllRoles /\ roleRank[mapRole(roles)] >= 0
         /\ \A s \in roles : roleRank[mapRole(roles)] >= roleRank[s]
         /\ mapRole(roles) \in roles \cup {"ProjectAdmin"}
<1>1. PICK known : known = {r \in roles : roleRank[r] >= 0} \cup {"ProjectAdmin"}
  OBVIOUS
<1>2. \E r \in known : \A s \in known : roleRank[r] >= roleRank[s]
  <2>1. CASE "SuperAdmin" \in known
    BY <1>1, <2>1, KnownRoles
  <2>2. CASE "SuperAdmin" \notin known /\ "Operator" \in known
    BY <1>1, <2>2, KnownRoles
  <2>3. CASE "SuperAdmin" \notin known /\ "Operator" \notin known /\ "Developer" \in known
    BY <1>1, <2>3, KnownRoles
  <2>4. CASE {"SuperAdmin", "Operator", "Developer"} \cap known = {} /\ "Auditor" \in known
    BY <1>1, <2>4, KnownRoles
  <2>5. CASE {"SuperAdmin", "Operator", "Developer", "Auditor"} \cap known = {}
    BY <1>1, <2>5, KnownRoles
  <2> QED BY <2>1, <2>2, <2>3, <2>4, <2>5
<1>3. mapRole(roles) \in known /\ \A s \in known : roleRank[mapRole(roles)] >= roleRank[s]
  BY <1>1, <1>2 DEF mapRole
<1>4. \A s \in AllRoles : roleRank[s] \in Int
  BY KnownRoles
<1>5. PICK m \in AllRoles : m = mapRole(roles) /\ m \in known
  BY <1>1, <1>3, KnownRoles
<1>6. roleRank[m] >= 0 /\ m \in roles \cup {"ProjectAdmin"}
  BY <1>1, <1>3, <1>5, KnownRoles
<1>7. ASSUME NEW s \in roles PROVE roleRank[m] >= roleRank[s]
  <2>1. CASE roleRank[s] >= 0
    BY <1>1, <1>3, <1>5, <2>1
  <2>2. CASE ~(roleRank[s] >= 0)
    BY <1>4, <1>6, <2>2
  <2> QED BY <2>1, <2>2
<1> QED BY <1>5, <1>6, <1>7

LEMMA HigherHolds ==
  ASSUME NEW r \in AllRoles, NEW s \in AllRoles, roleRank[s] >= roleRank[r], roleRank[r] >= 0,
         NEW p, RoleHasPermission(r, p)
  PROVE  RoleHasPermission(s, p) \/ p = "audit.view"
<1>1. r \in {"SuperAdmin", "Operator", "Developer", "Auditor"}
  BY KnownRoles DEF RoleHasPermission, RolePermissions
<1>2. s \in {"SuperAdmin", "Operator", "Developer", "Auditor"}
  BY <1>1, KnownRoles
<1>3. s = r \/ s = "SuperAdmin" \/ (s = "Operator" /\ r \in {"Developer", "Auditor"})
      \/ (s = "Developer" /\ r = "Auditor")
  BY <1>1, <1>2, KnownRoles
<1>4. p \in RolePermissions[r]
  BY DEF RoleHasPermission
<1>5. /\ RolePermissions["SuperAdmin"] = allPermissions
      /\ RolePermissions["Operator"] = allPermissions \ {"devices.restart"}
      /\ RolePermissions["Developer"] = DeveloperPermissions
      /\ RolePermissions["Auditor"] = DeveloperPermissions \cup {"audit.view"}
      /\ {"SuperAdmin", "Operator", "Developer", "Auditor"} \subseteq DOMAIN RolePermissions
  BY DEF RolePermissions
<1>6. DeveloperPermissions \subseteq allPermissions /\ "audit.view" \in allPermissions
      /\ "devices.restart" \notin DeveloperPermissions
  BY DEF DeveloperPermissions, allPermissions
<1> QED BY <1>1, <1>2, <1>3, <1>4, <1>5, <1>6 DEF RoleHasPermission

(***************************************************************************)
(* One more role takes nothing but the audit log from a user               *)
(* (contracts/user.go, ldap's mapRole).                                    *)
(***************************************************************************)
THEOREM RanksKeep == RanksKeepPermissions
<1> SUFFICES ASSUME NEW roles \in SUBSET AllRoles, NEW r \in AllRoles, NEW p \in Permissions,
                    RoleHasPermission(mapRole(roles), p)
             PROVE  RoleHasPermission(mapRole(roles \cup {r}), p) \/ p = "audit.view"
  BY DEF RanksKeepPermissions
<1>1. PICK m \in AllRoles : m = mapRole(roles) /\ m \in roles \cup {"ProjectAdmin"} /\ roleRank[m] >= 0
  BY HighestRole
<1>2. PICK n \in AllRoles : /\ n = mapRole(roles \cup {r}) /\ roleRank[n] >= 0
                            /\ \A s \in roles \cup {r} : roleRank[n] >= roleRank[s]
  BY HighestRole
<1>3. roleRank[n] >= roleRank[m]
  BY <1>1, <1>2, KnownRoles
<1> QED BY <1>1, <1>2, <1>3, HigherHolds

LEMMA ExecRoles ==
  ASSUME NEW r, RoleHasPermission(r, "k8s.pods.exec")
  PROVE  r \in {"SuperAdmin", "Operator"}
<1>1. r \in {"SuperAdmin", "Operator", "Developer", "Auditor", "ScopedAuditor"}
  BY DEF RoleHasPermission, RolePermissions
<1>2. "k8s.pods.exec" \notin DeveloperPermissions
  BY DEF DeveloperPermissions
<1>3. /\ RolePermissions["Developer"] = DeveloperPermissions
      /\ RolePermissions["Auditor"] = DeveloperPermissions \cup {"audit.view"}
      /\ RolePermissions["ScopedAuditor"] = DeveloperPermissions \cup {"audit.view", "audit.view.project"}
  BY DEF RolePermissions
<1> QED BY <1>1, <1>2, <1>3 DEF RoleHasPermission

-----------------------------------------------------------------------------
(* Logging in.  A bucket counts failures this process has seen since the   *)
(* bucket's first, and with the logins under way of its person it stays    *)
(* below the limit and all logins; a token's role is its person's, or was  *)
(* lost after the token was issued.                                        *)
LoginCalls == [pc : {"ask", "right", "wrong"}, who : People]
Failures   == [who : People, at : 0..MaxTicks]
Tokens     == [who : People, role : Granted, until : 0..(MaxTicks + TokenLife)]
Admissions == [who : People, for : Needed, at : 0..MaxTicks]
Buckets    == [fails : Nat, first : 0..MaxTicks]

LoginUnderWay(p) == {l \in Logins : login[l] \in LoginCalls /\ login[l].who = p}
Since(p, k) == {i \in DOMAIN failures : failures[i].who = p /\ failures[i].at >= k}

LoginTypes ==
  /\ directory \in {"fake", "real"} /\ roleOf \in [People -> Roles]
  /\ login \in [Logins -> {Away} \cup LoginCalls]
  /\ clock \in 0..MaxTicks /\ tries \in 0..MaxTries
  /\ DOMAIN buckets \subseteq People /\ \A p \in DOMAIN buckets : buckets[p] \in Buckets
  /\ failures \in Seq(Failures) /\ \A i \in DOMAIN failures : failures[i].at <= clock
  /\ tokens \subseteq Tokens /\ admitted \subseteq Admissions /\ turned \subseteq Failures
  /\ lost \in [People -> [Granted -> {-1} \cup 0..MaxTicks]]

CountsTold ==
  /\ \A p \in People : Cardinality(LoginUnderWay(p)) <= tries
  /\ \A p \in DOMAIN buckets :
       /\ buckets[p].fails >= 1
       /\ buckets[p].fails + Cardinality(LoginUnderWay(p)) <= tries
       /\ buckets[p].fails + Cardinality(LoginUnderWay(p)) <= MaxFails - 1 + Cardinality(Logins)

FailuresTold ==
  /\ \A p \in DOMAIN buckets : buckets[p].fails <= Cardinality(Since(p, buckets[p].first))
  /\ \A t \in turned : Cardinality(FailedBefore(t)) >= MaxFails

HasOrHad(p, r, until) == r = RoleFor(roleOf[p]) \/ lost[p][r] + TokenLife >= until
EntitledAt(a, r) ==
  /\ RoleHasPermission(r, a.for)
  /\ r = RoleFor(roleOf[a.who]) \/ (lost[a.who][r] >= 0 /\ a.at - lost[a.who][r] < TokenLife)

TokensTold ==
  /\ \A t \in tokens : /\ t.until >= TokenLife /\ t.until <= clock + TokenLife
                       /\ HasOrHad(t.who, t.role, t.until)
  /\ \A a \in admitted : a.at <= clock /\ \E r \in Granted : EntitledAt(a, r)
  /\ directory = "real" => tokens = {} /\ \A l \in Logins : login[l].pc # "right"

LoginInv == LoginTypes /\ CountsTold /\ FailuresTold /\ TokensTold

LEMMA LoginKinds ==
  /\ Away.pc = "away" /\ Away \notin LoginCalls
  /\ \A x \in LoginCalls : x.pc \in {"ask", "right", "wrong"} /\ x.who \in People
  /\ \A x \in Failures : x.who \in People /\ x.at \in 0..MaxTicks
  /\ \A t \in Tokens : t.who \in People /\ t.role \in Granted /\ t.until \in 0..(MaxTicks + TokenLife)
  /\ \A a \in Admissions : a.who \in People /\ a.at \in 0..MaxTicks
  /\ \A b \in Buckets : b.fails \in Nat /\ b.first \in 0..MaxTicks
<1>1. \A x \in LoginCalls : x.pc \in {"ask", "right", "wrong"} /\ x.who \in People
  BY DEF LoginCalls
<1>2. Away.pc = "away"
  BY DEF Away
<1> QED BY <1>1, <1>2 DEF Failures, Tokens, Admissions, Buckets

LEMMA GrantedRole == LoginTypes => \A p \in People : RoleFor(roleOf[p]) \in Granted
BY DEF LoginTypes, Granted

LEMMA UnderWayFinite ==
  ASSUME NEW S \in SUBSET Logins
  PROVE  /\ IsFiniteSet(S) /\ Cardinality(S) \in Nat /\ Cardinality(Logins) \in Nat
         /\ Cardinality(S) <= Cardinality(Logins)
<1>1. IsFiniteSet(S) /\ Cardinality(S) <= Cardinality(Logins)
  BY LoginAssumption, FS_Subset
<1> QED BY <1>1, LoginAssumption, FS_CardinalityType

LEMMA SomeFailures ==
  ASSUME LoginTypes, NEW S \in SUBSET DOMAIN failures
  PROVE  IsFiniteSet(S) /\ Cardinality(S) \in Nat
<1>1. DOMAIN failures = 1..Len(failures) /\ Len(failures) \in Nat
  BY LenProperties DEF LoginTypes
<1>2. IsFiniteSet(DOMAIN failures)
  BY <1>1, FS_Interval
<1> QED BY <1>2, FS_Subset, FS_CardinalityType

LEMMA LoginInvInit == LoginInit => LoginInv
<1> SUFFICES ASSUME LoginInit PROVE LoginInv
  OBVIOUS
<1>1. /\ DOMAIN buckets = {} /\ failures = <<>> /\ DOMAIN failures = {} /\ failures \in Seq(Failures)
      /\ \A l \in Logins : login[l] = Away
  BY DEF LoginInit
<1>2. -1 \in {-1} \cup 0..MaxTicks /\ 0 \in 0..MaxTicks /\ 0 \in 0..MaxTries
  BY LoginAssumption
<1>3. LoginTypes
  BY <1>1, <1>2 DEF LoginInit, LoginTypes
<1>4. \A p \in People : LoginUnderWay(p) = {}
  BY <1>1, LoginKinds DEF LoginUnderWay
<1>5. CountsTold
  <2>1. Cardinality({}) = 0 /\ tries = 0
    BY FS_EmptySet DEF LoginInit
  <2>2. \A p \in People : Cardinality(LoginUnderWay(p)) = 0
    BY <1>4, <2>1
  <2> QED BY <1>1, <2>1, <2>2 DEF CountsTold
<1>6. FailuresTold /\ TokensTold
  BY <1>1, LoginKinds DEF LoginInit, FailuresTold, TokensTold
<1> QED BY <1>3, <1>5, <1>6 DEF LoginInv

-----------------------------------------------------------------------------
(* What the steps of a login leave told.                                   *)
LEMMA FailuresStay ==
  ASSUME FailuresTold, UNCHANGED <<failures, turned>>,
         \A p \in DOMAIN buckets' : p \in DOMAIN buckets /\ buckets'[p] = buckets[p]
  PROVE  FailuresTold'
BY DEF FailuresTold, Since, FailedBefore

LEMMA TokensStay ==
  ASSUME TokensTold, UNCHANGED <<directory, roleOf, tokens, admitted, clock, lost>>,
         \A l \in Logins : login'[l].pc = "right" => login[l].pc = "right" \/ directory = "fake"
  PROVE  TokensTold'
<1>1. directory = "real" => tokens' = {} /\ \A l \in Logins : login'[l].pc # "right"
  BY DEF TokensTold
<1>2. \A p, r, u : HasOrHad(p, r, u)' <=> HasOrHad(p, r, u)
  BY DEF HasOrHad
<1>3. \A a, r : EntitledAt(a, r)' <=> EntitledAt(a, r)
  BY DEF EntitledAt
<1> QED BY <1>1, <1>2, <1>3 DEF TokensTold

\* One login goes on; of whom it is decides who is counted.
LEMMA LoginGoes ==
  ASSUME LoginTypes, NEW l \in Logins, NEW x \in {Away} \cup LoginCalls, Does(l, x)
  PROVE  /\ login' \in [Logins -> {Away} \cup LoginCalls]
         /\ login'[l] = x /\ \A k \in Logins \ {l} : login'[k] = login[k]
         /\ \A p \in People :
              LoginUnderWay(p)' = IF x \in LoginCalls /\ x.who = p THEN LoginUnderWay(p) \cup {l}
                             ELSE LoginUnderWay(p) \ {l}
<1>1. /\ login' \in [Logins -> {Away} \cup LoginCalls]
      /\ login'[l] = x /\ \A k \in Logins \ {l} : login'[k] = login[k]
  BY DEF LoginTypes, Does
<1> QED BY <1>1 DEF LoginUnderWay

LEMMA CheckLimitInv ==
  ASSUME LoginInv, NEW l \in Logins, NEW p \in People, CheckLimit(l, p)
  PROVE  LoginInv'
<1>1. /\ login[l] = Away /\ tries' = tries + 1 /\ tries' \in 0..MaxTries /\ tries \in Nat
      /\ UNCHANGED <<directory, roleOf, tokens, admitted, clock, failures, lost>>
  BY LoginAssumption DEF CheckLimit, LoginInv, LoginTypes
<1>2. CASE OverLimit(p)
  <2>1. UNCHANGED <<buckets, login>> /\ turned' = turned \cup {[who |-> p, at |-> clock]}
    BY <1>2 DEF CheckLimit
  <2>2. PICK t \in Failures : t = [who |-> p, at |-> clock]
    BY DEF Failures, LoginInv, LoginTypes
  <2>3. t.who = p /\ t.at = clock
    BY <2>2
  <2>4. Cardinality(FailedBefore(t)) >= MaxFails
    <3>1. /\ p \in DOMAIN buckets /\ buckets[p] \in Buckets /\ clock - buckets[p].first <= Window
          /\ buckets[p].fails >= MaxFails
      BY <1>2, LoginKinds, LoginAssumption DEF OverLimit, Expired, LoginInv, LoginTypes
    <3>2. PICK first \in 0..MaxTicks : first = buckets[p].first
      BY <3>1, LoginKinds
    <3>3. Since(p, first) \in SUBSET FailedBefore(t)
      <4> SUFFICES ASSUME NEW i \in Since(p, first) PROVE i \in FailedBefore(t)
        OBVIOUS
      <4>1. i \in DOMAIN failures /\ failures[i].who = p /\ failures[i].at >= first
            /\ failures[i].at <= clock
        BY DEF Since, LoginInv, LoginTypes
      <4>2. failures[i] \in Failures
        BY <4>1, ElementOfSeq, LenProperties DEF LoginInv, LoginTypes
      <4>3. t.at - failures[i].at \in 0..Window
        <5>1. failures[i].at \in Nat /\ clock \in Nat /\ first \in Nat /\ Window \in Nat
          BY <3>2, <4>2, LoginKinds, LoginAssumption DEF LoginInv, LoginTypes
        <5>2. first <= failures[i].at /\ failures[i].at <= clock /\ clock - first <= Window
          BY <3>1, <3>2, <4>1
        <5> QED BY <2>3, <5>1, <5>2
      <4> QED BY <2>3, <4>1, <4>3 DEF FailedBefore
    <3>4. FailedBefore(t) \in SUBSET DOMAIN failures /\ Since(p, first) \in SUBSET DOMAIN failures
      BY DEF FailedBefore, Since
    <3>5. /\ Cardinality(Since(p, first)) <= Cardinality(FailedBefore(t))
          /\ Cardinality(FailedBefore(t)) \in Nat /\ Cardinality(Since(p, first)) \in Nat
      BY <3>3, <3>4, SomeFailures, FS_Subset DEF LoginInv
    <3>6. buckets[p].fails <= Cardinality(Since(p, first)) /\ buckets[p].fails \in Nat
      BY <3>1, <3>2, LoginKinds DEF LoginInv, FailuresTold
    <3> QED BY <3>1, <3>5, <3>6, LoginAssumption
  <2>5. LoginTypes'
    BY <1>1, <2>1, <2>2 DEF LoginInv, LoginTypes
  <2>6. FailuresTold'
    <3>1. \A u \in turned' : Cardinality(FailedBefore(u)) >= MaxFails
      BY <2>1, <2>2, <2>4 DEF LoginInv, FailuresTold
    <3> QED BY <1>1, <2>1, <3>1 DEF LoginInv, FailuresTold, FailedBefore, Since
  <2>7. CountsTold'
    <3>1. \A q : LoginUnderWay(q)' = LoginUnderWay(q)
      BY <2>1 DEF LoginUnderWay
    <3>2. \A q : Cardinality(LoginUnderWay(q)) \in Nat
      BY UnderWayFinite DEF LoginUnderWay
    <3>3. \A q \in DOMAIN buckets : buckets[q].fails \in Nat
      BY LoginKinds DEF LoginInv, LoginTypes
    <3> QED BY <1>1, <2>1, <3>1, <3>2, <3>3 DEF LoginInv, CountsTold
  <2>8. TokensTold'
    BY <1>1, <2>1, TokensStay DEF LoginInv
  <2> QED BY <2>5, <2>6, <2>7, <2>8 DEF LoginInv
<1>3. CASE ~OverLimit(p)
  <2>1. PICK x \in LoginCalls : x = [pc |-> "ask", who |-> p]
    BY DEF LoginCalls
  <2>2. x.pc = "ask" /\ x.who = p
    BY <2>1
  <2>3. /\ buckets' = Restrict(buckets, {q \in DOMAIN buckets : q = p => ~Expired(p)})
        /\ Does(l, x) /\ turned' = turned
    BY <1>3, <2>1 DEF CheckLimit
  <2>4. /\ DOMAIN buckets' = {q \in DOMAIN buckets : q = p => ~Expired(p)}
        /\ \A q \in DOMAIN buckets' : q \in DOMAIN buckets /\ buckets'[q] = buckets[q]
    BY <2>3 DEF Restrict
  <2>5. /\ login' \in [Logins -> {Away} \cup LoginCalls]
        /\ login'[l] = x /\ \A k \in Logins \ {l} : login'[k] = login[k]
        /\ \A q \in People : LoginUnderWay(q)' = IF q = p THEN LoginUnderWay(q) \cup {l} ELSE LoginUnderWay(q) \ {l}
    BY <2>2, <2>3, LoginGoes DEF LoginInv
  <2>6. LoginTypes'
    BY <1>1, <2>3, <2>4, <2>5 DEF LoginInv, LoginTypes
  <2>7. \A q \in People : /\ LoginUnderWay(q) \subseteq Logins /\ LoginUnderWay(q)' \subseteq Logins
                          /\ l \notin LoginUnderWay(q)
    BY <1>1, LoginKinds DEF LoginUnderWay
  <2>8. ASSUME NEW q \in People \ {p} PROVE LoginUnderWay(q)' = LoginUnderWay(q)
    <3>1. LoginUnderWay(q)' = LoginUnderWay(q) \ {l}
      BY <2>5
    <3>2. l \notin LoginUnderWay(q)
      BY <2>7
    <3> QED BY <3>1, <3>2
  <2>9. /\ Cardinality(LoginUnderWay(p)') = Cardinality(LoginUnderWay(p)) + 1
        /\ Cardinality(LoginUnderWay(p)') <= Cardinality(Logins)
    BY <2>5, <2>7, UnderWayFinite, FS_AddElement
  <2>10. p \in DOMAIN buckets' => buckets[p].fails < MaxFails
    <3>1. p \in DOMAIN buckets' => p \in DOMAIN buckets /\ ~Expired(p)
      BY <2>4
    <3>2. p \in DOMAIN buckets => buckets[p].fails \in Nat
      BY LoginKinds DEF LoginInv, LoginTypes
    <3> QED BY <1>3, <3>1, <3>2, LoginAssumption DEF OverLimit
  <2>11. CountsTold'
    <3>1. ASSUME NEW q \in People
          PROVE  /\ Cardinality(LoginUnderWay(q)') <= tries'
                 /\ q \in DOMAIN buckets' =>
                      /\ buckets'[q].fails >= 1
                      /\ buckets'[q].fails + Cardinality(LoginUnderWay(q)') <= tries'
                      /\ buckets'[q].fails + Cardinality(LoginUnderWay(q)') <= MaxFails - 1 + Cardinality(Logins)
      <4>1. Cardinality(LoginUnderWay(q)) \in Nat /\ Cardinality(Logins) \in Nat
            /\ Cardinality(LoginUnderWay(q)) <= tries
        BY <2>7, UnderWayFinite DEF LoginInv, CountsTold
      <4>2. q \in DOMAIN buckets' =>
              /\ buckets'[q].fails \in Nat /\ buckets'[q].fails = buckets[q].fails
              /\ buckets[q].fails >= 1
              /\ buckets[q].fails + Cardinality(LoginUnderWay(q)) <= tries
              /\ buckets[q].fails + Cardinality(LoginUnderWay(q)) <= MaxFails - 1 + Cardinality(Logins)
        BY <2>4, LoginKinds DEF LoginInv, CountsTold, LoginTypes
      <4>3. CASE q = p
        BY <1>1, <2>9, <2>10, <4>1, <4>2, <4>3, LoginAssumption
      <4>4. CASE q # p
        <5>1. LoginUnderWay(q)' = LoginUnderWay(q)
          BY <2>8, <4>4
        <5> QED BY <1>1, <4>1, <4>2, <5>1, LoginAssumption
      <4> QED BY <4>3, <4>4
    <3>2. DOMAIN buckets' \subseteq People
      BY <2>4 DEF LoginInv, LoginTypes
    <3> QED BY <3>1, <3>2 DEF CountsTold
  <2>12. FailuresTold'
    BY <1>1, <2>3, <2>4, FailuresStay DEF LoginInv
  <2>13. TokensTold'
    BY <1>1, <2>2, <2>5, TokensStay DEF LoginInv
  <2> QED BY <2>6, <2>11, <2>12, <2>13 DEF LoginInv
<1> QED BY <1>2, <1>3

LEMMA AskDirectoryInv ==
  ASSUME LoginInv, NEW l \in Logins, NEW right \in BOOLEAN, AskDirectory(l, right)
  PROVE  LoginInv'
<1>1. PICK x \in LoginCalls : x = login[l]
  BY LoginKinds DEF AskDirectory, LoginInv, LoginTypes
<1>2. PICK step \in {"right", "wrong"} : step = IF right THEN "right" ELSE "wrong"
  OBVIOUS
<1>3. PICK y \in LoginCalls : y = [x EXCEPT !.pc = step]
  BY DEF LoginCalls
<1>4. y.who = x.who /\ y.pc = step
  BY <1>3 DEF LoginCalls
<1>5. Does(l, y) /\ UNCHANGED <<directory, roleOf, buckets, tokens, admitted, clock, failures, turned,
                                lost, tries>>
      /\ (y.pc = "right" => directory = "fake")
  BY <1>1, <1>2, <1>3, <1>4 DEF AskDirectory, Binds
<1>6. /\ login' \in [Logins -> {Away} \cup LoginCalls]
      /\ login'[l] = y /\ \A k \in Logins \ {l} : login'[k] = login[k]
      /\ \A p \in People : LoginUnderWay(p)' = IF y.who = p THEN LoginUnderWay(p) \cup {l} ELSE LoginUnderWay(p) \ {l}
  BY <1>5, LoginGoes DEF LoginInv
<1>7. \A p \in People : LoginUnderWay(p)' = LoginUnderWay(p)
  <2>1. \A p \in People : l \in LoginUnderWay(p) <=> x.who = p
    BY <1>1 DEF LoginUnderWay
  <2> SUFFICES ASSUME NEW p \in People PROVE LoginUnderWay(p)' = LoginUnderWay(p)
    OBVIOUS
  <2>2. CASE x.who = p
    <3>1. LoginUnderWay(p)' = LoginUnderWay(p) \cup {l} /\ l \in LoginUnderWay(p)
      BY <1>4, <1>6, <2>1, <2>2
    <3> QED BY <3>1
  <2>3. CASE x.who # p
    <3>1. LoginUnderWay(p)' = LoginUnderWay(p) \ {l} /\ l \notin LoginUnderWay(p)
      BY <1>4, <1>6, <2>1, <2>3
    <3> QED BY <3>1
  <2> QED BY <2>2, <2>3
<1>8. LoginTypes'
  BY <1>5, <1>6 DEF LoginInv, LoginTypes
<1>9. CountsTold'
  BY <1>5, <1>7 DEF LoginInv, LoginTypes, CountsTold
<1>10. FailuresTold'
  BY <1>5, FailuresStay DEF LoginInv
<1>11. TokensTold'
  BY <1>5, <1>6, TokensStay DEF LoginInv
<1> QED BY <1>8, <1>9, <1>10, <1>11 DEF LoginInv

\* A failure more: nothing that was counted is lost.
LEMMA FailureMore ==
  ASSUME LoginTypes, NEW f \in Failures, failures' = Append(failures, f)
  PROVE  /\ failures' \in Seq(Failures)
         /\ DOMAIN failures' = DOMAIN failures \cup {Len(failures) + 1}
         /\ Len(failures) + 1 \notin DOMAIN failures
         /\ failures'[Len(failures) + 1] = f
         /\ \A i \in DOMAIN failures : failures'[i] = failures[i]
<1>1. failures \in Seq(Failures) /\ Len(failures) \in Nat /\ DOMAIN failures = 1..Len(failures)
  BY LenProperties DEF LoginTypes
<1>2. /\ failures' \in Seq(Failures) /\ Len(failures') = Len(failures) + 1
      /\ failures'[Len(failures) + 1] = f /\ \A i \in 1..Len(failures) : failures'[i] = failures[i]
  BY <1>1, AppendProperties
<1>3. DOMAIN failures' = 1..(Len(failures) + 1)
  BY <1>2, LenProperties
<1> QED BY <1>1, <1>2, <1>3

LEMMA RecordFailureInv == ASSUME LoginInv, NEW l \in Logins, RecordFailure(l) PROVE LoginInv'
<1>1. PICK x \in LoginCalls : x = login[l]
  BY LoginKinds DEF RecordFailure, LoginInv, LoginTypes
<1>2. PICK p \in People : p = x.who
  BY LoginKinds
<1>3. PICK f \in Failures : f = [who |-> p, at |-> clock]
  BY DEF Failures, LoginInv, LoginTypes
<1>4. f.who = p /\ f.at = clock
  BY <1>3
<1>5. /\ Does(l, Away) /\ UNCHANGED <<directory, roleOf, tokens, admitted, clock, turned, lost, tries>>
      /\ failures' = Append(failures, f)
      /\ buckets' = IF p \notin DOMAIN buckets \/ Expired(p)
                    THEN Put(buckets, p, [fails |-> 1, first |-> clock])
                    ELSE [buckets EXCEPT ![p].fails = @ + 1]
  BY <1>1, <1>2, <1>3 DEF RecordFailure
<1>6. /\ failures' \in Seq(Failures)
      /\ DOMAIN failures' = DOMAIN failures \cup {Len(failures) + 1}
      /\ Len(failures) + 1 \notin DOMAIN failures
      /\ failures'[Len(failures) + 1] = f
      /\ \A i \in DOMAIN failures : failures'[i] = failures[i]
  BY <1>5, FailureMore DEF LoginInv
<1>7. /\ login' \in [Logins -> {Away} \cup LoginCalls]
      /\ login'[l] = Away /\ \A k \in Logins \ {l} : login'[k] = login[k]
      /\ \A q \in People : LoginUnderWay(q)' = LoginUnderWay(q) \ {l}
  BY <1>5, LoginKinds, LoginGoes DEF LoginInv
<1>8. l \in LoginUnderWay(p) /\ \A q \in People \ {p} : LoginUnderWay(q)' = LoginUnderWay(q)
  BY <1>1, <1>2, <1>7 DEF LoginUnderWay
<1>9. /\ DOMAIN buckets' = DOMAIN buckets \cup {p}
      /\ \A q \in DOMAIN buckets \ {p} : buckets'[q] = buckets[q]
      /\ buckets'[p] \in Buckets
      /\ \/ buckets'[p].fails = 1 /\ buckets'[p].first = clock
         \/ /\ p \in DOMAIN buckets /\ buckets'[p].fails = buckets[p].fails + 1
            /\ buckets'[p].first = buckets[p].first
  <2>1. CASE p \notin DOMAIN buckets \/ Expired(p)
    <3>1. PICK b \in Buckets : b = [fails |-> 1, first |-> clock]
      BY DEF Buckets, LoginInv, LoginTypes
    <3>2. buckets' = Put(buckets, p, b)
      BY <1>5, <2>1, <3>1
    <3>3. /\ DOMAIN buckets' = DOMAIN buckets \cup {p} /\ buckets'[p] = b
          /\ \A q \in DOMAIN buckets \ {p} : buckets'[q] = buckets[q]
      BY <3>2 DEF Put
    <3> QED BY <3>1, <3>3
  <2>2. CASE p \in DOMAIN buckets /\ ~Expired(p)
    <3>1. PICK b \in Buckets : b = buckets[p]
      BY <2>2 DEF LoginInv, LoginTypes
    <3>2. PICK n \in Nat : n = b.fails + 1
      BY LoginKinds
    <3>3. PICK c \in Buckets : c = [b EXCEPT !.fails = n]
      BY DEF Buckets
    <3>4. c.fails = b.fails + 1 /\ c.first = b.first
      BY <3>2, <3>3 DEF Buckets
    <3>5. buckets' = [buckets EXCEPT ![p] = c]
      BY <1>5, <2>2, <3>1, <3>2, <3>3
    <3>6. /\ DOMAIN buckets' = DOMAIN buckets /\ buckets'[p] = c
          /\ \A q \in DOMAIN buckets \ {p} : buckets'[q] = buckets[q]
      BY <2>2, <3>5
    <3> QED BY <2>2, <3>1, <3>4, <3>6
  <2> QED BY <2>1, <2>2
<1>10. LoginTypes'
  <2>1. \A i \in DOMAIN failures' : failures'[i].at <= clock
    BY <1>4, <1>6 DEF LoginInv, LoginTypes
  <2>2. \A q \in DOMAIN buckets' : buckets'[q] \in Buckets
    BY <1>9 DEF LoginInv, LoginTypes
  <2> QED BY <1>5, <1>6, <1>7, <1>9, <2>1, <2>2 DEF LoginInv, LoginTypes
<1>11. CountsTold'
  <2>1. /\ Cardinality(LoginUnderWay(p)') = Cardinality(LoginUnderWay(p)) - 1
        /\ Cardinality(LoginUnderWay(p)) \in Nat /\ Cardinality(LoginUnderWay(p)) <= Cardinality(Logins)
        /\ Cardinality(Logins) \in Nat
    <3>1. LoginUnderWay(p) \subseteq Logins
      BY DEF LoginUnderWay
    <3> QED BY <1>7, <1>8, <3>1, UnderWayFinite, FS_RemoveElement
  <2>2. tries \in Nat /\ Cardinality(LoginUnderWay(p)) <= tries
    BY LoginAssumption DEF LoginInv, LoginTypes, CountsTold
  <2>3. p \in DOMAIN buckets =>
          /\ buckets[p].fails \in Nat
          /\ buckets[p].fails + Cardinality(LoginUnderWay(p)) <= tries
          /\ buckets[p].fails + Cardinality(LoginUnderWay(p)) <= MaxFails - 1 + Cardinality(Logins)
    BY LoginKinds DEF LoginInv, LoginTypes, CountsTold
  <2>4. /\ Cardinality(LoginUnderWay(p)') <= tries /\ buckets'[p].fails >= 1
        /\ buckets'[p].fails + Cardinality(LoginUnderWay(p)') <= tries
        /\ buckets'[p].fails + Cardinality(LoginUnderWay(p)') <= MaxFails - 1 + Cardinality(Logins)
    BY <1>9, <2>1, <2>2, <2>3, LoginAssumption
  <2>5. \A q \in People \ {p} : Cardinality(LoginUnderWay(q)') <= tries
    BY <1>8 DEF LoginInv, CountsTold
  <2>6. \A q \in DOMAIN buckets' \ {p} :
          /\ buckets'[q].fails >= 1
          /\ buckets'[q].fails + Cardinality(LoginUnderWay(q)') <= tries
          /\ buckets'[q].fails + Cardinality(LoginUnderWay(q)') <= MaxFails - 1 + Cardinality(Logins)
    BY <1>8, <1>9 DEF LoginInv, LoginTypes, CountsTold
  <2> QED BY <1>5, <2>4, <2>5, <2>6 DEF CountsTold
<1>12. FailuresTold'
  <2>1. \A q, k : Since(q, k) \subseteq Since(q, k)'
    BY <1>6 DEF Since
  <2>2. \A q, k : IsFiniteSet(Since(q, k)') /\ Cardinality(Since(q, k)) <= Cardinality(Since(q, k)')
                  /\ Cardinality(Since(q, k)) \in Nat /\ Cardinality(Since(q, k)') \in Nat
    <3> SUFFICES ASSUME NEW q, NEW k
                 PROVE  IsFiniteSet(Since(q, k)') /\ Cardinality(Since(q, k)) <= Cardinality(Since(q, k)')
                        /\ Cardinality(Since(q, k)) \in Nat /\ Cardinality(Since(q, k)') \in Nat
      OBVIOUS
    <3>1. Since(q, k)' \subseteq DOMAIN failures \cup {Len(failures) + 1}
          /\ Since(q, k) \subseteq DOMAIN failures
      BY <1>6 DEF Since
    <3>2. IsFiniteSet(DOMAIN failures \cup {Len(failures) + 1})
      BY SomeFailures, FS_AddElement DEF LoginInv
    <3>3. IsFiniteSet(Since(q, k)') /\ Cardinality(Since(q, k)') \in Nat
      BY <3>1, <3>2, FS_Subset, FS_CardinalityType
    <3>4. Cardinality(Since(q, k)) \in Nat
      BY <3>1, SomeFailures DEF LoginInv
    <3> QED BY <2>1, <3>3, <3>4, FS_Subset
  <2>3. ASSUME NEW t \in turned PROVE Cardinality(FailedBefore(t)') >= MaxFails
    <3>1. FailedBefore(t) \subseteq FailedBefore(t)' /\ FailedBefore(t) \subseteq DOMAIN failures
          /\ FailedBefore(t)' \subseteq DOMAIN failures \cup {Len(failures) + 1}
      BY <1>6 DEF FailedBefore
    <3>2. IsFiniteSet(DOMAIN failures \cup {Len(failures) + 1})
      BY SomeFailures, FS_AddElement DEF LoginInv
    <3>3. IsFiniteSet(FailedBefore(t)') /\ Cardinality(FailedBefore(t)') \in Nat
      BY <3>1, <3>2, FS_Subset, FS_CardinalityType
    <3>4. Cardinality(FailedBefore(t)) <= Cardinality(FailedBefore(t)')
          /\ Cardinality(FailedBefore(t)) \in Nat
      BY <3>1, <3>3, FS_Subset, SomeFailures DEF LoginInv
    <3>5. Cardinality(FailedBefore(t)) >= MaxFails
      BY DEF LoginInv, FailuresTold
    <3> QED BY <3>3, <3>4, <3>5, LoginAssumption
  <2>4. ASSUME NEW q \in DOMAIN buckets' \ {p}
        PROVE  buckets'[q].fails <= Cardinality(Since(q, buckets[q].first)')
    <3>1. q \in DOMAIN buckets /\ buckets'[q] = buckets[q] /\ buckets[q].fails \in Nat
      BY <1>9, LoginKinds DEF LoginInv, LoginTypes
    <3>2. buckets[q].fails <= Cardinality(Since(q, buckets[q].first))
      BY <3>1 DEF LoginInv, FailuresTold
    <3>3. PICK k : k = buckets[q].first
      OBVIOUS
    <3>4. buckets[q].fails <= Cardinality(Since(q, k)')
      <4>1. /\ Cardinality(Since(q, k)) <= Cardinality(Since(q, k)')
            /\ Cardinality(Since(q, k)) \in Nat /\ Cardinality(Since(q, k)') \in Nat
        BY <2>2
      <4> QED BY <3>1, <3>2, <3>3, <4>1
    <3> QED BY <3>1, <3>3, <3>4
  <2>5. buckets'[p].fails <= Cardinality(Since(p, buckets[p].first)')
    <3>1. PICK k \in 0..MaxTicks : k = buckets'[p].first
      BY <1>9, LoginKinds
    <3>2. k <= clock => Len(failures) + 1 \in Since(p, k)'
      BY <1>4, <1>6 DEF Since
    <3>3. buckets'[p].fails = 1 /\ k = clock => buckets'[p].fails <= Cardinality(Since(p, k)')
      <4> SUFFICES ASSUME buckets'[p].fails = 1, k = clock PROVE buckets'[p].fails <= Cardinality(Since(p, k)')
        OBVIOUS
      <4>1. Len(failures) + 1 \in Since(p, k)'
        BY <3>2, LoginAssumption DEF LoginInv, LoginTypes
      <4>2. Cardinality(Since(p, k)') # 0
        BY <2>2, <4>1, FS_EmptySet
      <4>3. Cardinality(Since(p, k)') \in Nat
        BY <2>2
      <4> QED BY <4>2, <4>3
    <3>4. ASSUME p \in DOMAIN buckets, buckets'[p].fails = buckets[p].fails + 1, k = buckets[p].first
          PROVE  buckets'[p].fails <= Cardinality(Since(p, k)')
      <4>1. buckets[p].fails <= Cardinality(Since(p, k)) /\ buckets[p].fails \in Nat
            /\ buckets[p].fails >= 1
        BY <3>4, LoginKinds DEF LoginInv, LoginTypes, FailuresTold, CountsTold
      <4>2. k <= clock
        <5>1. Cardinality(Since(p, k)) # 0
          BY <2>2, <4>1
        <5>2. Since(p, k) # {}
          BY <5>1, FS_EmptySet
        <5>3. PICK i \in DOMAIN failures : failures[i].at >= k /\ failures[i].at <= clock
          BY <5>2 DEF Since, LoginInv, LoginTypes
        <5>4. failures[i].at \in Nat
          BY <5>3, ElementOfSeq, LenProperties, LoginKinds, LoginAssumption DEF LoginInv, LoginTypes
        <5> QED BY <5>3, <5>4, LoginAssumption DEF LoginInv, LoginTypes
      <4>3. Since(p, k) \cup {Len(failures) + 1} \subseteq Since(p, k)'
            /\ Len(failures) + 1 \notin Since(p, k)
        BY <1>6, <2>1, <3>2, <4>2 DEF Since
      <4>4. IsFiniteSet(Since(p, k))
        BY SomeFailures DEF LoginInv, Since
      <4>5. Cardinality(Since(p, k) \cup {Len(failures) + 1}) = Cardinality(Since(p, k)) + 1
        BY <4>3, <4>4, FS_AddElement
      <4>6. Cardinality(Since(p, k) \cup {Len(failures) + 1}) <= Cardinality(Since(p, k)')
        BY <2>2, <4>3, FS_Subset
      <4>7. Cardinality(Since(p, k)) \in Nat /\ Cardinality(Since(p, k)') \in Nat
        BY <2>2
      <4> QED BY <3>4, <4>1, <4>5, <4>6, <4>7
    <3>5. buckets'[p].fails <= Cardinality(Since(p, k)')
      BY <1>9, <3>1, <3>3, <3>4
    <3> QED BY <3>1, <3>5
  <2>6. \A q \in DOMAIN buckets' : buckets'[q].fails <= Cardinality(Since(q, buckets[q].first)')
    BY <2>4, <2>5
  <2>7. \A t \in turned' : Cardinality(FailedBefore(t)') >= MaxFails
    BY <1>5, <2>3
  <2> QED BY <2>6, <2>7 DEF FailuresTold
<1>13. TokensTold'
  BY <1>5, <1>7, LoginKinds, TokensStay DEF LoginInv
<1> QED BY <1>10, <1>11, <1>12, <1>13 DEF LoginInv

LEMMA RecordSuccessInv == ASSUME LoginInv, NEW l \in Logins, RecordSuccess(l) PROVE LoginInv'
<1>1. PICK x \in LoginCalls : x = login[l] /\ x.pc = "right"
  BY LoginKinds DEF RecordSuccess, LoginInv, LoginTypes
<1>2. PICK p \in People : p = x.who
  BY LoginKinds
<1>3. /\ Does(l, Away) /\ UNCHANGED <<directory, roleOf, admitted, clock, failures, turned, lost, tries>>
      /\ buckets' = Restrict(buckets, DOMAIN buckets \ {p})
      /\ tokens' = tokens \cup {Issue(p)}
  BY <1>1, <1>2 DEF RecordSuccess
<1>4. /\ DOMAIN buckets' = DOMAIN buckets \ {p}
      /\ \A q \in DOMAIN buckets' : q \in DOMAIN buckets /\ buckets'[q] = buckets[q]
  BY <1>3 DEF Restrict
<1>5. /\ login' \in [Logins -> {Away} \cup LoginCalls]
      /\ login'[l] = Away /\ \A k \in Logins \ {l} : login'[k] = login[k]
      /\ \A q \in People : LoginUnderWay(q)' = LoginUnderWay(q) \ {l}
  BY <1>3, LoginKinds, LoginGoes DEF LoginInv
<1>6. \A q \in People \ {p} : LoginUnderWay(q)' = LoginUnderWay(q)
  BY <1>1, <1>2, <1>5 DEF LoginUnderWay
<1>7. PICK t \in Tokens : t = Issue(p)
  <2>1. clock + TokenLife \in 0..(MaxTicks + TokenLife)
    BY LoginAssumption DEF LoginInv, LoginTypes
  <2>2. RoleFor(roleOf[p]) \in Granted
    BY GrantedRole DEF LoginInv
  <2> QED BY <2>1, <2>2 DEF Issue, Tokens
<1>8. t.who = p /\ t.role = RoleFor(roleOf[p]) /\ t.until = clock + TokenLife
  BY <1>7 DEF Issue
<1>9. LoginTypes'
  <2>1. DOMAIN buckets' \subseteq People /\ \A q \in DOMAIN buckets' : buckets'[q] \in Buckets
    BY <1>4 DEF LoginInv, LoginTypes
  <2> QED BY <1>3, <1>5, <1>7, <2>1 DEF LoginInv, LoginTypes
<1>10. CountsTold'
  <2>1. Cardinality(LoginUnderWay(p)') <= tries
    <3>1. LoginUnderWay(p) \in SUBSET Logins /\ LoginUnderWay(p)' \in SUBSET LoginUnderWay(p)
      BY <1>5 DEF LoginUnderWay
    <3>2. Cardinality(LoginUnderWay(p)') <= Cardinality(LoginUnderWay(p))
          /\ Cardinality(LoginUnderWay(p)') \in Nat /\ Cardinality(LoginUnderWay(p)) \in Nat
      BY <3>1, UnderWayFinite, FS_Subset, FS_CardinalityType
    <3> QED BY <3>2, LoginAssumption DEF LoginInv, CountsTold, LoginTypes
  <2>2. \A q \in People \ {p} : Cardinality(LoginUnderWay(q)') <= tries
    BY <1>6 DEF LoginInv, CountsTold
  <2>3. \A q \in DOMAIN buckets' : q \in People \ {p} /\ q \in DOMAIN buckets
    BY <1>4 DEF LoginInv, LoginTypes
  <2> QED BY <1>3, <1>4, <1>6, <2>1, <2>2, <2>3 DEF LoginInv, CountsTold
<1>11. FailuresTold'
  BY <1>3, <1>4, FailuresStay DEF LoginInv
<1>12. TokensTold'
  <2>1. directory = "fake"
    BY <1>1 DEF LoginInv, TokensTold, LoginTypes
  <2>2. ASSUME NEW u \in tokens'
        PROVE  u.until >= TokenLife /\ u.until <= clock + TokenLife /\ HasOrHad(u.who, u.role, u.until)
    <3>1. CASE u = t
      BY <1>8, <3>1, LoginAssumption DEF HasOrHad, LoginInv, LoginTypes
    <3>2. CASE u # t
      BY <1>3, <1>7, <3>2 DEF LoginInv, TokensTold
    <3> QED BY <3>1, <3>2
  <2>3. \A q, r, k : HasOrHad(q, r, k)' <=> HasOrHad(q, r, k)
    BY <1>3 DEF HasOrHad
  <2>4. \A a, r : EntitledAt(a, r)' <=> EntitledAt(a, r)
    BY <1>3 DEF EntitledAt
  <2> QED BY <1>3, <2>1, <2>2, <2>3, <2>4 DEF LoginInv, TokensTold
<1> QED BY <1>9, <1>10, <1>11, <1>12 DEF LoginInv

LEMMA AdmitInv ==
  ASSUME LoginInv, NEW t \in tokens, NEW p \in Needed, Admit(t, p)
  PROVE  LoginInv'
<1>1. /\ UNCHANGED <<directory, roleOf, buckets, login, tokens, clock, failures, turned, lost, tries>>
      /\ clock < t.until
  BY DEF Admit, Verify
<1>2. t \in Tokens /\ t.who \in People /\ t.role \in Granted /\ t.until \in Nat /\ clock \in Nat
      /\ t.until >= TokenLife /\ HasOrHad(t.who, t.role, t.until)
  BY LoginKinds, LoginAssumption DEF LoginInv, LoginTypes, TokensTold
<1>3. \A a \in admitted' : a \in Admissions /\ a.at <= clock /\ \E r \in Granted : EntitledAt(a, r)
  <2>1. CASE ~RoleHasPermission(t.role, p)
    BY <2>1 DEF Admit
  <2>2. CASE RoleHasPermission(t.role, p)
    <3>1. PICK a \in Admissions : a = [who |-> t.who, for |-> p, at |-> clock]
      BY <1>2 DEF Admissions, LoginInv, LoginTypes
    <3>2. a.who = t.who /\ a.for = p /\ a.at = clock
      BY <3>1
    <3>3. admitted' = {a}
      BY <2>2, <3>1 DEF Admit
    <3>4. lost[t.who][t.role] \in Int
      BY <1>2 DEF LoginInv, LoginTypes
    <3>5. EntitledAt(a, t.role)
      BY <1>1, <1>2, <2>2, <3>2, <3>4, LoginAssumption DEF EntitledAt, HasOrHad
    <3> QED BY <1>2, <3>2, <3>3, <3>5
  <2> QED BY <2>1, <2>2
<1>4. LoginTypes'
  BY <1>1, <1>3 DEF LoginInv, LoginTypes
<1>5. CountsTold' /\ FailuresTold'
  BY <1>1 DEF LoginInv, CountsTold, FailuresTold, LoginUnderWay, Since, FailedBefore
<1>6. TokensTold'
  <2>1. \A q, r, k : HasOrHad(q, r, k)' <=> HasOrHad(q, r, k)
    BY <1>1 DEF HasOrHad
  <2>2. \A a, r : EntitledAt(a, r)' <=> EntitledAt(a, r)
    BY <1>1 DEF EntitledAt
  <2> QED BY <1>1, <1>3, <2>1, <2>2 DEF LoginInv, TokensTold
<1> QED BY <1>4, <1>5, <1>6 DEF LoginInv

LEMMA LoginRestartInv == ASSUME LoginInv, LoginRestart PROVE LoginInv'
<1>1. /\ UNCHANGED <<directory, tokens, admitted, clock, tries>> /\ roleOf' \in [People -> Roles]
      /\ DOMAIN buckets' = {} /\ turned' = {} /\ failures' = <<>> /\ DOMAIN failures' = {}
      /\ failures' \in Seq(Failures)
      /\ login' \in [Logins -> {Away} \cup LoginCalls] /\ \A l \in Logins : login'[l] = Away
  BY DEF LoginRestart
<1>2. ASSUME NEW q \in People, NEW r \in Granted
      PROVE  lost'[q][r] = IF r = RoleFor(roleOf[q]) /\ RoleFor(roleOf'[q]) # r THEN clock ELSE lost[q][r]
  BY <1>2 DEF LoginRestart, LoginInv, LoginTypes
<1>3. lost' \in [People -> [Granted -> {-1} \cup 0..MaxTicks]]
  <2>1. ASSUME NEW q \in People PROVE lost'[q] \in [Granted -> {-1} \cup 0..MaxTicks]
    <3>1. PICK n \in {-1} \cup 0..MaxTicks :
            lost'[q] = [lost[q] EXCEPT ![RoleFor(roleOf[q])] = n]
      BY GrantedRole DEF LoginRestart, LoginInv, LoginTypes
    <3> QED BY <3>1 DEF LoginInv, LoginTypes
  <2>2. lost' \in [People -> {lost'[q] : q \in People}]
    BY DEF LoginRestart
  <2> QED BY <2>1, <2>2
<1>4. LoginTypes'
  BY <1>1, <1>3 DEF LoginInv, LoginTypes
<1>5. \A q \in People : LoginUnderWay(q)' = {}
  BY <1>1, LoginKinds DEF LoginUnderWay
<1>6. CountsTold'
  <2>1. Cardinality({}) = 0 /\ tries \in Nat
    BY FS_EmptySet, LoginAssumption DEF LoginInv, LoginTypes
  <2>2. \A q \in People : Cardinality(LoginUnderWay(q)') = 0
    BY <1>5, <2>1
  <2>3. \A q \in People : Cardinality(LoginUnderWay(q)') <= tries
    BY <2>1, <2>2
  <2> QED BY <1>1, <2>3 DEF CountsTold
<1>7. FailuresTold'
  BY <1>1 DEF FailuresTold
<1>8. clock \in Nat /\ \A q \in People, r \in Granted : lost[q][r] \in Int
  BY LoginAssumption DEF LoginInv, LoginTypes
<1>9. ASSUME NEW t \in tokens PROVE HasOrHad(t.who, t.role, t.until)'
  <2>1. /\ t.who \in People /\ t.role \in Granted /\ t.until \in Nat /\ t.until <= clock + TokenLife
        /\ HasOrHad(t.who, t.role, t.until)
    BY LoginKinds, LoginAssumption DEF LoginInv, LoginTypes, TokensTold
  <2> QED BY <1>2, <1>8, <2>1, LoginAssumption DEF HasOrHad
<1>10. ASSUME NEW a \in admitted PROVE \E r \in Granted : EntitledAt(a, r)'
  <2>1. a.who \in People /\ a.at \in Nat /\ a.at <= clock
    BY LoginKinds, LoginAssumption DEF LoginInv, LoginTypes, TokensTold
  <2>2. PICK r \in Granted : EntitledAt(a, r)
    BY DEF LoginInv, TokensTold
  <2>3. EntitledAt(a, r)'
    BY <1>2, <1>8, <2>1, <2>2, LoginAssumption DEF EntitledAt
  <2> QED BY <2>3
<1>11. TokensTold'
  BY <1>1, <1>9, <1>10, LoginKinds DEF LoginInv, TokensTold
<1> QED BY <1>4, <1>6, <1>7, <1>11 DEF LoginInv

LEMMA ClockTicksInv == ASSUME LoginInv, ClockTicks PROVE LoginInv'
<1>1. /\ UNCHANGED <<directory, roleOf, buckets, login, tokens, admitted, failures, turned, lost, tries>>
      /\ clock' = clock + 1 /\ clock' \in 0..MaxTicks /\ clock \in Nat
  BY LoginAssumption DEF ClockTicks, LoginInv, LoginTypes
<1>2. \A i \in DOMAIN failures : failures[i].at <= clock'
  <2> SUFFICES ASSUME NEW i \in DOMAIN failures PROVE failures[i].at <= clock'
    OBVIOUS
  <2>1. failures[i] \in Failures /\ failures[i].at <= clock
    BY ElementOfSeq, LenProperties DEF LoginInv, LoginTypes
  <2> QED BY <1>1, <2>1, LoginKinds
<1>3. LoginTypes'
  BY <1>1, <1>2 DEF LoginInv, LoginTypes
<1>4. CountsTold' /\ FailuresTold'
  BY <1>1 DEF LoginInv, CountsTold, FailuresTold, LoginUnderWay, Since, FailedBefore
<1>5. TokensTold'
  <2>1. \A q, r, k : HasOrHad(q, r, k)' <=> HasOrHad(q, r, k)
    BY <1>1 DEF HasOrHad
  <2>2. \A a, r : EntitledAt(a, r)' <=> EntitledAt(a, r)
    BY <1>1 DEF EntitledAt
  <2>3. \A t \in tokens : t.until <= clock' + TokenLife
    <3> SUFFICES ASSUME NEW t \in tokens PROVE t.until <= clock' + TokenLife
      OBVIOUS
    <3>1. t.until \in Nat /\ t.until <= clock + TokenLife
      BY LoginKinds, LoginAssumption DEF LoginInv, LoginTypes, TokensTold
    <3> QED BY <1>1, <3>1, LoginAssumption
  <2>4. \A a \in admitted : a.at <= clock'
    <3> SUFFICES ASSUME NEW a \in admitted PROVE a.at <= clock'
      OBVIOUS
    <3>1. a.at \in Nat /\ a.at <= clock
      BY LoginKinds, LoginAssumption DEF LoginInv, LoginTypes, TokensTold
    <3> QED BY <1>1, <3>1
  <2> QED BY <1>1, <2>1, <2>2, <2>3, <2>4 DEF LoginInv, TokensTold
<1> QED BY <1>3, <1>4, <1>5 DEF LoginInv

LEMMA LoginInvNext == LoginInv /\ [LoginNext]_loginVars => LoginInv'
<1> SUFFICES ASSUME LoginInv, [LoginNext]_loginVars PROVE LoginInv'
  OBVIOUS
<1>1. CASE UNCHANGED loginVars
  <2>1. LoginTypes' /\ CountsTold' /\ FailuresTold'
    BY <1>1
    DEF loginVars, LoginInv, LoginTypes, CountsTold, FailuresTold, LoginUnderWay, Since, FailedBefore
  <2>2. TokensTold'
    BY <1>1, TokensStay DEF loginVars, LoginInv
  <2> QED BY <2>1, <2>2 DEF LoginInv
<1> QED
  BY <1>1, CheckLimitInv, AskDirectoryInv, RecordFailureInv, RecordSuccessInv, AdmitInv,
     LoginRestartInv, ClockTicksInv
  DEF LoginNext

LEMMA LoginInvEnough == LoginInv => LoginTypeOK /\ LoginTold
<1> SUFFICES ASSUME LoginInv PROVE LoginTypeOK /\ LoginTold
  OBVIOUS
<1>1. ASSUME NEW p \in DOMAIN buckets
      PROVE  /\ buckets[p] \in [fails : 1..MaxTries, first : 0..MaxTicks]
             /\ buckets[p].fails < MaxFails + Cardinality(Logins)
  <2>1. LoginUnderWay(p) \in SUBSET Logins
    BY DEF LoginUnderWay
  <2>2. Cardinality(LoginUnderWay(p)) \in Nat /\ Cardinality(Logins) \in Nat
    BY <2>1, UnderWayFinite
  <2>3. PICK b \in Buckets : b = buckets[p]
    BY DEF LoginInv, LoginTypes
  <2>4. /\ b.fails \in Nat /\ b.fails >= 1
        /\ b.fails + Cardinality(LoginUnderWay(p)) <= tries
        /\ b.fails + Cardinality(LoginUnderWay(p)) <= MaxFails - 1 + Cardinality(Logins)
    BY <2>3, LoginKinds DEF LoginInv, CountsTold
  <2>5. b.fails \in 1..MaxTries /\ b.fails < MaxFails + Cardinality(Logins)
    BY <2>2, <2>4, LoginAssumption DEF LoginInv, LoginTypes
  <2> QED BY <2>3, <2>5 DEF Buckets
<1>2. LoginTypeOK
  BY <1>1 DEF LoginInv, LoginTypes, LoginTypeOK, Tokens
<1>3. ASSUME NEW a \in admitted
      PROVE  \E r \in Granted :
               /\ RoleHasPermission(r, a.for)
               /\ \/ r = RoleFor(roleOf[a.who])
                  \/ lost[a.who][r] >= 0 /\ a.at - lost[a.who][r] < TokenLife
               /\ a.for = "k8s.pods.exec" => r \in {"SuperAdmin", "Operator"}
  BY ExecRoles DEF LoginInv, TokensTold, EntitledAt
<1> QED BY <1>1, <1>2, <1>3 DEF LoginInv, FailuresTold, TokensTold, LoginTold

(***************************************************************************)
(* Nobody is turned away without as many failures in the window, the count *)
(* stays below the limit and the logins under way, and what a person may   *)
(* do a role lets them that they have, or lost within a token's life, for  *)
(* any people, roles and times (ldap/service.go, jwt.go, middleware.go).   *)
(***************************************************************************)
THEOREM LoginsAreTold == LoginSpec => [](LoginTypeOK /\ LoginTold)
  BY LoginInvInit, LoginInvNext, LoginInvEnough, PTL DEF LoginSpec

-----------------------------------------------------------------------------
(* The logs.  A scan that is kept has every line that was appended, and    *)
(* every line in reach that came to disk before it; who is about to write  *)
(* the default retention holds the mutex, and it has been written only as  *)
(* often as lookups failed.                                                *)
Scans     == [file : 0..MaxFile, echo : 0..MaxEcho, at : 0..MaxSeconds]
Looking == [pc : {"peek", "scan"}, echo : 0..MaxEcho, file : Nat]
HasFound    == [pc : {"found"}, echo : 0..MaxEcho, file : Nat, result : Scans]
Seeding   == [pc : {"lock", "seed"}]
SearchSteps == {AtRest} \cup Looking \cup HasFound \cup Seeding

\* The lines in reach of a scan that have been on disk for the cache's life.
OldLines == {i \in 1..reach : file[i] + CacheLife <= second}

LinesInv ==
  /\ file \in Seq(Nat) /\ Len(file) <= MaxFile /\ reach \in 0..Len(file) /\ echo \in 0..MaxEcho /\ second \in 0..MaxSeconds
  /\ \A i \in DOMAIN file : file[i] <= second
  /\ scanned \subseteq Scans
  /\ \A c \in scanned : /\ c.echo = echo /\ c.at <= second
                        /\ \A i \in 1..reach : file[i] < c.at => i <= c.file
  /\ searcher \in [Searchers -> SearchSteps]
  /\ \A s \in Searchers :
       /\ searcher[s].pc \in {"peek", "scan"} =>
            searcher[s].echo <= echo /\ searcher[s].file <= Cardinality(OldLines)
       /\ searcher[s].pc = "found" => /\ searcher[s].echo <= searcher[s].result.echo
                                      /\ searcher[s].file <= searcher[s].result.file

RetentionInv ==
  /\ retention = {} \/ \E p \in Policies \cup {"default"} : retention = {p}
  /\ seeder = {} \/ \E s \in Searchers : seeder = {s}
  /\ seeded \in Nat /\ missed \in Nat /\ seeded <= 1 + missed /\ (retention = {} => seeded = 0)
  /\ \A s \in Searchers : searcher[s].pc = "seed" => seeder = {s} /\ seeded <= missed
  /\ saved \in [SavedRows -> [row : {"new", "saved"}, told : {0}] \cup [row : {"deleted"}, told : {1}]]

SearchInv == LinesInv /\ RetentionInv

LEMMA SearchKinds ==
  /\ AtRest.pc = "rest"
  /\ \A x \in Looking : x.pc \in {"peek", "scan"} /\ x.echo \in 0..MaxEcho /\ x.file \in Nat
  /\ \A x \in HasFound : x.pc = "found" /\ x.echo \in 0..MaxEcho /\ x.file \in Nat /\ x.result \in Scans
  /\ \A x \in Seeding : x.pc \in {"lock", "seed"}
  /\ \A c \in Scans : c.file \in 0..MaxFile /\ c.echo \in 0..MaxEcho /\ c.at \in 0..MaxSeconds
BY DEF AtRest, Looking, HasFound, Seeding, Scans

LEMMA SettledFinite ==
  ASSUME LinesInv
  PROVE  /\ DOMAIN file = 1..Len(file) /\ Len(file) \in Nat /\ reach \in Nat
         /\ 1..reach \subseteq DOMAIN file
         /\ IsFiniteSet(OldLines) /\ Cardinality(OldLines) \in Nat /\ Cardinality(OldLines) <= reach
<1>1. /\ DOMAIN file = 1..Len(file) /\ Len(file) \in Nat /\ reach \in Nat
      /\ 1..reach \subseteq DOMAIN file
  BY LenProperties DEF LinesInv
<1>2. IsFiniteSet(1..reach) /\ Cardinality(1..reach) = reach
  <2>1. IsFiniteSet(1..reach) /\ Cardinality(1..reach) = IF 1 > reach THEN 0 ELSE reach - 1 + 1
    BY <1>1, FS_Interval
  <2> QED BY <1>1, <2>1
<1>3. OldLines \in SUBSET (1..reach)
  BY <1>1 DEF OldLines
<1>4. IsFiniteSet(OldLines) /\ Cardinality(OldLines) <= Cardinality(1..reach)
  BY <1>2, <1>3, FS_Subset
<1>5. Cardinality(OldLines) \in Nat
  BY <1>4, FS_CardinalityType
<1> QED BY <1>1, <1>2, <1>4, <1>5

\* What a scan at least finds.
LEMMA ScanHasSettled ==
  ASSUME LinesInv, NEW n \in Nat, \A i \in OldLines : i <= n
  PROVE  Cardinality(OldLines) <= n
<1>1. OldLines \in SUBSET (1..n)
  BY SettledFinite DEF OldLines
<1>2. IsFiniteSet(1..n) /\ Cardinality(1..n) = n
  <2>1. IsFiniteSet(1..n) /\ Cardinality(1..n) = IF 1 > n THEN 0 ELSE n - 1 + 1
    BY FS_Interval
  <2> QED BY <2>1
<1> QED BY <1>1, <1>2, FS_Subset

LEMMA FreshHasLines ==
  ASSUME LinesInv, NEW c \in Fresh
  PROVE  /\ c \in Scans /\ c \in scanned /\ c.echo = echo /\ Cardinality(OldLines) <= c.file
<1>1. c \in Scans /\ c \in scanned /\ c.echo = echo /\ second - c.at < CacheLife
      /\ \A i \in 1..reach : file[i] < c.at => i <= c.file
  BY DEF Fresh, LinesInv
<1>2. c.file \in Nat /\ c.at \in Nat /\ second \in Nat
  BY <1>1, SearchKinds, LogStoreAssumption DEF LinesInv
<1>3. \A i \in OldLines : i <= c.file
  <2> SUFFICES ASSUME NEW i \in OldLines PROVE i <= c.file
    OBVIOUS
  <2>1. i \in 1..reach /\ file[i] \in Nat /\ file[i] + CacheLife <= second
    BY SettledFinite, ElementOfSeq DEF OldLines, LinesInv
  <2> QED BY <1>1, <1>2, <2>1, LogStoreAssumption
<1> QED BY <1>1, <1>2, <1>3, ScanHasSettled

LEMMA SearchInvInit == LogStoreInit => SearchInv
<1> SUFFICES ASSUME LogStoreInit PROVE SearchInv
  OBVIOUS
<1>1. file = <<>> /\ file \in Seq(Nat) /\ Len(file) = 0 /\ DOMAIN file = {} /\ reach = 0
  BY DEF LogStoreInit
<1>2. 0 \in 0..MaxEcho /\ 0 \in 0..MaxSeconds /\ 0 <= MaxFile
  BY LogStoreAssumption
<1>3. LinesInv
  BY <1>1, <1>2, SearchKinds DEF LogStoreInit, LinesInv, SearchSteps
<1>4. RetentionInv
  BY SearchKinds DEF LogStoreInit, RetentionInv
<1> QED BY <1>3, <1>4 DEF SearchInv

\* One searcher goes on, and the lines stay.
LEMMA SearcherMoves ==
  ASSUME LinesInv, NEW s \in Searchers, NEW x \in SearchSteps, Moves(s, x),
         UNCHANGED <<file, reach, echo, second>>,
         scanned' \subseteq Scans,
         \A c \in scanned' : /\ c.echo = echo /\ c.at <= second
                             /\ \A i \in 1..reach : file[i] < c.at => i <= c.file,
         x.pc \in {"peek", "scan"} => x.echo <= echo /\ x.file <= Cardinality(OldLines),
         x.pc = "found" => x.echo <= x.result.echo /\ x.file <= x.result.file
  PROVE  LinesInv' /\ searcher'[s] = x /\ \A r \in Searchers \ {s} : searcher'[r] = searcher[r]
<1>1. searcher'[s] = x /\ \A r \in Searchers \ {s} : searcher'[r] = searcher[r]
  BY DEF LinesInv, Moves
<1>2. searcher' \in [Searchers -> SearchSteps]
  BY DEF LinesInv, Moves
<1>3. OldLines' = OldLines
  BY DEF OldLines
<1>4. ASSUME NEW r \in Searchers
      PROVE  /\ searcher'[r].pc \in {"peek", "scan"} =>
                  searcher'[r].echo <= echo /\ searcher'[r].file <= Cardinality(OldLines)
             /\ searcher'[r].pc = "found" => /\ searcher'[r].echo <= searcher'[r].result.echo
                                             /\ searcher'[r].file <= searcher'[r].result.file
  <2>1. CASE r = s
    BY <1>1, <2>1
  <2>2. CASE r # s
    BY <1>1, <2>2 DEF LinesInv
  <2> QED BY <2>1, <2>2
<1> QED BY <1>1, <1>2, <1>3, <1>4 DEF LinesInv

LEMMA SearchedSteps ==
  ASSUME LinesInv, NEW s \in Searchers
  PROVE  /\ searcher[s].pc \in {"peek", "scan"} => searcher[s] \in Looking
         /\ searcher[s].pc \in {"lock", "seed"} => searcher[s] \in Seeding
         /\ searcher[s].pc = "found" => searcher[s] \in HasFound
BY SearchKinds DEF LinesInv, SearchSteps

\* A searcher that is not about to seed changes nothing of the retention.
LEMMA RetentionFrame ==
  ASSUME RetentionInv, NEW s \in Searchers, searcher'[s].pc # "seed",
         \A r \in Searchers \ {s} : searcher'[r] = searcher[r],
         UNCHANGED logRowVars
  PROVE  RetentionInv'
BY DEF RetentionInv, logRowVars

LEMMA QueryInv == ASSUME SearchInv, NEW s \in Searchers, NEW w \in Windows, Query(s, w) PROVE SearchInv'
<1>1. PICK n \in Nat : n = Cardinality(OldLines)
  BY SettledFinite DEF SearchInv
<1>2. [pc |-> "peek", echo |-> echo, file |-> n] \in SearchSteps
  BY DEF SearchSteps, Looking, SearchInv, LinesInv
<1>3. Moves(s, [pc |-> "peek", echo |-> echo, file |-> n]) /\ UNCHANGED <<logLineVars, logRowVars, second>>
  BY <1>1 DEF Query, OldLines
<1>4. echo <= echo /\ n <= n
  BY DEF SearchInv, LinesInv
<1>5. LinesInv' /\ searcher'[s] = [pc |-> "peek", echo |-> echo, file |-> n]
      /\ \A r \in Searchers \ {s} : searcher'[r] = searcher[r]
  BY <1>1, <1>2, <1>3, <1>4, SearcherMoves DEF SearchInv, LinesInv, logLineVars
<1> QED BY <1>3, <1>5, RetentionFrame DEF SearchInv

LEMMA FindsInv ==
  ASSUME SearchInv, NEW s \in Searchers, searcher[s].pc \in {"peek", "scan"},
         NEW c \in Scans, Finds(s, c), c.echo = echo, Cardinality(OldLines) <= c.file,
         UNCHANGED <<file, reach, echo, second, logRowVars>>,
         scanned' \subseteq scanned \cup {c},
         c.at <= second /\ \A i \in 1..reach : file[i] < c.at => i <= c.file
  PROVE  SearchInv'
<1>1. PICK x \in Looking : x = searcher[s] /\ x.echo <= echo /\ x.file <= Cardinality(OldLines)
  BY SearchedSteps DEF SearchInv, LinesInv
<1>2. PICK y \in SearchSteps : Moves(s, y) /\ y.pc = "found" /\ y.echo = x.echo /\ y.file = x.file
                               /\ y.result = c
  <2>1. [pc |-> "found", echo |-> x.echo, file |-> x.file, result |-> c] \in HasFound
    BY SearchKinds DEF HasFound
  <2> QED BY <1>1, <2>1 DEF Finds, SearchSteps
<1>3. y.echo <= y.result.echo /\ y.file <= y.result.file
  <2>1. x.file \in Nat /\ Cardinality(OldLines) \in Nat /\ c.file \in Nat
    BY SearchKinds, SettledFinite, LogStoreAssumption DEF SearchInv
  <2> QED BY <1>1, <1>2, <2>1
<1>4. LinesInv' /\ searcher'[s] = y /\ \A r \in Searchers \ {s} : searcher'[r] = searcher[r]
  BY <1>2, <1>3, SearcherMoves DEF SearchInv, LinesInv
<1> QED BY <1>2, <1>4, RetentionFrame DEF SearchInv, logRowVars

LEMMA FreshInv ==
  ASSUME SearchInv, NEW s \in Searchers, searcher[s].pc \in {"peek", "scan"}, NEW c \in Fresh, Finds(s, c),
         UNCHANGED <<logLineVars, logRowVars, second>>
  PROVE  SearchInv'
<1>1. c \in Scans /\ c \in scanned /\ c.echo = echo /\ Cardinality(OldLines) <= c.file
  BY FreshHasLines DEF SearchInv
<1>2. c.at <= second /\ \A i \in 1..reach : file[i] < c.at => i <= c.file
  BY <1>1 DEF SearchInv, LinesInv
<1> QED BY <1>1, <1>2, FindsInv DEF logLineVars

LEMMA PeekInv == ASSUME SearchInv, NEW s \in Searchers, Peek(s) PROVE SearchInv'
<1>1. CASE \E c \in Fresh : Finds(s, c)
  BY <1>1, FreshInv DEF Peek
<1>2. CASE Moves(s, [searcher[s] EXCEPT !.pc = "scan"])
  <2>1. PICK x \in Looking : x = searcher[s] /\ x.echo <= echo /\ x.file <= Cardinality(OldLines)
    BY SearchedSteps DEF Peek, SearchInv, LinesInv
  <2>2. PICK y \in Looking : y = [x EXCEPT !.pc = "scan"]
    BY DEF Looking
  <2>3. y.pc = "scan" /\ y.echo = x.echo /\ y.file = x.file
    BY <2>2 DEF Looking
  <2>4. UNCHANGED <<logLineVars, logRowVars, second>>
    BY DEF Peek
  <2>5. LinesInv' /\ searcher'[s] = y /\ \A r \in Searchers \ {s} : searcher'[r] = searcher[r]
    BY <1>2, <2>1, <2>2, <2>3, <2>4, SearcherMoves DEF SearchInv, LinesInv, logLineVars, SearchSteps
  <2> QED BY <2>3, <2>4, <2>5, RetentionFrame DEF SearchInv
<1> QED BY <1>1, <1>2 DEF Peek

LEMMA ScanInv == ASSUME SearchInv, NEW s \in Searchers, Scan(s) PROVE SearchInv'
<1>1. CASE Fresh # {}
  BY <1>1, FreshInv DEF Scan, logLineVars
<1>2. CASE Fresh = {}
  <2>1. PICK c : c = [file |-> reach, echo |-> echo, at |-> second]
    OBVIOUS
  <2>2. c \in Scans /\ c.file = reach /\ c.echo = echo /\ c.at = second
    BY <2>1, SettledFinite, LogStoreAssumption DEF SearchInv, LinesInv, Scans
  <2>3. Finds(s, c) /\ scanned' \subseteq {c} /\ UNCHANGED <<file, reach, echo, logRowVars, second>>
    BY <1>2, <2>1 DEF Scan
  <2>4. c.at <= second /\ \A i \in 1..reach : file[i] < c.at => i <= c.file
    BY <2>2, SettledFinite, LogStoreAssumption DEF SearchInv, LinesInv
  <2> QED BY <2>2, <2>3, <2>4, SettledFinite, FindsInv DEF Scan, SearchInv
<1> QED BY <1>1, <1>2

\* A searcher's step that is about no lines.
LEMMA NoLines ==
  ASSUME SearchInv, NEW s \in Searchers, NEW x \in {AtRest} \cup Seeding, Moves(s, x),
         UNCHANGED <<logLineVars, second>>
  PROVE  LinesInv' /\ searcher'[s] = x /\ \A r \in Searchers \ {s} : searcher'[r] = searcher[r]
BY SearchKinds, SearcherMoves DEF SearchInv, LinesInv, logLineVars, SearchSteps

LEMMA RetentionSteps ==
  ASSUME SearchInv, NEW s \in Searchers,
         \/ ScanFails(s) \/ AnswerSearch(s) \/ GetRetention(s)
         \/ LookAgain(s) \/ Seed(s) \/ SeedFails(s)
  PROVE  SearchInv'
<1>1. CASE ScanFails(s) \/ AnswerSearch(s) \/ GetRetention(s)
  <2>1. PICK x \in {AtRest} \cup Seeding :
          Moves(s, x) /\ x.pc # "seed" /\ UNCHANGED <<logLineVars, logRowVars, second>>
    BY <1>1, SearchKinds DEF ScanFails, AnswerSearch, GetRetention, Seeding
  <2>2. LinesInv' /\ searcher'[s] = x /\ \A r \in Searchers \ {s} : searcher'[r] = searcher[r]
    BY <2>1, NoLines
  <2> QED BY <2>1, <2>2, RetentionFrame DEF SearchInv
<1>2. CASE LookAgain(s)
  <2>1. CASE seeder' = {s} /\ Moves(s, [pc |-> "seed"])
    <3>1. PICK x \in Seeding : x = [pc |-> "seed"]
      BY DEF Seeding
    <3>2. Moves(s, x) /\ UNCHANGED <<logLineVars, second, retention, seeded, saved>>
          /\ seeder' = {s} /\ seeder = {}
      BY <1>2, <2>1, <3>1 DEF LookAgain
    <3>3. LinesInv' /\ searcher'[s] = x /\ \A r \in Searchers \ {s} : searcher'[r] = searcher[r]
      BY <3>2, NoLines
    <3>4. \A r \in Searchers : searcher[r].pc # "seed"
      BY <3>2 DEF SearchInv, RetentionInv
    <3>5. missed' \in Nat /\ missed <= missed' /\ seeded <= missed'
      <4>1. \/ retention = {} /\ missed' = missed /\ seeded = 0
            \/ missed' = missed + 1
            \/ missed' = missed /\ UNCHANGED seeder
        BY <1>2 DEF LookAgain, SearchInv, RetentionInv
      <4> QED BY <3>2, <4>1 DEF SearchInv, RetentionInv
    <3>6. \A r \in Searchers : searcher'[r].pc = "seed" => seeder' = {r} /\ seeded' <= missed'
      <4> TAKE r \in Searchers
      <4>1. CASE r = s
        <5>1. seeded' = seeded /\ seeder' = {s}
          BY <3>2
        <5> QED BY <3>5, <4>1, <5>1
      <4>2. CASE r # s
        BY <3>3, <3>4, <4>2
      <4> QED BY <4>1, <4>2
    <3>7. seeder' = {} \/ \E r \in Searchers : seeder' = {r}
      BY <3>2
    <3>8. /\ retention' = {} \/ \E p \in Policies \cup {"default"} : retention' = {p}
          /\ (retention' = {} => seeded' = 0)
          /\ saved' \in [SavedRows -> [row : {"new", "saved"}, told : {0}]
                                       \cup [row : {"deleted"}, told : {1}]]
      BY <3>2 DEF SearchInv, RetentionInv
    <3>9. seeded' \in Nat /\ missed' \in Nat /\ seeded' <= 1 + missed'
      <4>1. seeded \in Nat /\ missed \in Nat /\ seeded <= 1 + missed
        BY DEF SearchInv, RetentionInv
      <4>2. seeded' = seeded
        BY <3>2
      <4>3. missed' \in Nat /\ missed <= missed'
        BY <3>5
      <4>4. \A i, m, n \in Nat : i <= 1 + m /\ m <= n => i <= 1 + n
        OBVIOUS
      <4>5. seeded <= 1 + missed'
        BY <4>1, <4>3, <4>4, Zenon
      <4> QED BY <4>1, <4>2, <4>3, <4>5, Zenon
    <3>10. RetentionInv'
      BY <3>6, <3>7, <3>8, <3>9 DEF RetentionInv
    <3> QED BY <3>3, <3>10 DEF SearchInv
  <2>2. CASE Moves(s, AtRest) /\ UNCHANGED <<seeder, missed>>
    <3>1. Moves(s, AtRest) /\ UNCHANGED <<logLineVars, second, logRowVars>>
      BY <1>2, <2>2 DEF LookAgain, logRowVars
    <3>2. LinesInv' /\ searcher'[s] = AtRest /\ \A r \in Searchers \ {s} : searcher'[r] = searcher[r]
      BY <3>1, NoLines
    <3> QED BY <3>1, <3>2, SearchKinds, RetentionFrame DEF SearchInv
  <2> QED BY <1>2, <2>1, <2>2 DEF LookAgain
<1>3. CASE Seed(s) \/ SeedFails(s)
  <2>1. /\ Moves(s, AtRest) /\ UNCHANGED <<logLineVars, second, saved, missed>> /\ seeder' = {}
        /\ (retention' = {"default"} /\ seeded' = seeded + 1) \/ UNCHANGED <<retention, seeded>>
    BY <1>3 DEF Seed, SeedFails
  <2>2. LinesInv' /\ searcher'[s] = AtRest /\ \A r \in Searchers \ {s} : searcher'[r] = searcher[r]
    BY <2>1, NoLines
  <2>3. seeder = {s} /\ seeded <= missed /\ \A r \in Searchers \ {s} : searcher[r].pc # "seed"
    BY <1>3 DEF Seed, SeedFails, SearchInv, RetentionInv
  <2>4. \A r \in Searchers : searcher'[r].pc # "seed"
    BY <2>2, <2>3, SearchKinds
  <2>5. seeded' \in Nat /\ seeded' <= 1 + missed /\ (retention' = {} => seeded' = 0)
        /\ (retention' = retention \/ retention' = {"default"})
    BY <2>1, <2>3 DEF SearchInv, RetentionInv
  <2>6. RetentionInv'
    BY <2>1, <2>4, <2>5 DEF SearchInv, RetentionInv
  <2> QED BY <2>2, <2>6 DEF SearchInv
<1> QED BY <1>1, <1>2, <1>3

LEMMA RowSteps ==
  ASSUME SearchInv,
         (\E p \in Policies : SetRetention(p)) \/ \E r \in SavedRows : SaveLogRow(r) \/ DeleteLogRow(r)
  PROVE  SearchInv'
<1>1. UNCHANGED <<file, reach, echo, scanned, searcher, seeder, seeded, missed, second>>
  BY DEF SetRetention, SaveLogRow, DeleteLogRow, logLineVars
<1>2. LinesInv'
  BY <1>1 DEF SearchInv, LinesInv, OldLines
<1>3. CASE \E p \in Policies : SetRetention(p)
  BY <1>1, <1>2, <1>3 DEF SetRetention, SearchInv, RetentionInv
<1>4. ASSUME NEW r \in SavedRows, SaveLogRow(r) \/ DeleteLogRow(r) PROVE SearchInv'
  <2> DEFINE R == [row : {"new", "saved"}, told : {0}] \cup [row : {"deleted"}, told : {1}]
  <2>1. saved \in [SavedRows -> R] /\ retention' = retention
    BY <1>4 DEF SearchInv, RetentionInv, SaveLogRow, DeleteLogRow
  <2>2. PICK x \in [row : {"new", "saved"}, told : {0}] : x = saved[r]
    BY <1>4, <2>1 DEF SaveLogRow, DeleteLogRow
  <2>3. PICK y \in R : saved' = [saved EXCEPT ![r] = y]
    <3>1. CASE SaveLogRow(r)
      BY <2>1, <2>2, <3>1 DEF SaveLogRow
    <3>2. CASE DeleteLogRow(r)
      <4>1. saved[r].told = 0 /\ [row |-> "deleted", told |-> 1] \in R
        BY <2>2
      <4>2. saved' = [saved EXCEPT ![r] = [row |-> "deleted", told |-> 1]]
        BY <2>1, <3>2, <4>1 DEF DeleteLogRow
      <4> QED BY <4>1, <4>2
    <3> QED BY <1>4, <3>1, <3>2
  <2>4. saved' \in [SavedRows -> R]
    BY <2>1, <2>3
  <2>5. RetentionInv'
    BY <1>1, <2>1, <2>4 DEF SearchInv, RetentionInv
  <2> QED BY <1>2, <2>5 DEF SearchInv
<1> QED BY <1>3, <1>4

\* Lines come and time passes: what was settled is settled.
LEMMA LineSteps ==
  ASSUME SearchInv, (\E tooLong \in BOOLEAN : FileGrows(tooLong)) \/ AppendLine \/ SecondPasses
  PROVE  SearchInv'
<1>1. UNCHANGED <<searcher, logRowVars>>
  BY DEF FileGrows, AppendLine, SecondPasses
<1>2. second \in Nat /\ echo \in Nat /\ Len(file) \in Nat /\ file \in Seq(Nat)
      /\ DOMAIN file = 1..Len(file) /\ reach \in Nat /\ reach <= Len(file)
  BY SettledFinite DEF SearchInv, LinesInv
<1>11. reach \in Nat /\ Len(file) \in Nat /\ reach <= Len(file) /\ DOMAIN file = 1..Len(file)
  BY <1>2
<1>3. /\ file' \in Seq(Nat) /\ Len(file') <= MaxFile /\ echo' \in 0..MaxEcho /\ second' \in 0..MaxSeconds
      /\ echo <= echo' /\ second <= second'
      /\ DOMAIN file \subseteq DOMAIN file' /\ (\A i \in DOMAIN file : file'[i] = file[i])
      /\ (\A i \in DOMAIN file' \ DOMAIN file : file'[i] = second)
      /\ reach' \in 0..Len(file') /\ reach <= reach'
      /\ \A i \in 1..reach' : i \in 1..reach \/ i \in DOMAIN file' \ DOMAIN file
  <2>1. CASE \E tooLong \in BOOLEAN : FileGrows(tooLong)
    <3>1. PICK b \in BOOLEAN : FileGrows(b)
      BY <2>1
    <3>2. file' = Append(file, second) /\ UNCHANGED <<echo, second>> /\ Len(file) < MaxFile
      BY <3>1 DEF FileGrows
    <3>3. /\ file' \in Seq(Nat) /\ Len(file') = Len(file) + 1 /\ DOMAIN file' = 1..(Len(file) + 1)
          /\ file'[Len(file) + 1] = second /\ \A i \in 1..Len(file) : file'[i] = file[i]
      BY <1>2, <3>2, AppendProperties, LenProperties
    <3>4. reach' = reach \/ (reach = Len(file) /\ reach' = Len(file) + 1)
      <4>1. reach' = reach \/ (~(reach < Len(file)) /\ reach' = Len(file) + 1)
        BY <3>1, Zenon DEF FileGrows
      <4>2. reach < Len(file) \/ reach = Len(file)
        <5>1. \A m \in Nat : \A n \in Nat : m <= n => m < n \/ m = n
          OBVIOUS
        <5> QED BY <1>11, <5>1, Zenon
      <4> QED BY <4>1, <4>2, Zenon
    <3>5. /\ reach' \in 0..Len(file') /\ reach <= reach'
          /\ \A i \in 1..reach' : i \in 1..reach \/ i \in DOMAIN file' \ DOMAIN file
      <4>1. CASE reach' = reach
        BY <1>11, <3>3, <4>1
      <4>2. CASE reach = Len(file) /\ reach' = Len(file) + 1
        BY <1>11, <3>3, <4>2
      <4> QED BY <3>4, <4>1, <4>2
    <3> QED BY <1>2, <3>2, <3>3, <3>5, LogStoreAssumption DEF SearchInv, LinesInv
  <2>2. CASE AppendLine \/ SecondPasses
    BY <1>2, <2>2, LogStoreAssumption
    DEF AppendLine, SecondPasses, SearchInv, LinesInv, logLineVars
  <2> QED BY <2>1, <2>2
<1>12. ASSUME NEW i \in 1..reach PROVE i \in DOMAIN file /\ i \in 1..reach' /\ file'[i] = file[i]
  <2>1. i \in DOMAIN file
    BY <1>11
  <2>2. reach' \in Nat /\ reach <= reach'
    BY <1>3, LenProperties
  <2>3. i \in 1..reach'
    BY <1>11, <2>2
  <2> QED BY <1>3, <2>1, <2>3
<1>4. ASSUME NEW i \in DOMAIN file' PROVE file'[i] <= second' /\ file'[i] \in Nat
  <2>1. second' \in Nat
    BY <1>3, LogStoreAssumption
  <2>2. file'[i] \in Nat
    BY <1>3
  <2>3. CASE i \in DOMAIN file
    <3>1. file'[i] = file[i] /\ file[i] <= second
      BY <1>3, <2>3 DEF SearchInv, LinesInv
    <3> QED BY <1>2, <1>3, <2>1, <2>2, <3>1
  <2>4. CASE i \notin DOMAIN file
    <3>1. file'[i] = second
      BY <1>3, <2>4
    <3> QED BY <1>2, <1>3, <2>1, <3>1
  <2> QED BY <2>3, <2>4
<1>5. Cardinality(OldLines) <= Cardinality(OldLines')
  <2>1. OldLines \in SUBSET OldLines'
    <3> SUFFICES ASSUME NEW i \in OldLines PROVE i \in OldLines'
      OBVIOUS
    <3>1. i \in 1..reach /\ i \in DOMAIN file /\ file[i] + CacheLife <= second /\ file[i] \in Nat
      BY <1>2 DEF OldLines
    <3>2. i \in 1..reach' /\ file'[i] = file[i] /\ second' \in Nat
      <4>1. second' \in Nat
        BY <1>3, LogStoreAssumption
      <4> QED BY <1>12, <3>1, <4>1
    <3>3. file'[i] + CacheLife <= second'
      BY <1>2, <1>3, <3>1, <3>2, LogStoreAssumption
    <3> QED BY <3>2, <3>3 DEF OldLines
  <2>2. reach' \in Nat
    BY <1>3, LenProperties
  <2>3. IsFiniteSet(1..reach') /\ OldLines' \in SUBSET (1..reach')
    BY <2>2, FS_Interval DEF OldLines
  <2> QED BY <2>1, <2>3, FS_Subset
<1>6. scanned' \subseteq scanned /\ (scanned' # {} => echo' = echo)
  BY DEF FileGrows, AppendLine, SecondPasses, logLineVars
<1>7. ASSUME NEW c \in scanned'
      PROVE  c.echo = echo' /\ c.at <= second' /\ \A i \in 1..reach' : file'[i] < c.at => i <= c.file
  <2>1. c \in scanned /\ c.echo = echo' /\ c.at <= second /\ c.at \in Nat
        /\ \A i \in 1..reach : file[i] < c.at => i <= c.file
    BY <1>6, SearchKinds, LogStoreAssumption DEF SearchInv, LinesInv
  <2>2. c.at <= second'
    BY <1>2, <1>3, <2>1, LogStoreAssumption
  <2>3. ASSUME NEW i \in 1..reach', file'[i] < c.at PROVE i <= c.file
    <3>1. i \notin DOMAIN file => i \notin 1..reach /\ (i \in DOMAIN file' => file'[i] = second)
      BY <1>2, <1>3
    <3>2. file'[i] # second
      BY <1>2, <2>1, <2>3
    <3>3. i \in 1..reach
      BY <1>3, <2>3, <3>2
    <3>4. i \in DOMAIN file /\ file'[i] = file[i]
      BY <1>12, <3>3
    <3> QED BY <2>1, <2>3, <3>3, <3>4
  <2> QED BY <2>1, <2>2, <2>3
<1>8. ASSUME NEW s \in Searchers, searcher[s].pc \in {"peek", "scan"}
      PROVE  searcher[s].echo <= echo' /\ searcher[s].file <= Cardinality(OldLines')
  <2>1. searcher[s].echo \in Nat /\ searcher[s].file \in Nat
    BY <1>8, SearchedSteps, SearchKinds, LogStoreAssumption DEF SearchInv
  <2>2. searcher[s].echo <= echo /\ searcher[s].file <= Cardinality(OldLines) /\ Cardinality(OldLines) \in Nat
    BY <1>8, SettledFinite DEF SearchInv, LinesInv
  <2>3. Cardinality(OldLines') \in Nat
    <3>1. reach' \in Nat
      BY <1>3, LenProperties
    <3>2. IsFiniteSet(1..reach') /\ OldLines' \in SUBSET (1..reach')
      BY <3>1, FS_Interval DEF OldLines
    <3> QED BY <3>2, FS_Subset, FS_CardinalityType
  <2> QED BY <1>2, <1>3, <1>5, <2>1, <2>2, <2>3
<1>9. LinesInv'
  BY <1>1, <1>3, <1>4, <1>6, <1>7, <1>8 DEF SearchInv, LinesInv
<1>10. RetentionInv'
  BY <1>1 DEF SearchInv, RetentionInv, logRowVars
<1> QED BY <1>9, <1>10 DEF SearchInv

LEMMA SearchInvNext == SearchInv /\ [LogStoreNext]_logStoreVars => SearchInv'
<1> SUFFICES ASSUME SearchInv, [LogStoreNext]_logStoreVars PROVE SearchInv'
  OBVIOUS
<1>1. CASE UNCHANGED logStoreVars
  BY <1>1 DEF logStoreVars, SearchInv, LinesInv, RetentionInv, OldLines
<1> QED BY <1>1, LineSteps, QueryInv, PeekInv, ScanInv, RetentionSteps, RowSteps DEF LogStoreNext

LEMMA SearchInvEnough == SearchInv => LogStoreTypeOK /\ LogsTold
<1> SUFFICES ASSUME SearchInv PROVE LogStoreTypeOK /\ LogsTold
  OBVIOUS
<1>1. Cardinality(retention) <= 1
  <2>1. CASE retention = {}
    BY <2>1, FS_EmptySet
  <2>2. ASSUME NEW p \in Policies \cup {"default"}, retention = {p} PROVE Cardinality(retention) <= 1
    BY <2>2, FS_Singleton
  <2> QED BY <2>1, <2>2 DEF SearchInv, RetentionInv
<1>2. \A x \in [row : {"new", "saved"}, told : {0}] \cup [row : {"deleted"}, told : {1}] :
        x \in [row : {"new", "saved", "deleted"}, told : 0..1]
  OBVIOUS
<1>3. LogStoreTypeOK
  BY <1>1, <1>2 DEF SearchInv, LinesInv, RetentionInv, LogStoreTypeOK, Scans
<1>4. ASSUME NEW s \in Searchers, searcher[s].pc = "found"
      PROVE  searcher[s].result.echo >= searcher[s].echo /\ searcher[s].result.file >= searcher[s].file
  <2>1. searcher[s] \in HasFound /\ searcher[s].echo <= searcher[s].result.echo
        /\ searcher[s].file <= searcher[s].result.file
    BY <1>4, SearchedSteps DEF SearchInv, LinesInv
  <2> QED BY <2>1, SearchKinds, LogStoreAssumption
<1> QED BY <1>3, <1>4 DEF LogsTold, SearchInv, RetentionInv

(***************************************************************************)
(* A search finds what was appended before it began and what has been on   *)
(* disk for the cache's life in front of any line over the scanner's       *)
(* limit, and the default retention is written once and once more for each *)
(* second lookup that failed, for any searches and lines (logs/local.go,   *)
(* extra.go).                                                              *)
(***************************************************************************)
THEOREM SearchesFindLines == LogStoreSpec => [](LogStoreTypeOK /\ LogsTold)
  BY SearchInvInit, SearchInvNext, SearchInvEnough, PTL DEF LogStoreSpec

-----------------------------------------------------------------------------
(* Lists of projects.                                                      *)
LEMMA FirstAndRest ==
  ASSUME NEW S, NEW s \in Seq(S), s # <<>>
  PROVE  /\ Len(s) \in Nat \ {0} /\ Head(s) \in S /\ Head(s) = s[1]
         /\ Tail(s) \in Seq(S) /\ Len(Tail(s)) = Len(s) - 1
         /\ ToSet(s) = {Head(s)} \cup ToSet(Tail(s))
<1>1. /\ Head(s) \in S /\ Tail(s) \in Seq(S) /\ Head(s) = s[1] /\ Len(Tail(s)) = Len(s) - 1
      /\ \A i \in 1..(Len(s) - 1) : Tail(s)[i] = s[i + 1]
  BY HeadTailProperties
<1>2. Len(s) \in Nat \ {0} /\ DOMAIN s = 1..Len(s) /\ DOMAIN Tail(s) = 1..(Len(s) - 1)
  BY <1>1, EmptySeq, LenProperties
<1>3. ASSUME NEW x \in ToSet(s) PROVE x \in {Head(s)} \cup ToSet(Tail(s))
  <2>1. PICK i \in 1..Len(s) : s[i] = x
    BY <1>2, <1>3 DEF ToSet
  <2>2. CASE i = 1
    BY <1>1, <2>1, <2>2
  <2>3. CASE i # 1
    <3>1. i - 1 \in 1..(Len(s) - 1) /\ (i - 1) + 1 = i
      BY <1>2, <2>3
    <3>2. Tail(s)[i - 1] = x
      BY <1>1, <2>1, <3>1
    <3> QED BY <1>2, <3>1, <3>2 DEF ToSet
  <2> QED BY <2>2, <2>3
<1>4. ASSUME NEW x \in ToSet(Tail(s)) PROVE x \in ToSet(s)
  <2>1. PICK i \in 1..(Len(s) - 1) : Tail(s)[i] = x
    BY <1>2, <1>4 DEF ToSet
  <2>2. i + 1 \in 1..Len(s) /\ s[i + 1] = x
    BY <1>1, <1>2, <2>1
  <2> QED BY <1>2, <2>2 DEF ToSet
<1>5. Head(s) \in ToSet(s)
  BY <1>1, <1>2 DEF ToSet
<1> QED BY <1>1, <1>2, <1>3, <1>4, <1>5

LEMMA OneMore ==
  ASSUME NEW S, NEW s \in Seq(S), NEW x \in S
  PROVE  /\ Append(s, x) \in Seq(S) /\ Append(s, x) # <<>>
         /\ ToSet(Append(s, x)) = ToSet(s) \cup {x}
<1>1. /\ Append(s, x) \in Seq(S) /\ Len(Append(s, x)) = Len(s) + 1
      /\ \A i \in 1..Len(s) : Append(s, x)[i] = s[i]
      /\ Append(s, x)[Len(s) + 1] = x
  BY AppendProperties
<1>2. Len(s) \in Nat /\ DOMAIN s = 1..Len(s) /\ DOMAIN Append(s, x) = 1..(Len(s) + 1)
  BY <1>1, LenProperties
<1>3. 1..(Len(s) + 1) = 1..Len(s) \cup {Len(s) + 1}
  BY <1>2
<1>4. Append(s, x) # <<>>
  BY <1>1, <1>2, EmptySeq
<1> QED BY <1>1, <1>2, <1>3, <1>4 DEF ToSet

LEMMA NoneListed == ToSet(<<>>) = {}
BY DEF ToSet

-----------------------------------------------------------------------------
(* Access to projects.  The request's ghosts only grow, its unique list    *)
(* holds projects that passed the checks, and rows of a pair never go away.*)
LinkRows == {"none", "live", "deleted"}
Requested ==
  [pc : {"gate", "links", "any", "device", "project", "write", "done"}, kind : Kinds,
   caller : Users \cup {Admin}, role : AllRoles, list : Seq(Projects), target : Users,
   mine : SUBSET Projects, todo : Seq(Projects), unique : Seq(Projects),
   ids : SUBSET Projects, made : SUBSET Projects,
   outcome : {"none", "ok", "refused", "failed"},
   member : SUBSET Projects, existed : SUBSET Projects, linked : SUBSET Projects]

AccessTypes ==
  /\ dialect \in {"sqlite", "postgres"} /\ getter \in BOOLEAN
  /\ members \in [Projects -> [Users -> LinkRows]] /\ links \in [Projects -> LinkRows]
  /\ there \subseteq Projects \cup {Device}
  /\ op = NoOp \/ op \in Requested

\* Where a request can be, and what is left of its list.
Shaped(o) ==
  /\ o.kind # "bulk" => Len(o.list) = 1
  /\ o.pc \in {"links", "any"} => o.kind = "host"
  /\ o.pc \in {"gate", "device", "project", "write"} => o.kind # "host"
  /\ o.pc = "device" => o.kind \in {"link", "bulk"}
  /\ o.pc = "project" => o.kind \in {"link", "bulk", "assign"} /\ o.todo # <<>>
  /\ o.pc \in {"device", "project", "write"} => o.role # "Developer"
  /\ o.pc # "done" => o.outcome = "none"
  /\ ToSet(o.todo) \cup ToSet(o.unique) \subseteq ToSet(o.list)
  /\ o.pc \in {"gate", "device"} => o.todo = o.list /\ o.unique = <<>>
  /\ o.pc = "project" => ToSet(o.list) \subseteq ToSet(o.unique) \cup ToSet(o.todo)
  /\ o.pc = "write" => o.kind \in {"link", "bulk"} \/ o.todo # <<>>
  /\ o.kind = "host" => o.made = {}
  /\ o.role = "Developer" => o.made = {}

\* What its caller was entitled to.
Entitled(o) ==
  /\ o.caller = Admin => o.member = Projects
  /\ o.mine \subseteq o.member /\ o.ids \subseteq o.linked
  /\ o.made \subseteq o.member \cap o.existed
  /\ o.pc = "project" => ToSet(o.unique) \subseteq o.member \cap o.existed
  /\ o.pc = "write" /\ o.kind \in {"link", "bulk"} => ToSet(o.todo) \subseteq o.member \cap o.existed

\* What it may say of the tables.
LinksKept(o) ==
  /\ o.pc = "write" /\ o.kind \in {"link", "bulk"} =>
       \A p \in ToSet(o.list) : p \in ToSet(o.todo) \/ links[p] # "none"
  /\ o.outcome = "ok" =>
       /\ o.role = "Developer" => o.kind = "host"
       /\ o.kind \in {"link", "bulk"} => \A p \in ToSet(o.list) : links[p] # "none"
       /\ o.kind = "assign" => members[o.list[1]][o.target] # "none"
       /\ o.kind = "host" /\ o.caller # Admin => o.member \cap o.linked # {}

AccessInv ==
  /\ AccessTypes
  /\ op # NoOp => Shaped(op) /\ Entitled(op) /\ LinksKept(op)

LEMMA RequestKinds ==
  /\ NoOp \notin Requested /\ NoOp.pc = "idle"
  /\ \A o \in Requested :
       /\ o.pc \in {"gate", "links", "any", "device", "project", "write", "done"}
       /\ o.kind \in Kinds /\ o.caller \in Users \cup {Admin} /\ o.role \in AllRoles
       /\ o.list \in Seq(Projects) /\ o.todo \in Seq(Projects) /\ o.unique \in Seq(Projects)
       /\ o.target \in Users /\ o.mine \subseteq Projects /\ o.ids \subseteq Projects
       /\ o.made \subseteq Projects /\ o.outcome \in {"none", "ok", "refused", "failed"}
       /\ o.member \subseteq Projects /\ o.existed \subseteq Projects /\ o.linked \subseteq Projects
<1>1. \A o \in Requested : o.pc \in {"gate", "links", "any", "device", "project", "write", "done"}
  BY DEF Requested
<1>2. NoOp.pc = "idle"
  BY DEF NoOp
<1> QED BY <1>1, <1>2 DEF Requested

\* q is o, with what the step's end adds to the ghosts.
Saw(q, o) ==
  /\ q \in Requested
  /\ q.pc = o.pc /\ q.kind = o.kind /\ q.caller = o.caller /\ q.role = o.role
  /\ q.list = o.list /\ q.target = o.target /\ q.mine = o.mine /\ q.todo = o.todo
  /\ q.unique = o.unique /\ q.ids = o.ids /\ q.made = o.made /\ q.outcome = o.outcome
  /\ q.member = o.member \cup (IF o.caller = Admin THEN Projects ELSE
                               {p \in Projects : members'[p][o.caller] = "live"})
  /\ q.existed = o.existed \cup (there' \cap Projects)
  /\ q.linked = o.linked \cup {p \in Projects : links'[p] = "live"}

LEMMA SeenIt == ASSUME NEW o \in Requested, SeenBy(o) PROVE op' \in Requested /\ Saw(op', o)
<1>1. op' = Seen(o)
  BY RequestKinds DEF SeenBy
<1>2. PICK m \in SUBSET Projects :
        m = o.member \cup (IF o.caller = Admin THEN Projects ELSE
                           {p \in Projects : members'[p][o.caller] = "live"})
  BY RequestKinds
<1>3. PICK e \in SUBSET Projects : e = o.existed \cup (there' \cap Projects)
  BY RequestKinds
<1>4. PICK k \in SUBSET Projects : k = o.linked \cup {p \in Projects : links'[p] = "live"}
  BY RequestKinds
<1>5. PICK a \in Requested : a = [o EXCEPT !.member = m]
  BY DEF Requested
<1>6. PICK b \in Requested : b = [a EXCEPT !.existed = e]
  BY DEF Requested
<1>7. PICK c \in Requested : c = [b EXCEPT !.linked = k]
  BY DEF Requested
<1>8. Seen(o) = [[[o EXCEPT !.member = m] EXCEPT !.existed = e] EXCEPT !.linked = k]
  BY <1>2, <1>3, <1>4 DEF Seen, Requested
<1>9. op' = c
  BY <1>1, <1>5, <1>6, <1>7, <1>8
<1>10. /\ c.pc = o.pc /\ c.kind = o.kind /\ c.caller = o.caller /\ c.role = o.role
       /\ c.list = o.list /\ c.target = o.target /\ c.mine = o.mine /\ c.todo = o.todo
       /\ c.unique = o.unique /\ c.ids = o.ids /\ c.made = o.made /\ c.outcome = o.outcome
       /\ c.member = m /\ c.existed = e /\ c.linked = k
  BY <1>5, <1>6, <1>7 DEF Requested
<1> QED BY <1>2, <1>3, <1>4, <1>9, <1>10 DEF Saw

LEMMA AccessInvInit == AccessInit => AccessInv
BY DEF AccessInit, AccessInv, AccessTypes, LinkRows

\* A row of a pair, once there, stays.
TablesKept ==
  /\ members' \in [Projects -> [Users -> LinkRows]] /\ links' \in [Projects -> LinkRows]
  /\ there' \subseteq Projects \cup {Device} /\ UNCHANGED <<dialect, getter>>
  /\ \A p \in Projects : links[p] # "none" => links'[p] # "none"
  /\ \A p \in Projects, u \in Users : members[p][u] # "none" => members'[p][u] # "none"

LEMMA SameTables ==
  ASSUME AccessInv, UNCHANGED <<dialect, getter, members, links, there>>
  PROVE  TablesKept
BY DEF TablesKept, AccessInv, AccessTypes

LEMMA EntitledOn ==
  ASSUME NEW o \in Requested, Entitled(o), Saw(op', o)
  PROVE  Entitled(op)'
<1>1. /\ o.member \subseteq op'.member /\ o.existed \subseteq op'.existed /\ o.linked \subseteq op'.linked
      /\ op'.member \subseteq Projects
  BY RequestKinds DEF Saw
<1> QED BY <1>1 DEF Entitled, Saw

LEMMA KeptOn ==
  ASSUME NEW o \in Requested, Shaped(o), LinksKept(o), Saw(op', o), TablesKept
  PROVE  LinksKept(op)'
<1>1. o.member \subseteq op'.member /\ o.linked \subseteq op'.linked
  BY DEF Saw
<1>2. \A p \in ToSet(o.list) : p \in Projects
  <2>1. o.list \in Seq(Projects)
    BY RequestKinds
  <2> QED BY <2>1, ElementOfSeq, LenProperties DEF ToSet
<1>3. o.kind = "assign" => o.list[1] \in Projects /\ o.target \in Users
  <2>1. o.list \in Seq(Projects) /\ o.target \in Users
    BY RequestKinds
  <2> QED BY <2>1, ElementOfSeq DEF Shaped
<1>4. /\ op'.pc = o.pc /\ op'.kind = o.kind /\ op'.caller = o.caller /\ op'.role = o.role
      /\ op'.list = o.list /\ op'.target = o.target /\ op'.todo = o.todo /\ op'.outcome = o.outcome
  BY DEF Saw
<1>5. op'.pc = "write" /\ op'.kind \in {"link", "bulk"} =>
        \A p \in ToSet(op'.list) : p \in ToSet(op'.todo) \/ links'[p] # "none"
  BY <1>2, <1>4 DEF LinksKept, TablesKept
<1>6. ASSUME op'.outcome = "ok"
      PROVE  /\ op'.role = "Developer" => op'.kind = "host"
             /\ op'.kind \in {"link", "bulk"} => \A p \in ToSet(op'.list) : links'[p] # "none"
             /\ op'.kind = "assign" => members'[op'.list[1]][op'.target] # "none"
             /\ op'.kind = "host" /\ op'.caller # Admin => op'.member \cap op'.linked # {}
  BY <1>1, <1>2, <1>3, <1>4, <1>6 DEF LinksKept, TablesKept
<1> QED BY <1>5, <1>6 DEF LinksKept

LEMMA AccessStep ==
  ASSUME AccessInv, TablesKept, NEW o \in Requested, SeenBy(o), Shaped(o), Entitled(op)', LinksKept(op)'
  PROVE  AccessInv'
<1>1. op' \in Requested /\ Saw(op', o)
  BY SeenIt
<1>2. AccessTypes'
  BY <1>1 DEF AccessInv, AccessTypes, TablesKept
<1>3. Shaped(op)'
  BY <1>1 DEF Shaped, Saw
<1> QED BY <1>2, <1>3 DEF AccessInv

LEMMA OfOp ==
  ASSUME AccessInv, op.pc # "idle"
  PROVE  op # NoOp /\ op \in Requested /\ Shaped(op) /\ Entitled(op) /\ LinksKept(op)
BY RequestKinds DEF AccessInv, AccessTypes

\* A request answers; what a success says has to hold.
LEMMA RequestAnswered ==
  ASSUME AccessInv, TablesKept, op.pc # "idle", NEW x \in {"ok", "refused", "failed"}, Answers(x),
         x = "ok" =>
           /\ op.role = "Developer" => op.kind = "host"
           /\ op.kind \in {"link", "bulk"} => \A p \in ToSet(op.list) : links'[p] # "none"
           /\ op.kind = "assign" => members'[op.list[1]][op.target] # "none"
           /\ op.kind = "host" /\ op.caller # Admin =>
                \E p \in Projects : p \in op.ids /\ members'[p][op.caller] = "live"
  PROVE  AccessInv'
<1>1. op \in Requested /\ Shaped(op) /\ Entitled(op)
  BY OfOp
<1>2. PICK a \in Requested : a = [op EXCEPT !.pc = "done"]
  BY <1>1 DEF Requested
<1>3. PICK o \in Requested : o = [a EXCEPT !.outcome = x]
  BY DEF Requested
<1>4. SeenBy(o)
  BY <1>2, <1>3 DEF Answers
<1>5. /\ o.pc = "done" /\ o.kind = op.kind /\ o.caller = op.caller /\ o.role = op.role
      /\ o.list = op.list /\ o.target = op.target /\ o.mine = op.mine /\ o.todo = op.todo
      /\ o.unique = op.unique /\ o.ids = op.ids /\ o.made = op.made /\ o.outcome = x
      /\ o.member = op.member /\ o.existed = op.existed /\ o.linked = op.linked
  BY <1>1, <1>2, <1>3 DEF Requested
<1>6. Saw(op', o)
  BY <1>4, SeenIt
<1>7. Shaped(o) /\ Entitled(o)
  BY <1>1, <1>5 DEF Shaped, Entitled
<1>8. Entitled(op)'
  BY <1>6, <1>7, EntitledOn
<1>9. LinksKept(op)'
  <2>1. op'.pc = "done" /\ op'.outcome = x
    BY <1>5, <1>6 DEF Saw
  <2>2. op.ids \subseteq op.linked
    BY <1>1 DEF Entitled
  <2>3. x = "ok" /\ op.kind = "host" /\ op.caller # Admin => op'.member \cap op'.linked # {}
    BY <1>5, <1>6, <2>2 DEF Saw
  <2> QED BY <1>5, <1>6, <2>1, <2>3 DEF LinksKept, Saw
<1> QED BY <1>4, <1>7, <1>8, <1>9, AccessStep

\* A request goes on to another place, its list as it was.
LEMMA WentOn ==
  ASSUME AccessInv, TablesKept, op.pc # "idle", op.pc # "done", NEW o \in Requested, SeenBy(o),
         o.kind = op.kind, o.caller = op.caller, o.role = op.role, o.list = op.list,
         o.target = op.target, o.made = op.made, o.outcome = op.outcome,
         o.member = op.member, o.existed = op.existed, o.linked = op.linked,
         Shaped(o), Entitled(op)',
         o.pc = "write" /\ o.kind \in {"link", "bulk"} => ToSet(o.list) \subseteq ToSet(o.todo)
  PROVE  AccessInv'
<1>1. Shaped(op)
  BY OfOp
<1>2. o.outcome = "none"
  BY <1>1 DEF Shaped
<1>3. LinksKept(o)
  BY <1>2 DEF LinksKept
<1>4. LinksKept(op)'
  BY <1>3, SeenIt, KeptOn
<1> QED BY <1>4, AccessStep

-----------------------------------------------------------------------------
(* Which roles the gates let by.                                           *)
LEMMA DevelopersLook ==
  ASSUME NEW o, Permitted(o), o.kind \in Kinds, o.kind # "host"
  PROVE  o.role # "Developer"
<1>1. Needs(o.kind) \in {"projects.write", "hostproject.write"}
  BY DEF Needs, Kinds
<1>2. ~(Needs(o.kind) \in DeveloperPermissions)
  BY <1>1 DEF DeveloperPermissions
<1>3. RolePermissions["Developer"] = DeveloperPermissions
  BY DEF RolePermissions
<1> QED BY <1>2, <1>3 DEF Permitted, RoleHasPermission

LEMMA BeginInv ==
  ASSUME AccessInv, NEW u \in Users \cup {Admin}, NEW role \in RolesOf(u), NEW kind \in Kinds,
         NEW list \in Seq(Projects), NEW target \in Users, Begin(u, role, kind, list, target)
  PROVE  AccessInv'
<1>1. UNCHANGED <<dialect, getter, members, links, there>> /\ (kind # "bulk" => Len(list) = 1)
  BY DEF Begin
<1>2. role \in AllRoles
  BY DEF RolesOf, AllRoles, RolePermissions
<1>10. PICK pc \in {"links", "gate"} : pc = IF kind = "host" THEN "links" ELSE "gate"
  OBVIOUS
<1>11. <<>> \in Seq(Projects)
  BY EmptySeq
<1>3. PICK o \in Requested :
        o = [pc |-> pc, kind |-> kind, caller |-> u, role |-> role,
             list |-> list, target |-> target, mine |-> {}, todo |-> list, unique |-> <<>>,
             ids |-> {}, made |-> {}, outcome |-> "none", member |-> {}, existed |-> {}, linked |-> {}]
  BY <1>2, <1>11 DEF Requested
<1>4. SeenBy(o)
  BY <1>3, <1>10 DEF Begin
<1>5. /\ o.pc = (IF kind = "host" THEN "links" ELSE "gate") /\ o.kind = kind /\ o.caller = u
      /\ o.role = role /\ o.list = list /\ o.target = target /\ o.mine = {} /\ o.todo = list
      /\ o.unique = <<>> /\ o.ids = {} /\ o.made = {} /\ o.outcome = "none"
      /\ o.member = {} /\ o.existed = {} /\ o.linked = {}
  BY <1>3, <1>10
<1>6. Shaped(o)
  BY <1>1, <1>5, NoneListed DEF Shaped
<1>7. Saw(op', o)
  BY <1>4, SeenIt
<1>8. Entitled(op)'
  BY <1>5, <1>7 DEF Entitled, Saw
<1>9. LinksKept(op)'
  BY <1>5, <1>7 DEF LinksKept, Saw
<1> QED BY <1>1, <1>4, <1>6, <1>8, <1>9, AccessStep, SameTables

LEMMA GateInv == ASSUME AccessInv, Gate PROVE AccessInv'
<1>1. op.pc = "gate" /\ UNCHANGED <<dialect, getter, members, links, there>>
  BY DEF Gate
<1>2. op \in Requested /\ Shaped(op) /\ Entitled(op) /\ TablesKept
  BY <1>1, OfOp, SameTables
<1>3. CASE Answers("refused")
  BY <1>1, <1>2, <1>3, RequestAnswered
<1>4. ASSUME Permitted(op), NEW mine \in SUBSET Projects,
             op.caller # Admin => mine = ProjectsOf(op.caller),
             op.caller = Admin => mine = op.mine,
             SeenBy([op EXCEPT !.mine = mine, !.pc = AfterGate(op)])
      PROVE  AccessInv'
  <2>1. op.kind \in Kinds /\ op.kind # "host" /\ op.role # "Developer"
    BY <1>1, <1>2, <1>4, DevelopersLook, RequestKinds DEF Shaped
  <2>2. PICK pc \in {"device", "project", "write"} : pc = AfterGate(op)
    BY DEF AfterGate
  <2>3. PICK a \in Requested : a = [op EXCEPT !.mine = mine]
    BY <1>2 DEF Requested
  <2>4. PICK o \in Requested : o = [a EXCEPT !.pc = pc]
    BY DEF Requested
  <2>5. SeenBy(o)
    BY <1>4, <2>2, <2>3, <2>4
  <2>6. /\ o.pc = pc /\ o.kind = op.kind /\ o.caller = op.caller /\ o.role = op.role
        /\ o.list = op.list /\ o.target = op.target /\ o.mine = mine /\ o.todo = op.todo
        /\ o.unique = op.unique /\ o.ids = op.ids /\ o.made = op.made /\ o.outcome = op.outcome
        /\ o.member = op.member /\ o.existed = op.existed /\ o.linked = op.linked
    BY <1>2, <2>3, <2>4 DEF Requested
  <2>7. /\ pc = "device" => op.kind \in {"link", "bulk"}
        /\ pc = "project" => op.kind = "assign"
        /\ pc = "write" => op.kind \notin {"link", "bulk"}
    BY <2>1, <2>2 DEF AfterGate
  <2>8. op.kind # "bulk" => op.todo # <<>>
    <3>1. op.list \in Seq(Projects) /\ op.todo = op.list /\ (op.kind # "bulk" => Len(op.list) = 1)
      BY <1>1, <1>2, RequestKinds DEF Shaped
    <3> QED BY <3>1, EmptySeq
  <2>9. Shaped(o)
    BY <1>1, <1>2, <2>1, <2>6, <2>7, <2>8 DEF Shaped
  <2>10. Saw(op', o)
    BY <2>5, SeenIt
  <2>11. mine \subseteq op'.member
    BY <1>1, <1>2, <1>4, <2>6, <2>10 DEF Saw, Entitled, ProjectsOf
  <2>12. ToSet(op'.unique) = {}
    BY <1>1, <1>2, <2>6, <2>10, NoneListed DEF Shaped, Saw
  <2>13. op.member \subseteq op'.member /\ op.existed \subseteq op'.existed /\ op.linked \subseteq op'.linked
         /\ op'.member \subseteq Projects
    BY <2>6, <2>10, RequestKinds DEF Saw
  <2>14. Entitled(op)'
    BY <1>2, <2>6, <2>7, <2>10, <2>11, <2>12, <2>13 DEF Entitled, Saw
  <2> QED BY <1>1, <1>2, <2>5, <2>6, <2>7, <2>9, <2>14, WentOn
<1>5. CASE Permitted(op) /\ op.caller = Admin /\ OpGoes(AfterGate(op))
  <2>1. PICK mine \in SUBSET Projects : mine = op.mine
    BY <1>2, RequestKinds
  <2>2. [op EXCEPT !.mine = mine, !.pc = AfterGate(op)] = [op EXCEPT !.pc = AfterGate(op)]
    BY <1>2, <2>1 DEF Requested
  <2> QED BY <1>4, <1>5, <2>1, <2>2 DEF OpGoes
<1>6. CASE Permitted(op) /\ op.caller # Admin
           /\ SeenBy([op EXCEPT !.mine = ProjectsOf(op.caller), !.pc = AfterGate(op)])
  <2>1. PICK mine \in SUBSET Projects : mine = ProjectsOf(op.caller)
    BY DEF ProjectsOf
  <2> QED BY <1>4, <1>6, <2>1
<1> QED BY <1>1, <1>3, <1>5, <1>6 DEF Gate

LEMMA GateLinksInv == ASSUME AccessInv, GateLinks PROVE AccessInv'
<1>1. op.pc = "links" /\ UNCHANGED <<dialect, getter, members, links, there>>
  BY DEF GateLinks
<1>2. op \in Requested /\ Shaped(op) /\ Entitled(op) /\ TablesKept /\ op.kind = "host"
  BY <1>1, OfOp, SameTables DEF Shaped
<1>3. CASE Answers("refused")
  BY <1>1, <1>2, <1>3, RequestAnswered
<1>4. CASE op.caller = Admin /\ Answers("ok")
  BY <1>1, <1>2, <1>4, RequestAnswered
<1>5. CASE SeenBy([op EXCEPT !.pc = "any", !.ids = Linked])
  <2>1. PICK ids \in SUBSET Projects : ids = Linked
    BY DEF Linked
  <2>2. PICK a \in Requested : a = [op EXCEPT !.pc = "any"]
    BY <1>2 DEF Requested
  <2>3. PICK o \in Requested : o = [a EXCEPT !.ids = ids]
    BY DEF Requested
  <2>4. SeenBy(o)
    BY <1>5, <2>1, <2>2, <2>3
  <2>5. /\ o.pc = "any" /\ o.kind = op.kind /\ o.caller = op.caller /\ o.role = op.role
        /\ o.list = op.list /\ o.target = op.target /\ o.mine = op.mine /\ o.todo = op.todo
        /\ o.unique = op.unique /\ o.ids = ids /\ o.made = op.made /\ o.outcome = op.outcome
        /\ o.member = op.member /\ o.existed = op.existed /\ o.linked = op.linked
    BY <1>2, <2>2, <2>3 DEF Requested
  <2>6. Shaped(o)
    BY <1>1, <1>2, <2>5 DEF Shaped
  <2>7. Saw(op', o)
    BY <2>4, SeenIt
  <2>8. ids \subseteq op'.linked
    BY <1>1, <2>1, <2>7 DEF Saw, Linked
  <2>9. op.member \subseteq op'.member /\ op.existed \subseteq op'.existed /\ op'.member \subseteq Projects
    BY <2>5, <2>7, RequestKinds DEF Saw
  <2>10. Entitled(op)'
    BY <1>2, <2>5, <2>7, <2>8, <2>9 DEF Entitled, Saw
  <2> QED BY <1>1, <1>2, <2>4, <2>5, <2>6, <2>10, WentOn
<1> QED BY <1>1, <1>3, <1>4, <1>5 DEF GateLinks

LEMMA GateAnyInv == ASSUME AccessInv, GateAny PROVE AccessInv'
<1>1. op.pc = "any" /\ UNCHANGED <<dialect, getter, members, links, there>>
  BY DEF GateAny
<1>2. op \in Requested /\ Shaped(op) /\ Entitled(op) /\ TablesKept /\ op.kind = "host"
      /\ op.ids \subseteq Projects
  BY <1>1, OfOp, SameTables, RequestKinds DEF Shaped
<1>3. CASE Answers("refused")
  BY <1>1, <1>2, <1>3, RequestAnswered
<1>4. CASE Answers("ok") /\ \E p \in op.ids : IsMemberOf(op.caller, ProjectsOf(op.caller), p)
  <2>1. op.caller # Admin => \E p \in Projects : p \in op.ids /\ members'[p][op.caller] = "live"
    BY <1>1, <1>2, <1>4 DEF IsMemberOf, ProjectsOf
  <2> QED BY <1>1, <1>2, <1>4, <2>1, RequestAnswered
<1> QED BY <1>3, <1>4 DEF GateAny

LEMMA CheckDeviceInv == ASSUME AccessInv, CheckDevice PROVE AccessInv'
<1>1. op.pc = "device" /\ UNCHANGED <<dialect, getter, members, links, there>>
  BY DEF CheckDevice
<1>2. op \in Requested /\ Shaped(op) /\ Entitled(op) /\ TablesKept
  BY <1>1, OfOp, SameTables
<1>3. CASE Answers("refused")
  BY <1>1, <1>2, <1>3, RequestAnswered
<1>4. CASE OpGoes(IF op.list = <<>> THEN "write" ELSE "project")
  <2>1. PICK pc \in {"write", "project"} : pc = IF op.list = <<>> THEN "write" ELSE "project"
    OBVIOUS
  <2>2. PICK o \in Requested : o = [op EXCEPT !.pc = pc]
    BY <1>2 DEF Requested
  <2>3. SeenBy(o)
    BY <1>4, <2>1, <2>2 DEF OpGoes
  <2>4. /\ o.pc = pc /\ o.kind = op.kind /\ o.caller = op.caller /\ o.role = op.role
        /\ o.list = op.list /\ o.target = op.target /\ o.mine = op.mine /\ o.todo = op.todo
        /\ o.unique = op.unique /\ o.ids = op.ids /\ o.made = op.made /\ o.outcome = op.outcome
        /\ o.member = op.member /\ o.existed = op.existed /\ o.linked = op.linked
    BY <1>2, <2>2 DEF Requested
  <2>5. /\ op.kind \in {"link", "bulk"} /\ op.todo = op.list /\ op.unique = <<>> /\ op.role # "Developer"
        /\ pc = "write" => ToSet(op.list) = {}
        /\ pc = "project" => op.list # <<>>
    BY <1>1, <1>2, <2>1, NoneListed DEF Shaped
  <2>6. Shaped(o)
    BY <1>1, <1>2, <2>1, <2>4, <2>5 DEF Shaped
  <2>7. Saw(op', o)
    BY <2>3, SeenIt
  <2>8. Entitled(o)
    BY <1>2, <2>1, <2>4, <2>5, NoneListed DEF Entitled
  <2>9. Entitled(op)'
    BY <2>7, <2>8, EntitledOn
  <2> QED BY <1>1, <1>2, <2>3, <2>4, <2>5, <2>6, <2>9, WentOn
<1> QED BY <1>3, <1>4 DEF CheckDevice

LEMMA CheckProjectInv == ASSUME AccessInv, CheckProject PROVE AccessInv'
<1>1. op.pc = "project" /\ UNCHANGED <<dialect, getter, members, links, there>>
  BY DEF CheckProject
<1>2. op \in Requested /\ Shaped(op) /\ Entitled(op) /\ TablesKept
  BY <1>1, OfOp, SameTables
<1>3. op.list \in Seq(Projects) /\ op.todo \in Seq(Projects) /\ op.unique \in Seq(Projects)
      /\ op.todo # <<>> /\ op.kind \in {"link", "bulk", "assign"} /\ op.role # "Developer"
      /\ op.member \subseteq Projects
  BY <1>1, <1>2, RequestKinds DEF Shaped
<1>4. PICK p \in Projects : p = Head(op.todo)
  BY <1>3, FirstAndRest
<1>5. /\ Len(op.todo) \in Nat \ {0} /\ Tail(op.todo) \in Seq(Projects)
      /\ Len(Tail(op.todo)) = Len(op.todo) - 1
      /\ ToSet(op.todo) = {p} \cup ToSet(Tail(op.todo))
  BY <1>3, <1>4, FirstAndRest
<1>6. PICK unique \in Seq(Projects) :
        unique = IF p \in ToSet(op.unique) THEN op.unique ELSE Append(op.unique, p)
  BY <1>3, OneMore
<1>7. ToSet(unique) = ToSet(op.unique) \cup {p} /\ unique # <<>>
  BY <1>3, <1>6, OneMore, NoneListed
<1>8. CASE Answers("refused")
  BY <1>1, <1>2, <1>8, RequestAnswered
<1>9. ASSUME NEW todo \in Seq(Projects), NEW pc \in {"project", "write"},
             pc = "project" => todo = Tail(op.todo) /\ Len(op.todo) > 1,
             pc = "write" => todo = unique /\ ~(Len(op.todo) > 1),
             p \in ToSet(op.unique) \/ (Allowed(op, p) /\ p \in there),
             SeenBy([op EXCEPT !.todo = todo, !.unique = unique, !.pc = pc])
      PROVE  AccessInv'
  <2>1. PICK a \in Requested : a = [op EXCEPT !.todo = todo]
    BY <1>2 DEF Requested
  <2>2. PICK b \in Requested : b = [a EXCEPT !.unique = unique]
    BY DEF Requested
  <2>3. PICK o \in Requested : o = [b EXCEPT !.pc = pc]
    BY DEF Requested
  <2>4. SeenBy(o)
    BY <1>9, <2>1, <2>2, <2>3
  <2>5. /\ o.pc = pc /\ o.kind = op.kind /\ o.caller = op.caller /\ o.role = op.role
        /\ o.list = op.list /\ o.target = op.target /\ o.mine = op.mine /\ o.todo = todo
        /\ o.unique = unique /\ o.ids = op.ids /\ o.made = op.made /\ o.outcome = op.outcome
        /\ o.member = op.member /\ o.existed = op.existed /\ o.linked = op.linked
    BY <1>2, <2>1, <2>2, <2>3 DEF Requested
  <2>6. /\ pc = "write" => ToSet(Tail(op.todo)) = {}
        /\ pc = "project" => todo # <<>>
    <3>1. Tail(op.todo) = <<>> <=> Len(Tail(op.todo)) = 0
      BY <1>5, EmptySeq
    <3>2. pc = "write" => Tail(op.todo) = <<>>
      BY <1>5, <1>9, <3>1
    <3>3. pc = "project" => todo # <<>>
      BY <1>5, <1>9, <3>1
    <3> QED BY <3>2, <3>3, NoneListed
  <2>7. /\ ToSet(op.todo) \cup ToSet(op.unique) = ToSet(op.list)
    BY <1>1, <1>2 DEF Shaped
  <2>8. /\ ToSet(todo) \cup ToSet(unique) = ToSet(op.list)
        /\ pc = "write" => ToSet(todo) = ToSet(op.list)
    BY <1>5, <1>7, <1>9, <2>6, <2>7
  <2>9. Shaped(o)
    BY <1>1, <1>2, <1>3, <1>7, <1>9, <2>5, <2>6, <2>8 DEF Shaped
  <2>10. Saw(op', o)
    BY <2>4, SeenIt
  <2>11. /\ op.member \subseteq op'.member /\ op.existed \subseteq op'.existed
         /\ op.linked \subseteq op'.linked /\ op'.member \subseteq Projects
    BY <2>5, <2>10, RequestKinds DEF Saw
  <2>12. ToSet(op.unique) \subseteq op.member \cap op.existed
    BY <1>1, <1>2 DEF Entitled
  <2>13. p \in op'.member \cap op'.existed
    <3>1. CASE p \in ToSet(op.unique)
      BY <2>11, <2>12, <3>1
    <3>2. CASE Allowed(op, p) /\ p \in there
      BY <1>1, <1>2, <2>5, <2>10, <2>11, <3>2 DEF Allowed, IsMemberOf, Entitled, Saw
    <3> QED BY <1>9, <3>1, <3>2
  <2>14. ToSet(unique) \subseteq op'.member \cap op'.existed
    BY <1>7, <2>11, <2>12, <2>13
  <2>15. Entitled(op)'
    BY <1>2, <1>9, <2>5, <2>10, <2>11, <2>14 DEF Entitled, Saw
  <2> QED BY <1>1, <1>2, <2>4, <2>5, <2>8, <2>9, <2>15, WentOn
<1>10. CASE Len(op.todo) > 1 /\ (p \in ToSet(op.unique) \/ (Allowed(op, p) /\ p \in there))
            /\ SeenBy([op EXCEPT !.todo = Tail(@), !.unique = unique])
  <2>1. PICK todo \in Seq(Projects) : todo = Tail(op.todo)
    BY <1>5
  <2>2. [op EXCEPT !.todo = Tail(@), !.unique = unique] =
        [op EXCEPT !.todo = todo, !.unique = unique, !.pc = "project"]
    BY <1>1, <1>2, <2>1 DEF Requested
  <2> QED BY <1>9, <1>10, <2>1, <2>2
<1>11. CASE ~(Len(op.todo) > 1) /\ (p \in ToSet(op.unique) \/ (Allowed(op, p) /\ p \in there))
            /\ SeenBy([op EXCEPT !.todo = unique, !.unique = unique, !.pc = "write"])
  BY <1>9, <1>11
<1> QED BY <1>4, <1>6, <1>8, <1>10, <1>11 DEF CheckProject

-----------------------------------------------------------------------------
(* The writes.                                                             *)
LEMMA LinkWriteInv == ASSUME AccessInv, WriteProject PROVE AccessInv'
<1>1. op.pc = "write" /\ op.todo # <<>> /\ UNCHANGED <<dialect, getter, there>>
  BY DEF WriteProject
<1>2. op \in Requested /\ Shaped(op) /\ Entitled(op) /\ LinksKept(op) /\ op.kind # "host"
      /\ op.role # "Developer" /\ op.outcome = "none"
  BY <1>1, OfOp DEF Shaped
<1>3. op.list \in Seq(Projects) /\ op.todo \in Seq(Projects) /\ op.target \in Users
      /\ op.made \subseteq Projects
  BY <1>2, RequestKinds
<1>4. PICK p \in Projects : p = Head(op.todo)
  BY <1>1, <1>3, FirstAndRest
<1>5. /\ Len(op.todo) \in Nat \ {0} /\ Tail(op.todo) \in Seq(Projects)
      /\ Len(Tail(op.todo)) = Len(op.todo) - 1
      /\ ToSet(op.todo) = {p} \cup ToSet(Tail(op.todo))
  BY <1>1, <1>3, <1>4, FirstAndRest
<1>6. ToSet(op.todo) \subseteq ToSet(op.list)
  BY <1>2 DEF Shaped
<1>7. op.kind # "bulk" => op.list[1] = p
  <2>1. op.kind # "bulk" => ToSet(op.list) = {op.list[1]}
    <3>1. op.kind # "bulk" => Len(op.list) = 1 /\ DOMAIN op.list = {1}
      BY <1>2, <1>3, LenProperties DEF Shaped
    <3> QED BY <3>1 DEF ToSet
  <2> QED BY <1>5, <1>6, <2>1
<1>8. members \in [Projects -> [Users -> LinkRows]] /\ links \in [Projects -> LinkRows]
      /\ there \subseteq Projects \cup {Device}
  BY DEF AccessInv, AccessTypes
<1>9. CASE WriteAssign(p)
  <2>1. op.kind = "assign" /\ links' = links
    BY <1>9 DEF WriteAssign
  <2>2. CASE members[p][op.target] = "none"
    <3>1. PICK row \in [Users -> LinkRows] : row = [members[p] EXCEPT ![op.target] = "live"]
      BY <1>3, <1>8 DEF LinkRows
    <3>2. members' = [members EXCEPT ![p] = row]
      BY <1>9, <2>2, <3>1 DEF WriteAssign
    <3>3. TablesKept
      BY <1>1, <1>3, <1>8, <2>1, <3>1, <3>2 DEF TablesKept
    <3>4. members'[op.list[1]][op.target] # "none"
      BY <1>3, <1>7, <1>8, <2>1, <3>1, <3>2
    <3>5. Answers("ok")
      BY <1>9, <2>2 DEF WriteAssign
    <3> QED BY <1>1, <1>2, <2>1, <3>3, <3>4, <3>5, RequestAnswered
  <2>3. CASE members[p][op.target] # "none"
    <3>1. members' = members /\ TablesKept
      BY <1>1, <1>8, <1>9, <2>1, <2>3 DEF WriteAssign, TablesKept
    <3>2. members'[op.list[1]][op.target] # "none"
      BY <1>7, <2>1, <2>3, <3>1
    <3>3. Answers("ok") \/ Answers("failed")
      BY <1>9 DEF WriteAssign
    <3> QED BY <1>1, <1>2, <2>1, <3>1, <3>2, <3>3, RequestAnswered
  <2> QED BY <2>2, <2>3
<1>10. CASE WriteRevoke(p)
  <2>1. op.kind = "revoke" /\ links' = links
    BY <1>10 DEF WriteRevoke
  <2>2. TablesKept
    <3>1. CASE members[p][op.target] = "live"
      <4>1. PICK row \in [Users -> LinkRows] : row = [members[p] EXCEPT ![op.target] = "deleted"]
        BY <1>3, <1>8 DEF LinkRows
      <4>2. members' = [members EXCEPT ![p] = row]
        BY <1>10, <3>1, <4>1 DEF WriteRevoke
      <4> QED BY <1>1, <1>3, <1>8, <2>1, <4>1, <4>2 DEF TablesKept
    <3>2. CASE members[p][op.target] # "live"
      BY <1>1, <1>8, <1>10, <2>1, <3>2 DEF WriteRevoke, TablesKept
    <3> QED BY <3>1, <3>2
  <2>3. Answers("ok") \/ Answers("failed")
    BY <1>10 DEF WriteRevoke
  <2> QED BY <1>1, <1>2, <2>1, <2>2, <2>3, RequestAnswered
<1>11. CASE WriteUnlink(p)
  <2>1. op.kind = "unlink" /\ members' = members
    BY <1>11 DEF WriteUnlink
  <2>2. TablesKept
    BY <1>1, <1>8, <1>11, <2>1 DEF WriteUnlink, TablesKept, LinkRows
  <2>3. Answers("ok") \/ Answers("failed")
    BY <1>11 DEF WriteUnlink
  <2> QED BY <1>1, <1>2, <2>1, <2>2, <2>3, RequestAnswered
<1>12. CASE WriteLink(p)
  <2>1. op.kind \in {"link", "bulk"} /\ members' = members
    BY <1>12 DEF WriteLink
  <2>2. TablesKept /\ links'[p] # "none"
    BY <1>1, <1>8, <1>12, <2>1 DEF WriteLink, TablesKept, LinkRows
  <2>3. PICK made \in SUBSET Projects : made = IF links[p] = "none" THEN op.made \cup {p} ELSE op.made
    BY <1>3
  <2>4. PICK stop \in BOOLEAN : stop <=> links[p] # "none" /\ (op.kind = "link" \/ dialect = "postgres")
    OBVIOUS
  <2>5. PICK pc \in {"done", "write"} : pc = IF stop \/ Len(op.todo) = 1 THEN "done" ELSE "write"
    OBVIOUS
  <2>6. PICK outcome \in {"failed", "ok", "none"} :
          outcome = IF stop THEN "failed" ELSE IF Len(op.todo) = 1 THEN "ok" ELSE "none"
    OBVIOUS
  <2>7. PICK todo \in Seq(Projects) : todo = Tail(op.todo)
    BY <1>5
  <2>8. PICK a \in Requested : a = [op EXCEPT !.made = made]
    BY <1>2 DEF Requested
  <2>9. PICK b \in Requested : b = [a EXCEPT !.todo = todo]
    BY DEF Requested
  <2>10. PICK c \in Requested : c = [b EXCEPT !.pc = pc]
    BY DEF Requested
  <2>11. PICK o \in Requested : o = [c EXCEPT !.outcome = outcome]
    BY DEF Requested
  <2>12. SeenBy([op EXCEPT !.made = made, !.todo = Tail(@), !.pc = pc, !.outcome = outcome])
    <3>1. IF links[p] = "none" THEN made = op.made \cup {p} ELSE made = op.made
      BY <2>3
    <3>2. SeenBy([op EXCEPT !.made = IF links[p] = "none" THEN op.made \cup {p} ELSE op.made,
                            !.todo = Tail(@),
                            !.pc = IF (links[p] # "none" /\ (op.kind = "link" \/ dialect = "postgres"))
                                      \/ Len(op.todo) = 1 THEN "done" ELSE "write",
                            !.outcome = IF links[p] # "none" /\ (op.kind = "link" \/ dialect = "postgres")
                                        THEN "failed"
                                        ELSE IF Len(op.todo) = 1 THEN "ok" ELSE "none"])
      BY <1>12 DEF WriteLink
    <3>3. /\ pc = IF (links[p] # "none" /\ (op.kind = "link" \/ dialect = "postgres"))
                     \/ Len(op.todo) = 1 THEN "done" ELSE "write"
          /\ outcome = IF links[p] # "none" /\ (op.kind = "link" \/ dialect = "postgres") THEN "failed"
                       ELSE IF Len(op.todo) = 1 THEN "ok" ELSE "none"
      BY <2>4, <2>5, <2>6
    <3> QED BY <2>3, <3>2, <3>3
  <2>13. SeenBy(o)
    <3>1. o = [op EXCEPT !.made = made, !.todo = Tail(@), !.pc = pc, !.outcome = outcome]
      BY <1>2, <2>7, <2>8, <2>9, <2>10, <2>11 DEF Requested
    <3> QED BY <2>12, <3>1
  <2>14. /\ o.pc = pc /\ o.kind = op.kind /\ o.caller = op.caller /\ o.role = op.role
         /\ o.list = op.list /\ o.target = op.target /\ o.mine = op.mine /\ o.todo = todo
         /\ o.unique = op.unique /\ o.ids = op.ids /\ o.made = made /\ o.outcome = outcome
         /\ o.member = op.member /\ o.existed = op.existed /\ o.linked = op.linked
    BY <1>2, <2>8, <2>9, <2>10, <2>11 DEF Requested
  <2>15. /\ outcome = "none" \/ pc = "done"
         /\ pc = "write" => Len(op.todo) # 1
         /\ outcome = "ok" => Len(op.todo) = 1
    BY <2>5, <2>6
  <2>16. Len(op.todo) = 1 => ToSet(todo) = {}
    <3>1. todo = <<>> <=> Len(todo) = 0
      BY EmptySeq
    <3>2. Len(todo) = Len(op.todo) - 1
      BY <1>5, <2>7
    <3>3. Len(op.todo) = 1 => todo = <<>>
      BY <3>1, <3>2
    <3> QED BY <3>3, NoneListed
  <2>17. Shaped(o)
    BY <1>1, <1>2, <1>5, <2>1, <2>7, <2>14, <2>15 DEF Shaped
  <2>18. Saw(op', o)
    BY <2>13, SeenIt
  <2>19. ToSet(op.todo) \subseteq op.member \cap op.existed
    BY <1>1, <1>2, <2>1 DEF Entitled
  <2>20. Entitled(o)
    BY <1>2, <1>5, <2>3, <2>5, <2>7, <2>14, <2>19 DEF Entitled
  <2>21. Entitled(op)'
    BY <2>18, <2>20, EntitledOn
  <2>22. ASSUME NEW q \in ToSet(op.list) PROVE q \in ToSet(todo) \/ links'[q] # "none"
    <3>1. q \in Projects
      BY <1>3, <2>22, ElementOfSeq, LenProperties DEF ToSet
    <3>2. q \in ToSet(op.todo) \/ links[q] # "none"
      BY <1>1, <1>2, <2>1 DEF LinksKept
    <3> QED BY <1>5, <2>2, <2>7, <3>1, <3>2 DEF TablesKept
  <2>23. LinksKept(op)'
    <3>1. op'.list = op.list /\ op'.todo = todo /\ op'.outcome = outcome /\ op'.kind = op.kind
          /\ op'.role = op.role
      BY <2>14, <2>18 DEF Saw
    <3> QED BY <1>2, <2>1, <2>15, <2>16, <2>22, <3>1 DEF LinksKept
  <2> QED BY <2>2, <2>13, <2>17, <2>21, <2>23, AccessStep
<1> QED BY <1>4, <1>9, <1>10, <1>11, <1>12 DEF WriteProject

LEMMA WriteStopsInv == ASSUME AccessInv, WriteStops PROVE AccessInv'
<1>1. op.pc = "write" /\ UNCHANGED <<dialect, getter, members, links, there>>
  BY DEF WriteStops
<1>2. op \in Requested /\ Shaped(op) /\ LinksKept(op) /\ TablesKept
  BY <1>1, OfOp, SameTables
<1>3. CASE Answers("failed")
  BY <1>1, <1>2, <1>3, RequestAnswered
<1>4. CASE op.todo = <<>> /\ Answers("ok")
  <2>1. op.kind \in {"link", "bulk"} /\ op.role # "Developer" /\ ToSet(op.todo) = {}
    BY <1>1, <1>2, <1>4, NoneListed DEF Shaped
  <2>2. \A p \in ToSet(op.list) : links'[p] # "none"
    BY <1>1, <1>2, <2>1 DEF LinksKept
  <2> QED BY <1>1, <1>2, <1>4, <2>1, <2>2, RequestAnswered
<1> QED BY <1>3, <1>4 DEF WriteStops

\* What other requests write leaves the followed one where it is.
LEMMA OthersInv == ASSUME AccessInv, TablesKept, SeenBy(op) PROVE AccessInv'
<1>1. CASE op = NoOp
  BY <1>1 DEF SeenBy, AccessInv, AccessTypes, TablesKept
<1>2. CASE op # NoOp
  <2>1. op \in Requested /\ Shaped(op) /\ Entitled(op) /\ LinksKept(op)
    BY <1>2 DEF AccessInv, AccessTypes
  <2>2. PICK o \in Requested : o = op
    BY <2>1
  <2>3. Shaped(o) /\ Entitled(o) /\ LinksKept(o)
    BY <2>1, <2>2 DEF Shaped, Entitled, LinksKept
  <2>4. SeenBy(o)
    BY <2>2
  <2>5. Saw(op', o)
    BY <2>4, SeenIt
  <2>6. Entitled(op)' /\ LinksKept(op)'
    BY <2>3, <2>5, EntitledOn, KeptOn
  <2> QED BY <2>3, <2>4, <2>6, AccessStep
<1> QED BY <1>1, <1>2

LEMMA OtherSteps ==
  /\ \A p \in Projects, u \in Users : AccessInv /\ OtherMember(p, u) => TablesKept /\ SeenBy(op)
  /\ \A p \in Projects : AccessInv /\ OtherLink(p) => TablesKept /\ SeenBy(op)
  /\ \A x \in Projects \cup {Device} : AccessInv /\ Vanish(x) => TablesKept /\ SeenBy(op)
<1>1. ASSUME NEW p \in Projects, NEW u \in Users, AccessInv, OtherMember(p, u) PROVE TablesKept /\ SeenBy(op)
  <2>1. PICK x \in {"live", "deleted"} : x = Later(members[p][u])
    BY DEF Later
  <2>2. PICK row \in [Users -> LinkRows] : row = [members[p] EXCEPT ![u] = x]
    BY <1>1 DEF AccessInv, AccessTypes, LinkRows
  <2>3. members' = [members EXCEPT ![p] = row]
    BY <1>1, <2>1, <2>2 DEF OtherMember, AccessInv, AccessTypes
  <2> QED BY <1>1, <2>2, <2>3 DEF OtherMember, AccessInv, AccessTypes, TablesKept
<1>2. ASSUME NEW p \in Projects, AccessInv, OtherLink(p) PROVE TablesKept /\ SeenBy(op)
  BY <1>2 DEF OtherLink, Later, AccessInv, AccessTypes, TablesKept, LinkRows
<1>3. ASSUME NEW x \in Projects \cup {Device}, AccessInv, Vanish(x) PROVE TablesKept /\ SeenBy(op)
  BY <1>3 DEF Vanish, AccessInv, AccessTypes, TablesKept
<1> QED BY <1>1, <1>2, <1>3

LEMMA AccessInvNext == AccessInv /\ [AccessNext]_accessVars => AccessInv'
<1> SUFFICES ASSUME AccessInv, [AccessNext]_accessVars PROVE AccessInv'
  OBVIOUS
<1>1. ASSUME NEW u \in Users \cup {Admin}, NEW k \in Kinds, NEW l \in SeqOf(Projects, MaxList),
             NEW t \in Users, NEW r \in RolesOf(u), Begin(u, r, k, l, t)
      PROVE  AccessInv'
  <2>1. PICK m \in 0..MaxList : l \in [1..m -> Projects]
    BY DEF SeqOf
  <2>2. m \in Nat
    BY AccessAssumption
  <2>3. l \in Seq(Projects)
    BY <2>1, <2>2, IsASeq
  <2> QED BY <1>1, <2>3, BeginInv
<1>2. CASE Checks
  BY <1>2, GateInv, GateLinksInv, GateAnyInv, CheckDeviceInv, CheckProjectInv DEF Checks
<1>3. CASE WriteProject \/ WriteStops
  BY <1>3, LinkWriteInv, WriteStopsInv
<1>4. CASE ReturnOp
  BY <1>4 DEF ReturnOp, SeenBy, AccessInv, AccessTypes
<1>5. CASE \E p \in Projects, u \in Users : OtherMember(p, u)
  BY <1>5, OtherSteps, OthersInv
<1>6. CASE \E p \in Projects : OtherLink(p)
  BY <1>6, OtherSteps, OthersInv
<1>7. CASE \E x \in Projects \cup {Device} : Vanish(x)
  BY <1>7, OtherSteps, OthersInv
<1>8. CASE UNCHANGED accessVars
  BY <1>8 DEF accessVars, AccessInv, AccessTypes, Shaped, Entitled, LinksKept
<1> QED BY <1>1, <1>2, <1>3, <1>4, <1>5, <1>6, <1>7, <1>8 DEF AccessNext

LEMMA AccessInvEnough == AccessInv => AccessTypeOK /\ MembershipTold
<1> SUFFICES ASSUME AccessInv PROVE AccessTypeOK /\ MembershipTold
  OBVIOUS
<1>1. AccessTypeOK
  BY DEF AccessInv, AccessTypes, AccessTypeOK, Requested, LinkRows
<1>2. MembershipTold
  <2> SUFFICES ASSUME op # NoOp
               PROVE  /\ op.made \subseteq op.member \cap op.existed
                      /\ op.role = "Developer" /\ op.outcome = "ok" => op.kind = "host" /\ op.made = {}
                      /\ op.outcome = "ok" =>
                           /\ op.kind \in {"link", "bulk"} => \A p \in ToSet(op.list) : links[p] # "none"
                           /\ op.kind = "assign" => members[op.list[1]][op.target] # "none"
                           /\ op.kind = "host" /\ op.caller # Admin => op.member \cap op.linked # {}
    BY DEF MembershipTold
  <2>1. Shaped(op) /\ Entitled(op) /\ LinksKept(op)
    BY DEF AccessInv
  <2> QED BY <2>1 DEF Shaped, Entitled, LinksKept
<1> QED BY <1>1, <1>2

(***************************************************************************)
(* Only a member links hosts to a project, and sees those it links; a      *)
(* success is true of the tables (caller's gates, hostproject's BulkLink). *)
(***************************************************************************)
THEOREM OnlyMembersLink == AccessSpec => [](AccessTypeOK /\ MembershipTold)
BY AccessInvInit, AccessInvNext, AccessInvEnough, PTL DEF AccessSpec

-----------------------------------------------------------------------------
(* Pages.  A row that comes in pushes others back, never forward: a row    *)
(* that was there at the start is seen already or lies behind the offset;  *)
(* and while nothing came in, what was seen lies before it.                *)
Walks ==
  [pc : {"page", "members", "count", "find", "last"}, limit : {0, PageSize}, from : {0} \cup Instants,
   to : {0} \cup Instants, scope : {"all", "mine"}, projects : SUBSET Tenants, offset : Nat,
   total : Nat, seen : SUBSET ListedRows, again : BOOLEAN, late : BOOLEAN, moved : BOOLEAN,
   narrowed : BOOLEAN, began : SUBSET ListedRows]

ListingTypes ==
  /\ listing \in {"metrics", "audit"} /\ stored \subseteq ListedRows /\ joined \subseteq Tenants
  /\ IsFiniteSet(stored)
  /\ walk = Outside \/ walk \in Walks

\* The first rank the walk has not asked for yet.
Reached(w) == IF w.pc = "page" THEN w.offset + w.limit ELSE w.offset

WalkTold(w) ==
  /\ w.pc = "page" => w.limit > 0
  /\ w.pc # "last" /\ w.limit = 0 => w.offset = 0
  /\ w.pc \in {"members", "count", "find"} /\ w.offset = 0 => w.seen = {} /\ ~w.again
  /\ w.pc = "members" /\ w.offset = 0 => w.began = {}
  /\ w.pc = "find" /\ ~w.late => w.total = Cardinality(Matching(w))
  /\ w.pc # "last" /\ ~w.narrowed =>
       \A r \in w.began : r \in Matching(w) /\ (r \in w.seen \/ Rank(r, Matching(w)) >= Reached(w))
  /\ w.pc = "last" /\ ~w.late /\ ~w.narrowed => w.began \subseteq w.seen
  /\ ~w.moved => ~w.again
  /\ w.pc # "last" /\ ~w.moved => \A r \in w.seen : Rank(r, Matching(w)) < Reached(w)

PagesInv == ListingTypes /\ (walk # Outside => WalkTold(walk))

LEMMA WalkKinds ==
  /\ Outside \notin Walks /\ Outside.pc = "outside"
  /\ \A w \in Walks :
       /\ w.pc \in {"page", "members", "count", "find", "last"} /\ w.limit \in {0, PageSize}
       /\ w.limit \in Nat /\ w.offset \in Nat /\ w.total \in Nat
       /\ w.from \in {0} \cup Instants /\ w.to \in {0} \cup Instants
       /\ w.scope \in {"all", "mine"} /\ w.projects \subseteq Tenants
       /\ w.seen \subseteq ListedRows /\ w.began \subseteq ListedRows
       /\ w.again \in BOOLEAN /\ w.late \in BOOLEAN /\ w.moved \in BOOLEAN /\ w.narrowed \in BOOLEAN
<1>1. \A w \in Walks : w.pc \in {"page", "members", "count", "find", "last"}
  BY DEF Walks
<1>2. Outside.pc = "outside"
  BY DEF Outside
<1> QED BY <1>1, <1>2, ListingsAssumption DEF Walks

LEMMA RanksGrow ==
  ASSUME NEW T, IsFiniteSet(T), NEW S \in SUBSET T, NEW r
  PROVE  Rank(r, S) <= Rank(r, T) /\ Rank(r, S) \in Nat /\ Rank(r, T) \in Nat
<1>1. {s \in T : Before(s, r)} \in SUBSET T /\ {s \in S : Before(s, r)} \in SUBSET {s \in T : Before(s, r)}
  OBVIOUS
<1>2. IsFiniteSet({s \in T : Before(s, r)})
  BY <1>1, FS_Subset
<1>3. /\ IsFiniteSet({s \in S : Before(s, r)})
      /\ Cardinality({s \in S : Before(s, r)}) <= Cardinality({s \in T : Before(s, r)})
  BY <1>1, <1>2, FS_Subset
<1> QED BY <1>2, <1>3, FS_CardinalityType DEF Rank

LEMMA RankBelow ==
  ASSUME NEW S \in SUBSET ListedRows, IsFiniteSet(S), NEW r \in S
  PROVE  Rank(r, S) < Cardinality(S) /\ Cardinality(S) \in Nat
<1>1. ~Before(r, r)
  <2>1. r.at \in Nat /\ r.id \in Nat
    BY ListingsAssumption DEF ListedRows
  <2> QED BY <2>1 DEF Before
<1>2. {s \in S : Before(s, r)} \in SUBSET S /\ {s \in S : Before(s, r)} # S
  BY <1>1
<1>3. /\ Cardinality({s \in S : Before(s, r)}) <= Cardinality(S)
      /\ Cardinality(S) = Cardinality({s \in S : Before(s, r)}) => S = {s \in S : Before(s, r)}
      /\ IsFiniteSet({s \in S : Before(s, r)})
  BY <1>2, FS_Subset
<1>4. Cardinality({s \in S : Before(s, r)}) \in Nat /\ Cardinality(S) \in Nat
  BY <1>3, FS_CardinalityType
<1> QED BY <1>2, <1>3, <1>4 DEF Rank

\* The filter, and nothing else of a walk, decides which rows match.
LEMMA SameFilter ==
  ASSUME NEW v, NEW w, v.from = w.from, v.to = w.to, v.scope = w.scope, v.projects = w.projects
  PROVE  Matching(v) = Matching(w)
BY DEF Matching, Matches

LEMMA MatchingFinite ==
  ASSUME ListingTypes, NEW w
  PROVE  /\ Matching(w) \in SUBSET ListedRows /\ IsFiniteSet(Matching(w))
         /\ Cardinality(Matching(w)) \in Nat
<1>1. Matching(w) \in SUBSET stored
  BY DEF Matching
<1>2. IsFiniteSet(Matching(w))
  BY <1>1, FS_Subset DEF ListingTypes
<1> QED BY <1>1, <1>2, FS_CardinalityType DEF ListingTypes

LEMMA PagesInvInit == ListingsInit => PagesInv
BY FS_EmptySet DEF ListingsInit, PagesInv, ListingTypes

LEMMA OfWalk ==
  ASSUME PagesInv, walk.pc # "outside"
  PROVE  walk # Outside /\ walk \in Walks /\ WalkTold(walk)
BY WalkKinds DEF PagesInv, ListingTypes

-----------------------------------------------------------------------------
LEMMA IngestInv == ASSUME PagesInv, NEW r \in ListedRows, Ingest(r) PROVE PagesInv'
<1>1. stored' = stored \cup {r} /\ UNCHANGED <<listing, joined>>
  BY DEF Ingest
<1>2. IsFiniteSet(stored')
  BY <1>1, FS_AddElement DEF PagesInv, ListingTypes
<1>3. CASE walk = Outside
  <2>1. walk' = Outside
    BY <1>3 DEF Ingest
  <2> QED BY <1>1, <1>2, <2>1 DEF PagesInv, ListingTypes
<1>4. CASE walk # Outside
  <2>1. PICK w \in Walks : w = walk
    BY <1>4 DEF PagesInv, ListingTypes
  <2>2. PICK late \in BOOLEAN : late <=> w.late \/ w.pc = "find"
    OBVIOUS
  <2>3. PICK a \in Walks : a = [w EXCEPT !.moved = TRUE]
    BY DEF Walks
  <2>4. PICK v \in Walks : v = [a EXCEPT !.late = late]
    BY DEF Walks
  <2>5. walk' = v
    <3>1. walk' = [w EXCEPT !.moved = TRUE, !.late = w.late \/ w.pc = "find"]
      BY <1>4, <2>1 DEF Ingest, Walks
    <3>2. late = (w.late \/ w.pc = "find")
      BY <2>2, WalkKinds
    <3> QED BY <2>3, <2>4, <3>1, <3>2
  <2>6. /\ v.pc = w.pc /\ v.limit = w.limit /\ v.from = w.from /\ v.to = w.to /\ v.scope = w.scope
        /\ v.projects = w.projects /\ v.offset = w.offset /\ v.total = w.total /\ v.seen = w.seen
        /\ v.again = w.again /\ v.late = late /\ v.moved = TRUE /\ v.narrowed = w.narrowed
        /\ v.began = w.began
    BY <2>3, <2>4 DEF Walks
  <2>7. ListingTypes'
    BY <1>1, <1>2, <2>5 DEF PagesInv, ListingTypes
  <2>8. PICK m \in SUBSET stored' : m = Matching(v)'
    BY DEF Matching
  <2>9. Matching(w) \in SUBSET m
    BY <1>1, <2>6, <2>8 DEF Matching, Matches
  <2>10. IsFiniteSet(m)
    BY <1>2, <2>8, FS_Subset
  <2>11. WalkTold(w)
    BY <1>4, <2>1 DEF PagesInv
  <2>12. ASSUME v.pc # "last", ~v.narrowed, NEW s \in v.began
         PROVE  s \in m /\ (s \in v.seen \/ Rank(s, m) >= Reached(v))
    <3>1. s \in Matching(w) /\ (s \in w.seen \/ Rank(s, Matching(w)) >= Reached(w))
      BY <2>6, <2>11, <2>12 DEF WalkTold
    <3>2. Reached(v) = Reached(w) /\ Reached(w) \in Nat
      BY <2>6, WalkKinds DEF Reached
    <3>3. Rank(s, Matching(w)) <= Rank(s, m) /\ Rank(s, Matching(w)) \in Nat /\ Rank(s, m) \in Nat
      BY <2>9, <2>10, RanksGrow
    <3> QED BY <2>6, <2>9, <3>1, <3>2, <3>3
  <2>13. WalkTold(v)'
    BY <2>2, <2>6, <2>8, <2>11, <2>12 DEF WalkTold
  <2> QED BY <2>5, <2>7, <2>13 DEF PagesInv
<1> QED BY <1>3, <1>4

\* The walk alone moves on.
LEMMA WalkMoves ==
  ASSUME PagesInv, UNCHANGED <<listing, stored, joined>>, NEW v \in Walks, walk' = v, WalkTold(v)
  PROVE  PagesInv'
<1>1. WalkTold(v)'
  BY DEF WalkTold, Matching, Matches
<1> QED BY <1>1 DEF PagesInv, ListingTypes

LEMMA AskFirstInv ==
  ASSUME PagesInv, NEW limit \in {0, PageSize}, NEW from \in {0} \cup Instants,
         NEW to \in {0} \cup Instants, NEW scope \in {"all", "mine"}, AskFirst(limit, from, to, scope)
  PROVE  PagesInv'
<1>1. PICK f : f = [from |-> from, to |-> to, scope |-> scope, projects |-> {}]
  OBVIOUS
<1>2. PICK pc \in {"count", "members"} : pc = IF scope = "all" THEN "count" ELSE "members"
  OBVIOUS
<1>3. PICK began \in SUBSET ListedRows : began = Matching(f)
  BY MatchingFinite DEF PagesInv
<1>4. PICK v \in Walks :
        v = [pc |-> pc, limit |-> limit, from |-> from, to |-> to, scope |-> scope,
             projects |-> {}, offset |-> 0, total |-> 0, seen |-> {}, again |-> FALSE,
             late |-> FALSE, moved |-> FALSE, narrowed |-> FALSE, began |-> began]
  BY DEF Walks
<1>5. walk' = v /\ UNCHANGED <<listing, stored, joined>>
  BY <1>1, <1>2, <1>3, <1>4 DEF AskFirst
<1>6. /\ v.pc = pc /\ v.limit = limit /\ v.from = from /\ v.to = to /\ v.scope = scope
      /\ v.projects = {} /\ v.offset = 0 /\ v.seen = {} /\ v.again = FALSE /\ v.moved = FALSE
      /\ v.narrowed = FALSE /\ v.began = began
  BY <1>4
<1>7. Matching(v) = began
  <2>1. f.from = v.from /\ f.to = v.to /\ f.scope = v.scope /\ f.projects = v.projects
    BY <1>1, <1>6
  <2> QED BY <1>3, <2>1, SameFilter
<1>8. \A r : Rank(r, began) >= Reached(v)
  <2> SUFFICES ASSUME NEW r PROVE Rank(r, began) >= Reached(v)
    OBVIOUS
  <2>1. Rank(r, began) \in Nat
    BY <1>3, MatchingFinite, RanksGrow DEF PagesInv
  <2> QED BY <1>2, <1>6, <2>1 DEF Reached
<1>9. pc = "members" => began = {}
  <2>1. pc = "members" => f.scope = "mine" /\ f.projects = {}
    BY <1>1, <1>2
  <2> QED BY <1>3, <2>1 DEF Matching, Matches
<1>10. WalkTold(v)
  BY <1>2, <1>6, <1>7, <1>8, <1>9 DEF WalkTold
<1> QED BY <1>5, <1>10, WalkMoves

LEMMA AskNextInv == ASSUME PagesInv, AskNext PROVE PagesInv'
<1>1. walk.pc = "page" /\ UNCHANGED <<listing, stored, joined>>
  BY DEF AskNext
<1>2. PICK w \in Walks : w = walk /\ WalkTold(w) /\ w.pc = "page"
  BY <1>1, OfWalk
<1>3. PICK pc \in {"count", "members"} : pc = IF w.scope = "all" THEN "count" ELSE "members"
  OBVIOUS
<1>4. PICK offset \in Nat : offset = w.offset + w.limit
  BY WalkKinds
<1>5. PICK a \in Walks : a = [w EXCEPT !.pc = pc]
  BY DEF Walks
<1>6. PICK b \in Walks : b = [a EXCEPT !.offset = offset]
  BY DEF Walks
<1>7. PICK v \in Walks : v = [b EXCEPT !.late = FALSE]
  BY DEF Walks
<1>8. walk' = v
  <2>1. walk' = [w EXCEPT !.pc = pc, !.offset = offset, !.late = FALSE]
    BY <1>2, <1>3, <1>4 DEF AskNext, Walks
  <2> QED BY <1>5, <1>6, <1>7, <2>1
<1>9. /\ v.pc = pc /\ v.limit = w.limit /\ v.from = w.from /\ v.to = w.to /\ v.scope = w.scope
      /\ v.projects = w.projects /\ v.offset = offset /\ v.total = w.total /\ v.seen = w.seen
      /\ v.again = w.again /\ v.late = FALSE /\ v.moved = w.moved /\ v.narrowed = w.narrowed
      /\ v.began = w.began
  BY <1>5, <1>6, <1>7 DEF Walks
<1>10. Matching(v) = Matching(w)
  BY <1>9, SameFilter
<1>11. Reached(v) = Reached(w) /\ offset > 0
  BY <1>2, <1>3, <1>4, <1>9, WalkKinds DEF Reached, WalkTold
<1>12. WalkTold(v)
  BY <1>2, <1>3, <1>9, <1>10, <1>11 DEF WalkTold
<1> QED BY <1>1, <1>8, <1>12, WalkMoves

LEMMA LoadMembersInv == ASSUME PagesInv, LoadMembers PROVE PagesInv'
<1>1. walk.pc = "members" /\ UNCHANGED <<listing, stored, joined>>
  BY DEF LoadMembers
<1>2. PICK w \in Walks : w = walk /\ WalkTold(w) /\ w.pc = "members"
  BY <1>1, OfWalk
<1>3. PICK a \in Walks : a = [w EXCEPT !.pc = "count"]
  BY DEF Walks
<1>4. PICK f \in Walks : f = [a EXCEPT !.projects = joined]
  BY DEF Walks, PagesInv, ListingTypes
<1>5. /\ f.pc = "count" /\ f.limit = w.limit /\ f.from = w.from /\ f.to = w.to /\ f.scope = w.scope
      /\ f.projects = joined /\ f.offset = w.offset /\ f.total = w.total /\ f.seen = w.seen
      /\ f.again = w.again /\ f.late = w.late /\ f.moved = w.moved /\ f.narrowed = w.narrowed
      /\ f.began = w.began
  BY <1>3, <1>4 DEF Walks
<1>6. PICK began \in SUBSET ListedRows : began = IF w.offset = 0 THEN Matching(f) ELSE w.began
  BY MatchingFinite, WalkKinds DEF PagesInv
<1>7. PICK moved \in BOOLEAN : moved <=> w.offset # 0 /\ (w.moved \/ joined # w.projects)
  OBVIOUS
<1>8. PICK narrowed \in BOOLEAN : narrowed <=> w.offset # 0 /\ (w.narrowed \/ ~(w.projects \subseteq joined))
  OBVIOUS
<1>9. PICK b \in Walks : b = [f EXCEPT !.began = began]
  BY DEF Walks
<1>10. PICK c \in Walks : c = [b EXCEPT !.moved = moved]
  BY DEF Walks
<1>11. PICK v \in Walks : v = [c EXCEPT !.narrowed = narrowed]
  BY DEF Walks
<1>12. walk' = v
  <2>1. f = [walk EXCEPT !.pc = "count", !.projects = joined]
    BY <1>2, <1>3, <1>4
  <2>2. walk' = [f EXCEPT !.began = IF w.offset = 0 THEN Matching(f) ELSE f.began,
                          !.moved = w.offset # 0 /\ (f.moved \/ joined # w.projects),
                          !.narrowed = w.offset # 0 /\ (f.narrowed \/ ~(w.projects \subseteq joined))]
    BY <1>2, <2>1 DEF LoadMembers, Walks
  <2>3. moved = (w.offset # 0 /\ (f.moved \/ joined # w.projects))
    BY <1>5, <1>7, WalkKinds
  <2>4. narrowed = (w.offset # 0 /\ (f.narrowed \/ ~(w.projects \subseteq joined)))
    BY <1>5, <1>8, WalkKinds
  <2>5. began = IF w.offset = 0 THEN Matching(f) ELSE f.began
    BY <1>5, <1>6
  <2>6. walk' = [f EXCEPT !.began = began, !.moved = moved, !.narrowed = narrowed]
    BY <2>2, <2>3, <2>4, <2>5
  <2> QED BY <1>9, <1>10, <1>11, <2>6
<1>13. /\ v.pc = "count" /\ v.limit = w.limit /\ v.from = w.from /\ v.to = w.to /\ v.scope = w.scope
       /\ v.projects = joined /\ v.offset = w.offset /\ v.seen = w.seen
       /\ v.again = w.again /\ v.late = w.late /\ v.moved = moved /\ v.narrowed = narrowed
       /\ v.began = began
  BY <1>5, <1>9, <1>10, <1>11 DEF Walks
<1>14. Matching(v) = Matching(f)
  BY <1>5, <1>13, SameFilter
<1>15. PICK m \in SUBSET ListedRows : m = Matching(v) /\ IsFiniteSet(m)
  BY MatchingFinite DEF PagesInv
<1>16. Reached(v) = w.offset /\ Reached(w) = w.offset /\ w.offset \in Nat
  BY <1>2, <1>13, WalkKinds DEF Reached
<1>17. CASE w.offset = 0
  <2>1. began = m /\ ~moved /\ ~narrowed /\ w.seen = {} /\ ~w.again
    BY <1>2, <1>6, <1>7, <1>8, <1>14, <1>15, <1>17 DEF WalkTold
  <2>2. \A r : Rank(r, m) >= 0
    <3> SUFFICES ASSUME NEW r PROVE Rank(r, m) >= 0
      OBVIOUS
    <3>1. Rank(r, m) \in Nat
      BY <1>15, RanksGrow
    <3> QED BY <3>1
  <2>3. WalkTold(v)
    BY <1>13, <1>15, <1>16, <1>17, <2>1, <2>2 DEF WalkTold
  <2> QED BY <1>1, <1>12, <2>3, WalkMoves
<1>18. CASE w.offset # 0
  <2>1. ~narrowed => Matching(w) \in SUBSET m
    BY <1>8, <1>13, <1>15, <1>18 DEF Matching, Matches
  <2>2. ~moved => Matching(w) = m
    <3>1. ~moved => v.from = w.from /\ v.to = w.to /\ v.scope = w.scope /\ v.projects = w.projects
      BY <1>7, <1>13, <1>18
    <3> QED BY <1>15, <3>1, SameFilter
  <2>3. ASSUME ~narrowed, NEW s \in v.began
        PROVE  s \in m /\ (s \in v.seen \/ Rank(s, m) >= Reached(v))
    <3>1. s \in Matching(w) /\ (s \in w.seen \/ Rank(s, Matching(w)) >= Reached(w))
      BY <1>2, <1>6, <1>8, <1>13, <1>18, <2>3 DEF WalkTold
    <3>2. Rank(s, Matching(w)) <= Rank(s, m) /\ Rank(s, Matching(w)) \in Nat /\ Rank(s, m) \in Nat
      BY <1>15, <2>1, <2>3, RanksGrow
    <3> QED BY <1>13, <1>16, <2>1, <2>3, <3>1, <3>2
  <2>4. ~moved => ~w.again /\ \A r \in v.seen : Rank(r, m) < Reached(v)
    BY <1>2, <1>7, <1>13, <1>16, <1>18, <2>2 DEF WalkTold
  <2>5. WalkTold(v)
    BY <1>13, <1>15, <1>18, <1>2, <2>3, <2>4 DEF WalkTold
  <2> QED BY <1>1, <1>12, <2>5, WalkMoves
<1> QED BY <1>17, <1>18

LEMMA CountRowsInv == ASSUME PagesInv, CountRows PROVE PagesInv'
<1>1. walk.pc = "count" /\ UNCHANGED <<listing, stored, joined>>
  BY DEF CountRows
<1>2. PICK w \in Walks : w = walk /\ WalkTold(w) /\ w.pc = "count"
  BY <1>1, OfWalk
<1>3. PICK n \in Nat : n = Cardinality(Matching(w))
  BY MatchingFinite DEF PagesInv
<1>4. PICK a \in Walks : a = [w EXCEPT !.pc = "find"]
  BY DEF Walks
<1>5. PICK v \in Walks : v = [a EXCEPT !.total = n]
  BY DEF Walks
<1>6. walk' = v
  BY <1>2, <1>3, <1>4, <1>5 DEF CountRows
<1>7. /\ v.pc = "find" /\ v.limit = w.limit /\ v.from = w.from /\ v.to = w.to /\ v.scope = w.scope
      /\ v.projects = w.projects /\ v.offset = w.offset /\ v.total = n /\ v.seen = w.seen
      /\ v.again = w.again /\ v.late = w.late /\ v.moved = w.moved /\ v.narrowed = w.narrowed
      /\ v.began = w.began
  BY <1>4, <1>5 DEF Walks
<1>8. Matching(v) = Matching(w) /\ Reached(v) = Reached(w)
  BY <1>2, <1>7, SameFilter DEF Reached
<1>9. WalkTold(v)
  BY <1>2, <1>3, <1>7, <1>8 DEF WalkTold
<1> QED BY <1>1, <1>6, <1>9, WalkMoves

LEMMA FindRowsInv == ASSUME PagesInv, FindRows PROVE PagesInv'
<1>1. walk.pc = "find" /\ UNCHANGED <<listing, stored, joined>>
  BY DEF FindRows
<1>2. PICK w \in Walks : w = walk /\ WalkTold(w) /\ w.pc = "find"
  BY <1>1, OfWalk
<1>3. /\ w.limit \in Nat /\ w.offset \in Nat /\ w.total \in Nat /\ w.seen \subseteq ListedRows
      /\ w.again \in BOOLEAN /\ w.moved \in BOOLEAN
  BY WalkKinds
<1>4. PICK m \in SUBSET ListedRows : m = Matching(w) /\ IsFiniteSet(m)
  BY MatchingFinite DEF PagesInv
<1>5. ASSUME NEW r \in m PROVE Rank(r, m) \in Nat /\ Rank(r, m) < Cardinality(m) /\ Cardinality(m) \in Nat
  BY <1>4, RankBelow, RanksGrow
<1>6. PICK page \in SUBSET m :
        page = {r \in m : Rank(r, m) >= w.offset /\ (w.limit = 0 \/ Rank(r, m) < w.offset + w.limit)}
  OBVIOUS
<1>7. Page(w) = page
  BY <1>4, <1>6 DEF Page
<1>8. PICK hasMore \in BOOLEAN : hasMore <=> w.limit > 0 /\ w.offset + w.limit < w.total
  OBVIOUS
<1>9. PICK pc \in {"page", "last"} : pc = IF hasMore THEN "page" ELSE "last"
  OBVIOUS
<1>10. PICK seen \in SUBSET ListedRows : seen = w.seen \cup page
  BY <1>3, <1>4, <1>6
<1>11. PICK again \in BOOLEAN : again <=> w.again \/ page \cap w.seen # {}
  OBVIOUS
<1>12. PICK a \in Walks : a = [w EXCEPT !.pc = pc]
  BY DEF Walks
<1>13. PICK b \in Walks : b = [a EXCEPT !.seen = seen]
  BY DEF Walks
<1>14. PICK v \in Walks : v = [b EXCEPT !.again = again]
  BY DEF Walks
<1>15. walk' = v
  <2>1. again = (w.again \/ page \cap w.seen # {})
    BY <1>3, <1>11
  <2>2. pc = IF w.limit > 0 /\ w.offset + w.limit < w.total THEN "page" ELSE "last"
    BY <1>8, <1>9
  <2>3. walk' = [w EXCEPT !.pc = pc, !.seen = w.seen \cup page, !.again = w.again \/ page \cap w.seen # {}]
    BY <1>2, <1>7, <2>2 DEF FindRows, Walks
  <2>4. walk' = [w EXCEPT !.pc = pc, !.seen = seen, !.again = again]
    BY <1>10, <2>1, <2>3
  <2> QED BY <1>12, <1>13, <1>14, <2>4
<1>16. /\ v.pc = pc /\ v.limit = w.limit /\ v.from = w.from /\ v.to = w.to /\ v.scope = w.scope
       /\ v.projects = w.projects /\ v.offset = w.offset /\ v.total = w.total /\ v.seen = seen
       /\ v.again = again /\ v.late = w.late /\ v.moved = w.moved /\ v.narrowed = w.narrowed
       /\ v.began = w.began
  BY <1>12, <1>13, <1>14 DEF Walks
<1>17. Matching(v) = m
  BY <1>4, <1>16, SameFilter
<1>18. Reached(w) = w.offset /\ (pc = "page" => Reached(v) = w.offset + w.limit /\ w.limit > 0)
  BY <1>2, <1>8, <1>9, <1>16 DEF Reached
<1>19. w.limit = 0 => w.offset = 0
  BY <1>2 DEF WalkTold
<1>20. ASSUME ~w.narrowed, NEW s \in w.began, s \notin seen
       PROVE  s \in m /\ w.limit > 0 /\ Rank(s, m) >= w.offset + w.limit
  <2>1. s \in m /\ Rank(s, m) >= w.offset
    BY <1>2, <1>4, <1>10, <1>18, <1>20 DEF WalkTold
  <2>2. s \notin page
    BY <1>10, <1>20
  <2>3. w.limit # 0 /\ ~(Rank(s, m) < w.offset + w.limit)
    BY <1>6, <2>1, <2>2
  <2> QED BY <1>3, <1>5, <2>1, <2>3
<1>21. ASSUME pc = "last", ~w.late, ~w.narrowed, NEW s \in w.began, s \notin seen PROVE FALSE
  <2>1. s \in m /\ w.limit > 0 /\ Rank(s, m) >= w.offset + w.limit
    BY <1>20, <1>21
  <2>2. w.total = Cardinality(m) /\ ~(w.offset + w.limit < w.total)
    BY <1>2, <1>4, <1>8, <1>9, <1>21, <2>1 DEF WalkTold
  <2> QED BY <1>3, <1>5, <2>1, <2>2
<1>22. ASSUME ~w.moved PROVE ~again
  <2>1. ~w.again /\ \A r \in w.seen : Rank(r, m) < w.offset
    BY <1>2, <1>4, <1>18, <1>22 DEF WalkTold
  <2>2. ASSUME NEW r \in page, r \in w.seen PROVE FALSE
    <3>1. Rank(r, m) >= w.offset /\ Rank(r, m) < w.offset /\ Rank(r, m) \in Nat
      BY <1>5, <1>6, <2>1, <2>2
    <3> QED BY <1>3, <3>1
  <2> QED BY <1>11, <2>1, <2>2
<1>23. ASSUME pc = "page", ~w.moved, NEW r \in seen PROVE Rank(r, m) < w.offset + w.limit
  <2>1. CASE r \in page
    BY <1>6, <1>18, <1>23, <2>1
  <2>2. CASE r \in w.seen
    <3>1. Rank(r, m) < w.offset
      BY <1>2, <1>4, <1>18, <1>23, <2>2 DEF WalkTold
    <3>2. Rank(r, m) \in Nat
      BY <1>4, RanksGrow
    <3> QED BY <1>3, <3>1, <3>2
  <2> QED BY <1>10, <1>23, <2>1, <2>2
<1>24. \A s \in w.began : ~w.narrowed => s \in m
  BY <1>2, <1>4 DEF WalkTold
<1>25. WalkTold(v)
  BY <1>9, <1>16, <1>17, <1>18, <1>20, <1>21, <1>22, <1>23, <1>24 DEF WalkTold
<1> QED BY <1>1, <1>15, <1>25, WalkMoves

LEMMA PagesInvNext == PagesInv /\ [ListingsNext]_listingVars => PagesInv'
<1> SUFFICES ASSUME PagesInv, [ListingsNext]_listingVars PROVE PagesInv'
  OBVIOUS
<1>1. ASSUME NEW p \in Tenants, JoinOrLeave(p) PROVE PagesInv'
  <2>1. joined' \subseteq Tenants /\ UNCHANGED <<listing, stored, walk>>
    BY <1>1 DEF JoinOrLeave, PagesInv, ListingTypes
  <2> QED BY <2>1 DEF PagesInv, ListingTypes, WalkTold, Matching, Matches
<1>2. CASE Leave
  BY <1>2 DEF Leave, PagesInv, ListingTypes
<1>3. CASE UNCHANGED listingVars
  BY <1>3 DEF listingVars, PagesInv, ListingTypes, WalkTold, Matching, Matches
<1> QED BY <1>1, <1>2, <1>3, IngestInv, AskFirstInv, AskNextInv, LoadMembersInv, CountRowsInv,
           FindRowsInv DEF ListingsNext

LEMMA PagesInvEnough == PagesInv => ListingsTypeOK /\ PagesTold
BY WalkKinds DEF PagesInv, ListingTypes, ListingsTypeOK, PagesTold, WalkTold

(***************************************************************************)
(* A client that follows has_more to its end has seen every row that was   *)
(* there for it at its start, but for the two exceptions, and none twice   *)
(* unless something came in (metrics' and audit's repositories).           *)
(***************************************************************************)
THEOREM PagesLeaveNothingOut == ListingsSpec => [](ListingsTypeOK /\ PagesTold)
BY PagesInvInit, PagesInvNext, PagesInvEnough, PTL DEF ListingsSpec
=============================================================================
