------------------------------ MODULE Clusters ------------------------------
(***************************************************************************)
(* The Kubernetes clusters: k8s/service.go and repository.go (the rows),   *)
(* registry.go (the clients, one cache for the API and one for the service *)
(* catalog), as k8s/handler.go and main.go's buildK8sSource drive them.    *)
(* Each database statement is a step of its own.  A kubeconfig stands for  *)
(* its text; "broken" is one no client can be built from.  Requests whose  *)
(* input does not validate change nothing and are left out, as are the     *)
(* reads; the audit record after a write is BoundedSink's.                 *)
(***************************************************************************)
EXTENDS Integers, Tables

CONSTANTS
  ClusterIds, ClusterNames,
  Kubeconfigs,   \* those a client can be built from
  Askers,        \* requests under way at once
  MaxAsked       \* bound: requests that may write, in a behaviour

ASSUME ClustersAssumption == MaxAsked \in Nat

VARIABLES
  clusters,      \* the rows, soft-deleted ones too
  kept,          \* what each registry keeps: a kubeconfig's client or an error
  walked,        \* the clusters the catalog listed when the process started
  asker,         \* each request
  asked,         \* requests begun, for MaxAsked
  held           \* ghost: what building a client has been able to give, since the
                 \* oldest answer about the cluster that is still kept was read

clusterVars == <<clusters, kept, walked, asker, asked, held>>

Registries == {"api", "catalog"}
Texts == Kubeconfigs \cup {"broken"}
Rows == [name : ClusterNames, config : Texts,
         status : {"unknown", "connected", "disconnected"}, gone : BOOLEAN]
Results == Kubeconfigs \cup {"error", "not found", "failed"}

Live == {c \in DOMAIN clusters : ~clusters[c].gone}
Idle == [pc |-> "idle"]
Goes(q, step) == asker' = [asker EXCEPT ![q] = step]
Ends(q) == Goes(q, Idle)

\* Decrypting and parsing what row c of rs holds; repo.Get hides deleted rows.
Build(rs, c) ==
  IF c \in DOMAIN rs /\ ~rs[c].gone
  THEN IF rs[c].config = "broken" THEN "error" ELSE rs[c].config
  ELSE "not found"

\* A registry answers, or will answer, from what it read of c earlier.
Cached(c) ==
  \/ \E g \in Registries : c \in DOMAIN kept[g]
  \/ \E q \in Askers : asker[q].pc = "keep" /\ asker[q].id = c

Write(rs) ==
  /\ clusters' = rs
  /\ held' = [c \in ClusterIds |->
                (IF Cached(c) THEN held[c] ELSE {}) \cup {Build(rs, c)}]

\* The unique index on the name holds deleted rows as well.
NameFree(c, name) == \A d \in DOMAIN clusters \ {c} : clusters[d].name # name
FoundByName(c, name) == \E d \in Live \ {c} : clusters[d].name = name

ClustersInit ==
  /\ clusters = <<>>
  /\ kept = [g \in Registries |-> <<>>]
  /\ walked = {}
  /\ asker = [q \in Askers |-> Idle] /\ asked = 0
  /\ held = [c \in ClusterIds |-> {"not found"}]

Begins(q) ==
  /\ asker[q] = Idle /\ asked < MaxAsked
  /\ asked' = asked + 1

-----------------------------------------------------------------------------
(* Create: look for the name, then insert.                                 *)

AskCreate(q, name, text) ==
  /\ Begins(q) /\ ~FoundByName("", name)
  /\ Goes(q, [pc |-> "insert",
              row |-> [name |-> name, config |-> text, status |-> "unknown", gone |-> FALSE]])
  /\ UNCHANGED <<clusters, kept, walked, held>>

Insert(q) ==
  /\ asker[q].pc = "insert" /\ Ends(q)
  /\ \/ \E c \in ClusterIds \ DOMAIN clusters :
          /\ NameFree(c, asker[q].row.name)
          /\ Write(Put(clusters, c, asker[q].row))
     \/ ~NameFree("", asker[q].row.name) /\ UNCHANGED <<clusters, held>>
  /\ UNCHANGED <<kept, walked, asked>>

-----------------------------------------------------------------------------
(* Update: load the row, change the copy, look for a new name, find the    *)
(* row again, then Save, which writes every column and inserts the row     *)
(* again when it has been deleted meanwhile.                               *)

AskUpdate(q, c, name, text) ==
  /\ Begins(q) /\ c \in Live
  /\ Goes(q, [pc |-> IF name = clusters[c].name THEN "find" ELSE "look", id |-> c,
              row |-> [clusters[c] EXCEPT !.name = name, !.config = text]])
  /\ UNCHANGED <<clusters, kept, walked, held>>

LookForName(q) ==
  /\ asker[q].pc = "look"
  /\ IF FoundByName(asker[q].id, asker[q].row.name)
     THEN Ends(q) ELSE Goes(q, [asker[q] EXCEPT !.pc = "find"])
  /\ UNCHANGED <<clusters, kept, walked, asked, held>>

FindAgain(q) ==
  /\ asker[q].pc = "find"
  /\ IF asker[q].id \in Live THEN Goes(q, [asker[q] EXCEPT !.pc = "save"]) ELSE Ends(q)
  /\ UNCHANGED <<clusters, kept, walked, asked, held>>

\* Mutant: the new client is put in the registry even when the row is refused.
SaveRefreshes(q) ==
  /\ asker[q].pc = "save" /\ Ends(q)
  /\ LET c == asker[q].id  row == asker[q].row IN
     /\ kept' = [kept EXCEPT !["api"] = Put(@, c, row.config)]
     /\ IF NameFree(c, row.name) THEN Write([clusters EXCEPT ![c] = row])
                                 ELSE UNCHANGED <<clusters, held>>
  /\ UNCHANGED <<walked, asked>>

Save(q) ==
  /\ asker[q].pc = "save" /\ Ends(q)
  /\ LET c == asker[q].id  row == asker[q].row IN
     IF NameFree(c, row.name) THEN Write([clusters EXCEPT ![c] = row])
                              ELSE UNCHANGED <<clusters, held>>
  /\ UNCHANGED <<kept, walked, asked>>

Delete(q, c) ==
  /\ Begins(q) /\ c \in Live
  /\ Write([clusters EXCEPT ![c].gone = TRUE])
  /\ UNCHANGED <<kept, walked, asker>>

-----------------------------------------------------------------------------
(* Probe: load the row, ping (the service's one shared client, not the     *)
(* cluster's own), then write the status column of a row still there.      *)

AskProbe(q, c, ping) ==
  /\ Begins(q) /\ c \in Live
  /\ Goes(q, [pc |-> "status", id |-> c, status |-> ping])
  /\ UNCHANGED <<clusters, kept, walked, held>>

UpdateStatus(q) ==
  /\ asker[q].pc = "status" /\ Ends(q)
  /\ IF asker[q].id \in Live
     THEN Write([clusters EXCEPT ![asker[q].id].status = asker[q].status])
     ELSE UNCHANGED <<clusters, held>>
  /\ UNCHANGED <<kept, walked, asked>>

-----------------------------------------------------------------------------
(* ClientFor, under Exec, GetLogs and the catalog's health: a hit answers; *)
(* on a miss the row is loaded without the lock, and the client, or the    *)
(* error, that of a read that failed too, is kept for good.                *)

AskClient(q, g, c) ==
  /\ asker[q] = Idle /\ c \in DOMAIN clusters \ DOMAIN kept[g]
  /\ g = "catalog" => c \in walked
  /\ Goes(q, [pc |-> "build", id |-> c, registry |-> g])
  /\ UNCHANGED <<clusters, kept, walked, asked, held>>

BuildClient(q) ==
  /\ asker[q].pc = "build"
  /\ \E r \in {Build(clusters, asker[q].id), "failed"} :
       Goes(q, [pc |-> "keep", id |-> asker[q].id, registry |-> asker[q].registry, result |-> r])
  /\ UNCHANGED <<clusters, kept, walked, asked, held>>

KeepClient(q) ==
  /\ asker[q].pc = "keep" /\ Ends(q)
  /\ kept' = [kept EXCEPT ![asker[q].registry] = Put(@, asker[q].id, asker[q].result)]
  /\ UNCHANGED <<clusters, walked, asked, held>>

\* The process ends and starts again: main.go lists the clusters once.
ClustersRestart ==
  /\ kept' = [g \in Registries |-> <<>>]
  /\ walked' = Live
  /\ asker' = [q \in Askers |-> Idle]
  /\ held' = [c \in ClusterIds |-> {Build(clusters, c)}]
  /\ UNCHANGED <<clusters, asked>>

ClustersNext ==
  \/ \E q \in Askers, n \in ClusterNames, t \in Texts : AskCreate(q, n, t)
  \/ \E q \in Askers, c \in ClusterIds, n \in ClusterNames, t \in Texts : AskUpdate(q, c, n, t)
  \/ \E q \in Askers, c \in ClusterIds : Delete(q, c)
  \/ \E q \in Askers, c \in ClusterIds, p \in {"connected", "disconnected"} : AskProbe(q, c, p)
  \/ \E q \in Askers, g \in Registries, c \in ClusterIds : AskClient(q, g, c)
  \/ \E q \in Askers : Insert(q) \/ LookForName(q) \/ FindAgain(q) \/ Save(q)
                       \/ UpdateStatus(q) \/ BuildClient(q) \/ KeepClient(q)
  \/ ClustersRestart

ClustersSpec == ClustersInit /\ [][ClustersNext]_clusterVars

-----------------------------------------------------------------------------
(* Every variable holds what the code can put in it.                       *)
ClustersTypeOK ==
  /\ DOMAIN clusters \subseteq ClusterIds /\ \A c \in DOMAIN clusters : clusters[c] \in Rows
  /\ \A g \in Registries : /\ DOMAIN kept[g] \subseteq ClusterIds
                           /\ \A c \in DOMAIN kept[g] : kept[g][c] \in Results
  /\ walked \subseteq ClusterIds /\ asked \in 0..MaxAsked
  /\ DOMAIN asker = Askers
  /\ held \in [ClusterIds -> SUBSET Results]

(***************************************************************************)
(* registry.go:108-145.  What a registry answers for a cluster is what its *)
(* row has said since the oldest answer kept about it was read, or the     *)
(* error of a read that failed.  So an answer is stale only if the row has *)
(* been written since, in this process, and never comes from a change that *)
(* was refused or from before a restart; a read that failed once is        *)
(* answered for good.  Names stay unique over all rows.                    *)
(***************************************************************************)
ClientsTold ==
  /\ \A g \in Registries : \A c \in DOMAIN kept[g] : kept[g][c] \in held[c] \cup {"failed"}
  /\ \A c, d \in DOMAIN clusters : c # d => clusters[c].name # clusters[d].name
=============================================================================
