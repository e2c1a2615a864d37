---------------------------- MODULE MetricsCache ----------------------------
(***************************************************************************)
(* A host's metrics: physicalhost/cache.go's MetricsCache in front of      *)
(* metrics.go's MetricsCollector, as the handler's Metrics calls it.  The  *)
(* collector answers with a snapshot even when every probe failed, so the  *)
(* cache's branches for a Collect that fails are never taken; Invalidate   *)
(* has no caller.  Viewers go through the steps at their own pace.         *)
(***************************************************************************)
EXTENDS Integers, FiniteSets, Functions, Tables

CONSTANTS
  CachedHosts,
  Viewers,     \* requests under way at once
  Life,        \* the cache's TTL (main.go: 30 s), in ticks
  MaxCached,   \* entries the cache holds (main.go: 1024)
  MaxTime      \* bound: ticks in a behaviour

ASSUME MetricsAssumption ==
  IsFiniteSet(CachedHosts) /\ Life \in Nat /\ MaxCached \in Nat /\ MaxTime \in Nat

VARIABLES
  rows,      \* the hosts that have a row
  cache,     \* the entries: when each was measured and when it expires
  viewer,    \* each request
  time

cacheVars == <<rows, cache, viewer, time>>

NoView == [pc |-> "idle"]
Views(v, step) == viewer' = [viewer EXCEPT ![v] = step]

MetricsInit == rows = CachedHosts /\ cache = <<>> /\ viewer = [v \in Viewers |-> NoView] /\ time = 0

-----------------------------------------------------------------------------
(* The handler finds the row; the clock is read before the cache.          *)
FindHost(v, h) ==
  /\ viewer[v] = NoView /\ h \in rows
  /\ Views(v, [pc |-> "look", host |-> h, began |-> time])
  /\ UNCHANGED <<rows, cache, time>>

\* From here on the request has a snapshot.
Holds(v, step, measured) ==
  Views(v, [pc |-> step, host |-> viewer[v].host, began |-> viewer[v].began, measured |-> measured])

Kept(h) == IF h \in DOMAIN cache THEN {cache[h]} ELSE {}

\* An entry that has not expired is the answer; else the host is asked.
Lookup(v) ==
  /\ viewer[v].pc = "look"
  /\ LET hits == {e \in Kept(viewer[v].host) : e.expires > viewer[v].began} IN
     \/ \E e \in hits : Holds(v, "hit", e.measured)
     \/ hits = {} /\ Views(v, [viewer[v] EXCEPT !.pc = "collect"])
  /\ UNCHANGED <<rows, cache, time>>

\* A snapshot is kept however many of the six commands failed, also when all did.
Collect(v) ==
  /\ viewer[v].pc = "collect"
  /\ Holds(v, "store", time)
  /\ UNCHANGED <<rows, cache, time>>

\* Mutant: an entry lives from when it is stored.
EntryFromNow(v) == [measured |-> viewer[v].measured, expires |-> time + Life]

\* An entry lives from when its request began, however long the hosts took.
Entry(v) == [measured |-> viewer[v].measured, expires |-> viewer[v].began + Life]

\* A full cache makes room by dropping any one of its entries.
Store(v) ==
  /\ viewer[v].pc = "store"
  /\ LET h == viewer[v].host IN
     IF h \notin DOMAIN cache /\ Cardinality(DOMAIN cache) >= MaxCached
     THEN \E d \in DOMAIN cache : cache' = Put(Restrict(cache, DOMAIN cache \ {d}), h, Entry(v))
     ELSE cache' = Put(cache, h, Entry(v))
  /\ Views(v, NoView)
  /\ UNCHANGED <<rows, time>>

Show(v) ==
  /\ viewer[v].pc = "hit" /\ Views(v, NoView)
  /\ UNCHANGED <<rows, cache, time>>

\* Deleting a host leaves its entry.
DropHost(h) ==
  /\ h \in rows /\ rows' = rows \ {h}
  /\ UNCHANGED <<cache, viewer, time>>

Passes == time < MaxTime /\ time' = time + 1 /\ UNCHANGED <<rows, cache, viewer>>

MetricsNext ==
  \/ \E v \in Viewers, h \in CachedHosts : FindHost(v, h)
  \/ \E v \in Viewers : Lookup(v) \/ Collect(v) \/ Store(v) \/ Show(v)
  \/ \E h \in CachedHosts : DropHost(h)
  \/ Passes

MetricsSpec == MetricsInit /\ [][MetricsNext]_cacheVars

-----------------------------------------------------------------------------
(* Every variable holds what the code can put in it.                       *)
MetricsTypeOK ==
  /\ rows \subseteq CachedHosts /\ DOMAIN cache \subseteq CachedHosts
  /\ \A h \in DOMAIN cache : cache[h] \in [measured : 0..MaxTime, expires : 0..(MaxTime + Life)]
  /\ DOMAIN viewer = Viewers /\ time \in 0..MaxTime

(***************************************************************************)
(* What the cache answers was measured less than its TTL before the        *)
(* request, also when slow collections of one host overtake each other;    *)
(* and the cache never outgrows its bound.                                 *)
(***************************************************************************)
CacheTold ==
  /\ \A v \in Viewers : viewer[v].pc = "hit" => viewer[v].began - viewer[v].measured < Life
  /\ Cardinality(DOMAIN cache) <= MaxCached
=============================================================================
