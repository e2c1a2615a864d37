------------------------------ MODULE Listings ------------------------------
(***************************************************************************)
(* The two tables that only grow and are read in pages: the metrics        *)
(* (internal/metrics) and the audit trail (internal/audit).  A page is a   *)
(* request of its own, which counts the rows and then finds its share of   *)
(* them, newest first; a client goes on as long as has_more says so.  Rows *)
(* come in with any time: a sample carries its own, and an audit event     *)
(* that of its emission.  Filters that only compare a column are left out. *)
(***************************************************************************)
EXTENDS Integers, FiniteSets

CONSTANTS
  Serials,    \* ids of rows, in the order "id ASC" has
  Instants,   \* times, small numbers above 0
  Tenants,    \* projects an audit event may name in its metadata
  PageSize,   \* the limit a client asks for
  MaxRange    \* metrics: MaxQueryRange, 90 days

ASSUME ListingsAssumption ==
  /\ Serials \subseteq Nat /\ Instants \subseteq Nat /\ PageSize \in Nat \ {0} /\ MaxRange \in Nat

VARIABLES
  listing,  \* "metrics" or "audit"
  stored,   \* the rows
  joined,   \* the projects the client's user is a member of
  walk      \* the client, from its first page to its last

listingVars == <<listing, stored, joined, walk>>

NoTenant == "none"
ListedRows == [id : Serials, at : Instants, of : Tenants \cup {NoTenant}]
Outside == [pc |-> "outside"]

\* from is inclusive; to is exclusive for metrics and inclusive for the audit trail.
\* 0 is no bound; a member sees the events of certain projects only.
Matches(r, f) ==
  /\ f.from = 0 \/ r.at >= f.from
  /\ f.to = 0 \/ (IF listing = "metrics" THEN r.at < f.to ELSE r.at <= f.to)
  /\ f.scope = "mine" => r.of \in f.projects
Matching(f) == {r \in stored : Matches(r, f)}

\* "timestamp DESC, id ASC"
Before(r, s) == r.at > s.at \/ (r.at = s.at /\ r.id < s.id)
Rank(r, S) == Cardinality({s \in S : Before(s, r)})
Page(f) ==
  {r \in Matching(f) : /\ Rank(r, Matching(f)) >= f.offset
                       /\ f.limit = 0 \/ Rank(r, Matching(f)) < f.offset + f.limit}

ListingsInit ==
  /\ listing \in {"metrics", "audit"}
  /\ stored = {} /\ joined = {} /\ walk = Outside

\* Ingest, and the emitter's Create.
Ingest(r) ==
  /\ \A s \in stored : s.id # r.id
  /\ listing = "metrics" => r.of = NoTenant
  /\ stored' = stored \cup {r}
  /\ walk' = IF walk = Outside THEN walk
             ELSE [walk EXCEPT !.moved = TRUE, !.late = @ \/ walk.pc = "find"]
  /\ UNCHANGED <<listing, joined>>

JoinOrLeave(p) ==
  /\ listing = "audit"
  /\ joined' = IF p \in joined THEN joined \ {p} ELSE joined \cup {p}
  /\ UNCHANGED <<listing, stored, walk>>

validateRange(from, to) ==
  listing = "metrics" => from = 0 \/ to = 0 \/ to - from <= MaxRange

\* The first page.  A limit of 0 is none, and the audit trail takes one that is no number for 0.
AskFirst(limit, from, to, scope) ==
  /\ walk = Outside /\ validateRange(from, to)
  /\ listing = "metrics" => scope = "all"
  /\ LET f == [from |-> from, to |-> to, scope |-> scope, projects |-> {}] IN
     walk' = [pc |-> IF scope = "all" THEN "count" ELSE "members", limit |-> limit,
              from |-> from, to |-> to, scope |-> scope, projects |-> {}, offset |-> 0,
              total |-> 0, seen |-> {}, again |-> FALSE, late |-> FALSE,
              moved |-> FALSE, narrowed |-> FALSE, began |-> Matching(f)]
  /\ UNCHANGED <<listing, stored, joined>>

\* has_more was true: the same filter, an offset further on.
AskNext ==
  /\ walk.pc = "page"
  /\ walk' = [walk EXCEPT !.pc = IF walk.scope = "all" THEN "count" ELSE "members",
                          !.offset = @ + walk.limit, !.late = FALSE]
  /\ UNCHANGED <<listing, stored, joined>>

\* ListForCaller, of one who is no SuperAdmin.
LoadMembers ==
  /\ walk.pc = "members"
  /\ LET f == [walk EXCEPT !.pc = "count", !.projects = joined]
         first == walk.offset = 0
     IN walk' = [f EXCEPT !.began = IF first THEN Matching(f) ELSE @,
                          !.moved = ~first /\ (@ \/ joined # walk.projects),
                          !.narrowed = ~first /\ (@ \/ ~(walk.projects \subseteq joined))]
  /\ UNCHANGED <<listing, stored, joined>>

CountRows ==
  /\ walk.pc = "count"
  /\ walk' = [walk EXCEPT !.pc = "find", !.total = Cardinality(Matching(walk))]
  /\ UNCHANGED <<listing, stored, joined>>

FindRows ==
  /\ walk.pc = "find"
  /\ LET hasMore == walk.limit > 0 /\ walk.offset + walk.limit < walk.total IN
     walk' = [walk EXCEPT !.pc = IF hasMore THEN "page" ELSE "last",
                          !.seen = @ \cup Page(walk),
                          !.again = @ \/ Page(walk) \cap walk.seen # {}]
  /\ UNCHANGED <<listing, stored, joined>>

\* The client has what it wanted, or a statement failed.
Leave ==
  /\ walk # Outside
  /\ walk' = Outside
  /\ UNCHANGED <<listing, stored, joined>>

ListingsNext ==
  \/ \E r \in ListedRows : Ingest(r)
  \/ \E p \in Tenants : JoinOrLeave(p)
  \/ \E limit \in {0, PageSize}, from, to \in {0} \cup Instants, scope \in {"all", "mine"} :
       AskFirst(limit, from, to, scope)
  \/ AskNext \/ LoadMembers \/ CountRows \/ FindRows \/ Leave

ListingsSpec == ListingsInit /\ [][ListingsNext]_listingVars

-----------------------------------------------------------------------------
(* Every variable holds what the code can put in it.                       *)
ListingsTypeOK ==
  /\ listing \in {"metrics", "audit"} /\ stored \subseteq ListedRows /\ joined \subseteq Tenants
  /\ walk.pc \in {"outside", "page", "members", "count", "find", "last"}

(***************************************************************************)
(* A client that follows has_more to its end has seen every row that was   *)
(* there for it when it began, however many come in between its pages: a   *)
(* new row only pushes older ones back.  The two exceptions: a row that    *)
(* came in between the count and the find of the last page (has_more is    *)
(* computed from the count), and a project the user has left.  No row is   *)
(* shown twice unless something came in.                                   *)
(***************************************************************************)
PagesTold ==
  walk # Outside =>
    /\ walk.pc = "last" /\ ~walk.late /\ ~walk.narrowed => walk.began \subseteq walk.seen
    /\ walk.again => walk.moved
=============================================================================
