------------------------------- MODULE Server -------------------------------
(***************************************************************************)
(* The process: cmd/devops-toolkit/main.go's run.  It builds the modules   *)
(* one after the other; one whose tables cannot be made is left out, and   *)
(* what it would have given the later ones is a nil pointer.  Then it      *)
(* listens until the listener fails, or a signal makes it drain for ten    *)
(* seconds.  Neither background work nor the WebSockets, whose connections *)
(* net/http has handed over, are waited for.                               *)
(***************************************************************************)
EXTENDS Integers, Sequences, SequencesExt, FiniteSets

CONSTANTS
  Visits,      \* requests under way at once
  Visited,     \* the modules they are for
  Grace,       \* the ten seconds of Shutdown, in ticks
  MaxFaults    \* bound: modules whose tables cannot be made

ASSUME ServerAssumption == Grace \in Nat

VARIABLES
  stage,       \* "starting", "serving", "draining" or "ended"
  built,       \* how many modules have had their turn
  routes,      \* those whose routes are there
  signalled,   \* SIGINT or SIGTERM has come
  loop,        \* the hosts' monitor loop: "off", "on" or "over"
  visit,       \* each request
  waited,      \* ticks of Shutdown
  result,      \* what run returned
  cut          \* requests and WebSockets the end of the process cut off

serverVars == <<stage, built, routes, signalled, loop, visit, waited, result, cut>>

\* In the order of run.
Modules == <<"audit", "projects", "devices", "hub", "hosts", "alerts", "discovery", "clusters",
             "links", "pipelines", "catalog", "logs", "metrics", "streams">>

\* These make no tables; the logs' rows are then missing theirs.
Tableless == {"hub", "logs", "streams"}

\* The WebSocket endpoints.
Upgradable == {"hub", "streams"}

NoVisit == [pc |-> "none"]

ServerInit ==
  /\ stage = "starting" /\ built = 0 /\ routes = {} /\ signalled = FALSE /\ loop = "off"
  /\ visit = [v \in Visits |-> NoVisit] /\ waited = 0 /\ result = "none" /\ cut = {}

Under == {v \in Visits : visit[v].pc = "under way"}
Hijacked == {v \in Visits : visit[v].pc = "hijacked"}

\* The process ends, and with it what is under way.
ProcessEnds(r) ==
  /\ stage' = "ended" /\ result' = r
  /\ cut' = {visit[v] : v \in Under \cup Hijacked}
  /\ visit' = [v \in Visits |-> NoVisit]
  /\ loop' = "off"
  /\ UNCHANGED <<built, routes, signalled, waited>>

-----------------------------------------------------------------------------
\* The configuration, the database, the allowed origins, the secret; later the TLS files.
RefuseToStart == stage = "starting" /\ built \in {0, Len(Modules)} /\ ProcessEnds("error")

Faults == built - Cardinality(routes)

Register ==
  /\ stage = "starting" /\ built < Len(Modules)
  /\ built' = built + 1
  /\ LET m == Modules[built + 1] IN
     \/ /\ routes' = routes \cup {m}
        /\ loop' = IF m = "hosts" THEN "on" ELSE loop
     \/ /\ m \notin Tableless /\ Faults < MaxFaults
        /\ UNCHANGED <<routes, loop>>
  /\ UNCHANGED <<stage, signalled, visit, waited, result, cut>>

Listen ==
  /\ stage = "starting" /\ built = Len(Modules) /\ stage' = "serving"
  /\ UNCHANGED <<built, routes, signalled, loop, visit, waited, result, cut>>

ListenFails == stage = "serving" /\ ProcessEnds("error")

-----------------------------------------------------------------------------
Arrive(v, m) ==
  /\ stage = "serving" /\ v \notin Under \cup Hijacked
  /\ visit' = [visit EXCEPT ![v] = [pc |-> "under way", to |-> m]]
  /\ UNCHANGED <<stage, built, routes, signalled, loop, waited, result, cut>>

\* The module whose service a handler of m goes through: a nil pointer without it.
NeededBy(m) == CASE m = "alerts" -> {"hosts"} [] m = "catalog" -> {"clusters"} [] OTHER -> {}

\* No route, a panic that Recovery turns into a 500, rows without tables, or an answer.
AnswersOf(m) ==
  IF m \notin routes THEN {"not found"}
  ELSE {a \in {"answer", "panic", "error"} : /\ a = "panic" => ~(NeededBy(m) \subseteq routes)
                                            /\ a = "error" => m = "logs"}

Respond(v) ==
  /\ v \in Under
  /\ \E a \in AnswersOf(visit[v].to) :
       visit' = [visit EXCEPT ![v] = [pc |-> a, to |-> visit[v].to]]
  /\ UNCHANGED <<stage, built, routes, signalled, loop, waited, result, cut>>

\* The upgrade takes the connection from the server, which forgets it.
Hijack(v) ==
  /\ v \in Under /\ visit[v].to \in Upgradable \cap routes
  /\ visit' = [visit EXCEPT ![v] = [pc |-> "hijacked", to |-> visit[v].to]]
  /\ UNCHANGED <<stage, built, routes, signalled, loop, waited, result, cut>>

SocketCloses(v) ==
  /\ v \in Hijacked /\ visit' = [visit EXCEPT ![v] = NoVisit]
  /\ UNCHANGED <<stage, built, routes, signalled, loop, waited, result, cut>>

-----------------------------------------------------------------------------
Signal ==
  /\ stage # "ended" /\ ~signalled /\ signalled' = TRUE
  /\ UNCHANGED <<stage, built, routes, loop, visit, waited, result, cut>>

LoopEnds ==
  /\ loop = "on" /\ signalled /\ loop' = "over"
  /\ UNCHANGED <<stage, built, routes, signalled, visit, waited, result, cut>>

Shutdown ==
  /\ stage = "serving" /\ signalled /\ stage' = "draining"
  /\ UNCHANGED <<built, routes, signalled, loop, visit, waited, result, cut>>

\* Mutant: run returns once the listener is closed.
DrainedAtOnce == stage = "draining" /\ ProcessEnds("nil")

\* Shutdown polls until no connection it still knows of is active.
Drained == stage = "draining" /\ Under = {} /\ ProcessEnds("nil")

Wait ==
  /\ stage = "draining" /\ waited < Grace /\ waited' = waited + 1
  /\ UNCHANGED <<stage, built, routes, signalled, loop, visit, result, cut>>

GiveUp == stage = "draining" /\ waited = Grace /\ ProcessEnds("error")

ServerNext ==
  \/ RefuseToStart \/ Register \/ Listen \/ ListenFails
  \/ \E v \in Visits, m \in Visited : Arrive(v, m)
  \/ \E v \in Visits : Respond(v) \/ Hijack(v) \/ SocketCloses(v)
  \/ Signal \/ LoopEnds \/ Shutdown \/ Drained \/ Wait \/ GiveUp

ServerSpec == ServerInit /\ [][ServerNext]_serverVars

\* run's goroutine goes on, and time passes.
Running == Shutdown \/ Drained \/ Wait \/ GiveUp

ServerFairness == WF_serverVars(Running)

-----------------------------------------------------------------------------
(* Every variable holds what the code can put in it.                       *)
ServerTypeOK ==
  /\ stage \in {"starting", "serving", "draining", "ended"}
  /\ built \in 0..Len(Modules) /\ routes \subseteq ToSet(SubSeq(Modules, 1, built))
  /\ loop \in {"off", "on", "over"} /\ waited \in 0..Grace
  /\ \A v \in Visits : visit[v].pc \in {"none", "under way", "hijacked", "answer", "error", "panic", "not found"}
  /\ result \in {"none", "nil", "error"}
  /\ cut \subseteq [pc : {"under way", "hijacked"}, to : Visited]

(***************************************************************************)
(* Shutdown is graceful to requests: run returns nil only after a signal,  *)
(* and then cuts off nothing but WebSockets; and a drain cuts a request    *)
(* off only when it has had the whole grace.                               *)
(***************************************************************************)
ServerTold ==
  LET requestsCut == {v \in cut : v.pc = "under way"} IN
  /\ result = "nil" => signalled /\ requestsCut = {}
  /\ waited > 0 /\ requestsCut # {} => waited = Grace

(* A signal ends the process, whatever its requests do.                    *)
ServerSettled == stage \in {"serving", "draining"} => ~signalled
SignalEnds == []<>ServerSettled
=============================================================================
