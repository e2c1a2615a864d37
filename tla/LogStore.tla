------------------------------ MODULE LogStore ------------------------------
(***************************************************************************)
(* The logs: logs/local.go's Local backend under service.go (files another *)
(* process writes, lines appended in memory, a short-lived cache of the    *)
(* scan of both), and extra.go's retention row, saved filters and alert    *)
(* rules.  A request is a searcher that goes through its steps; Append and *)
(* a scan each hold the lock throughout.  main.go gives the log streams    *)
(* another Local than the routes search, so that there Append is never     *)
(* searched; and it creates no tables for the rows of extra.go.            *)
(***************************************************************************)
EXTENDS Integers, Sequences, FiniteSets

CONSTANTS
  Searchers,   \* requests under way at once
  Policies,    \* retention policies an operator may set
  SavedRows,   \* rows of log_saved_filters and log_alert_rules
  CacheLife,   \* the scan's cache (5 s), in ticks
  MaxFile, MaxEcho, MaxSeconds   \* bounds: lines on disk and in memory, ticks

ASSUME LogStoreAssumption ==
  CacheLife \in Nat /\ MaxFile \in Nat /\ MaxEcho \in Nat /\ MaxSeconds \in Nat

VARIABLES
  file,        \* when each line came to disk
  reach,       \* how many of them come before the first that is over the scanner's limit
  echo,        \* the lines appended
  scanned,     \* the cache: at most one scan's result, and when
  searcher,    \* each request
  retention,   \* the policy's row: none, or one
  seeder,      \* who holds ExtraService's mutex
  seeded,      \* ghost: how often the default was written
  missed,      \* ghost: how often a second lookup failed though the row was there
  saved,       \* each saved row, and how often its deletion was told
  second

logStoreVars ==
  <<file, reach, echo, scanned, searcher, retention, seeder, seeded, missed, saved, second>>
logLineVars == <<file, reach, echo, scanned>>
logRowVars == <<retention, seeder, seeded, missed, saved>>

AtRest == [pc |-> "rest"]
Moves(s, step) == searcher' = [searcher EXCEPT ![s] = step]

LogStoreInit ==
  /\ file = <<>> /\ reach = 0 /\ echo = 0 /\ scanned = {}
  /\ searcher = [s \in Searchers |-> AtRest]
  /\ retention = {} /\ seeder = {} /\ seeded = 0 /\ missed = 0
  /\ saved = [r \in SavedRows |-> [row |-> "new", told |-> 0]]
  /\ second = 0

-----------------------------------------------------------------------------
\* A line of 1 MiB or more ends every later scan of its file, and no error is told.
FileGrows(tooLong) ==
  /\ Len(file) < MaxFile /\ file' = Append(file, second)
  /\ reach' = IF tooLong \/ reach < Len(file) THEN reach ELSE Len(file) + 1
  /\ UNCHANGED <<echo, scanned, searcher, logRowVars, second>>

\* Mutant: the cache outlives an Append.
AppendLineKeeps ==
  /\ echo < MaxEcho /\ echo' = echo + 1
  /\ UNCHANGED <<file, reach, scanned, searcher, logRowVars, second>>

AppendLine ==
  /\ echo < MaxEcho /\ echo' = echo + 1
  /\ scanned' = {}
  /\ UNCHANGED <<file, reach, searcher, logRowVars, second>>

\* What a query says of its window: nothing (the last day), its begin, its end, or both.
Windows == {"day", "from", "until", "both"}

\* Service.Query: a window with an end and no begin is always too long.
Query(s, window) ==
  /\ searcher[s] = AtRest /\ window # "until"
  /\ Moves(s, [pc |-> "peek", echo |-> echo,
               file |-> Cardinality({i \in 1..reach : file[i] + CacheLife <= second})])
  /\ UNCHANGED <<logLineVars, logRowVars, second>>

Fresh == {c \in scanned : second - c.at < CacheLife}
Finds(s, c) ==
  Moves(s, [pc |-> "found", echo |-> searcher[s].echo, file |-> searcher[s].file, result |-> c])

\* Under the read lock: a fresh scan is the answer.
Peek(s) ==
  /\ searcher[s].pc = "peek"
  /\ IF Fresh = {} THEN Moves(s, [searcher[s] EXCEPT !.pc = "scan"])
                   ELSE \E c \in Fresh : Finds(s, c)
  /\ UNCHANGED <<logLineVars, logRowVars, second>>

\* Under the write lock: look again, then read everything; nothing is cached of nothing.
Scan(s) ==
  /\ searcher[s].pc = "scan"
  /\ LET new == [file |-> reach, echo |-> echo, at |-> second] IN
     IF Fresh # {} THEN (\E c \in Fresh : Finds(s, c)) /\ UNCHANGED scanned
     ELSE /\ Finds(s, new)
          /\ scanned' = IF new.file + new.echo = 0 THEN {} ELSE {new}
  /\ UNCHANGED <<file, reach, echo, logRowVars, second>>

\* A file that cannot be opened is the search's error, and the cache stays.
ScanFails(s) ==
  /\ searcher[s].pc = "scan" /\ Fresh = {} /\ Moves(s, AtRest)
  /\ UNCHANGED <<logLineVars, logRowVars, second>>

AnswerSearch(s) ==
  /\ searcher[s].pc = "found" /\ Moves(s, AtRest)
  /\ UNCHANGED <<logLineVars, logRowVars, second>>

-----------------------------------------------------------------------------
(* Retention: the first to find no row takes the mutex, looks again and    *)
(* writes the default; SetRetention takes no mutex.                        *)

GetRetention(s) ==
  /\ searcher[s] = AtRest /\ retention = {}
  /\ Moves(s, [pc |-> "lock"])
  /\ UNCHANGED <<logLineVars, logRowVars, second>>

\* Any error of the second lookup is taken for a row that is not there.
LookAgain(s) ==
  /\ searcher[s].pc = "lock" /\ seeder = {}
  /\ \/ retention # {} /\ Moves(s, AtRest) /\ UNCHANGED <<seeder, missed>>
     \/ /\ seeder' = {s} /\ Moves(s, [pc |-> "seed"])
        /\ missed' = IF retention = {} THEN missed ELSE missed + 1
  /\ UNCHANGED <<logLineVars, retention, seeded, saved, second>>

\* The upsert writes over whatever has come since.
Seed(s) ==
  /\ searcher[s].pc = "seed" /\ Moves(s, AtRest)
  /\ retention' = {"default"} /\ seeder' = {} /\ seeded' = seeded + 1
  /\ UNCHANGED <<logLineVars, missed, saved, second>>

SeedFails(s) ==
  /\ searcher[s].pc = "seed" /\ Moves(s, AtRest) /\ seeder' = {}
  /\ UNCHANGED <<logLineVars, retention, seeded, missed, saved, second>>

SetRetention(p) ==
  /\ retention' = {p}
  /\ UNCHANGED <<logLineVars, searcher, seeder, seeded, missed, saved, second>>

SaveLogRow(r) ==
  /\ saved[r].row = "new" /\ saved' = [saved EXCEPT ![r].row = "saved"]
  /\ UNCHANGED <<logLineVars, searcher, retention, seeder, seeded, missed, second>>

\* Told and recorded only to who deleted it; for others it is not found.
DeleteLogRow(r) ==
  /\ saved[r].row = "saved"
  /\ saved' = [saved EXCEPT ![r] = [row |-> "deleted", told |-> @.told + 1]]
  /\ UNCHANGED <<logLineVars, searcher, retention, seeder, seeded, missed, second>>

SecondPasses ==
  /\ second < MaxSeconds /\ second' = second + 1
  /\ UNCHANGED <<logLineVars, searcher, logRowVars>>

LogStoreNext ==
  \/ AppendLine \/ SecondPasses \/ \E tooLong \in BOOLEAN : FileGrows(tooLong)
  \/ \E s \in Searchers, w \in Windows : Query(s, w)
  \/ \E s \in Searchers : Peek(s) \/ Scan(s) \/ ScanFails(s) \/ AnswerSearch(s)
  \/ \E s \in Searchers : GetRetention(s) \/ LookAgain(s) \/ Seed(s) \/ SeedFails(s)
  \/ \E p \in Policies : SetRetention(p)
  \/ \E r \in SavedRows : SaveLogRow(r) \/ DeleteLogRow(r)

LogStoreSpec == LogStoreInit /\ [][LogStoreNext]_logStoreVars

-----------------------------------------------------------------------------
(* Every variable holds what the code can put in it.                       *)
LogStoreTypeOK ==
  /\ Len(file) <= MaxFile /\ reach \in 0..Len(file) /\ echo \in 0..MaxEcho /\ second \in 0..MaxSeconds
  /\ \A c \in scanned : c \in [file : 0..MaxFile, echo : 0..MaxEcho, at : 0..MaxSeconds]
  /\ DOMAIN searcher = Searchers /\ seeder \subseteq Searchers
  /\ retention \subseteq Policies \cup {"default"} /\ Cardinality(retention) <= 1
  /\ seeded \in Nat /\ missed \in Nat
  /\ saved \in [SavedRows -> [row : {"new", "saved", "deleted"}, told : 0..1]]

(***************************************************************************)
(* A search finds every line appended before it began, and every line that *)
(* had been on disk for the cache's life, in front of any line over the    *)
(* scanner's limit; and the default retention is written once, and once    *)
(* more for each second lookup that failed: so often at most is a policy   *)
(* of the operator's lost to it.                                           *)
(***************************************************************************)
LogsTold ==
  /\ \A s \in Searchers : searcher[s].pc = "found" =>
       searcher[s].result.echo >= searcher[s].echo /\ searcher[s].result.file >= searcher[s].file
  /\ seeded <= 1 + missed
=============================================================================
