-------------------------------- MODULE Login --------------------------------
(***************************************************************************)
(* Logging in: auth/ldap/service.go's Service (its failure buckets), over  *)
(* the Fake or the Real client main.go builds, the token auth/jwt.go       *)
(* issues, and auth/middleware.go's check of it on every other request.    *)
(* The check of the bucket, the client's answer and its record are three   *)
(* steps: the service's lock is not held between them.  This build's Real  *)
(* client never lets anyone in (its bind is a stub).                       *)
(***************************************************************************)
EXTENDS Integers, Sequences, FiniteSets, Functions, Permissions, Tables

CONSTANTS
  People,
  Roles,       \* those the configuration gives people
  Needed,      \* the permissions of the routes asked for
  Logins,      \* requests to log in under way at once
  MaxFails,    \* failures a window allows (main.go: 5)
  Window,      \* ticks (main.go: a minute)
  TokenLife,   \* ticks (main.go: an hour)
  MaxTicks, MaxTries   \* bounds

ASSUME LoginAssumption ==
  /\ IsFiniteSet(Logins) /\ MaxFails \in Nat \ {0} /\ TokenLife \in Nat \ {0}
  /\ Window \in Nat /\ MaxTicks \in Nat /\ MaxTries \in Nat

VARIABLES
  directory,   \* "fake" or "real"
  roleOf,      \* the fake's users, read when the process starts
  buckets,     \* people with failures: how many, and when the first was
  login,       \* each request
  tokens,      \* those issued; the secret outlives the process
  admitted,    \* the last request a token let in
  clock,
  failures,    \* ghost: this process's failures, and when
  turned,      \* ghost: the requests this process turned away, and when
  lost,        \* ghost: when each person last lost each role (-1: never)
  tries        \* logins begun, for MaxTries

loginVars == <<directory, roleOf, buckets, login, tokens, admitted, clock, failures, turned, lost,
               tries>>

\* devRoleToGroups and mapRole: a configured role with no group of its own is none.
RoleFor(r) == mapRole({r} \cap {"SuperAdmin", "Operator", "Developer", "Auditor"})
Granted == {RoleFor(r) : r \in Roles}

Away == [pc |-> "away"]
Does(l, step) == login' = [login EXCEPT ![l] = step]

LoginInit ==
  /\ directory \in {"fake", "real"}
  /\ roleOf \in [People -> Roles]
  /\ buckets = <<>> /\ login = [l \in Logins |-> Away]
  /\ tokens = {} /\ admitted = {} /\ clock = 0
  /\ failures = <<>> /\ turned = {} /\ tries = 0
  /\ lost = [p \in People |-> [r \in Granted |-> -1]]

-----------------------------------------------------------------------------
Expired(p) == clock - buckets[p].first > Window
\* Mutant: a full bucket stays full.
OverFor(p) == p \in DOMAIN buckets /\ buckets[p].fails >= MaxFails
OverLimit(p) == p \in DOMAIN buckets /\ ~Expired(p) /\ buckets[p].fails >= MaxFails

\* checkRateLimit: a bucket whose window is over goes; a full one refuses.
CheckLimit(l, p) ==
  /\ login[l] = Away /\ tries < MaxTries /\ tries' = tries + 1
  /\ IF OverLimit(p)
     THEN /\ turned' = turned \cup {[who |-> p, at |-> clock]}
          /\ UNCHANGED <<buckets, login>>
     ELSE /\ buckets' = Restrict(buckets, {q \in DOMAIN buckets : q = p => ~Expired(p)})
          /\ Does(l, [pc |-> "ask", who |-> p])
          /\ UNCHANGED turned
  /\ UNCHANGED <<directory, roleOf, tokens, admitted, clock, failures, lost>>

\* The stub of the Real client refuses every bind.
Binds(right) == right => directory = "fake"

\* Authenticate, which asks the client: a wrong password, or a Real that cannot be reached, is a failure.
AskDirectory(l, right) ==
  /\ login[l].pc = "ask"
  /\ Binds(right)
  /\ Does(l, [login[l] EXCEPT !.pc = IF right THEN "right" ELSE "wrong"])
  /\ UNCHANGED <<directory, roleOf, buckets, tokens, admitted, clock, failures, turned, lost,
                 tries>>

RecordFailure(l) ==
  /\ login[l].pc = "wrong" /\ Does(l, Away)
  /\ LET p == login[l].who IN
     /\ failures' = Append(failures, [who |-> p, at |-> clock])
     /\ buckets' = IF p \notin DOMAIN buckets \/ Expired(p)
                   THEN Put(buckets, p, [fails |-> 1, first |-> clock])
                   ELSE [buckets EXCEPT ![p].fails = @ + 1]
  /\ UNCHANGED <<directory, roleOf, tokens, admitted, clock, turned, lost, tries>>

Issue(p) == [who |-> p, role |-> RoleFor(roleOf[p]), until |-> clock + TokenLife]
Verify(t) == t \in tokens /\ clock < t.until

\* A success forgets the failures and issues a token.
RecordSuccess(l) ==
  /\ login[l].pc = "right" /\ Does(l, Away)
  /\ LET p == login[l].who IN
     /\ buckets' = Restrict(buckets, DOMAIN buckets \ {p})
     /\ tokens' = tokens \cup {Issue(p)}
  /\ UNCHANGED <<directory, roleOf, admitted, clock, failures, turned, lost, tries>>

\* A request with a token: its role is the token's, whatever the directory says now,
\* and RequirePermission looks whether the role holds the permission of the route.
Admit(t, permission) ==
  /\ Verify(t)
  /\ admitted' = IF RoleHasPermission(t.role, permission)
                 THEN {[who |-> t.who, for |-> permission, at |-> clock]} ELSE {}
  /\ UNCHANGED <<directory, roleOf, buckets, login, tokens, clock, failures, turned, lost,
                 tries>>

\* The process starts again, with the users its configuration has by now.
LoginRestart ==
  /\ roleOf' \in [People -> Roles]
  /\ lost' = [p \in People |-> [lost[p] EXCEPT ![RoleFor(roleOf[p])] =
                              IF RoleFor(roleOf'[p]) = RoleFor(roleOf[p]) THEN @ ELSE clock]]
  /\ buckets' = <<>> /\ login' = [l \in Logins |-> Away]
  /\ failures' = <<>> /\ turned' = {}
  /\ UNCHANGED <<directory, tokens, admitted, clock, tries>>

ClockTicks ==
  /\ clock < MaxTicks /\ clock' = clock + 1
  /\ UNCHANGED <<directory, roleOf, buckets, login, tokens, admitted, failures, turned, lost,
                 tries>>

LoginNext ==
  \/ \E l \in Logins, p \in People : CheckLimit(l, p)
  \/ \E l \in Logins, right \in BOOLEAN : AskDirectory(l, right)
  \/ \E l \in Logins : RecordFailure(l) \/ RecordSuccess(l)
  \/ \E t \in tokens, p \in Needed : Admit(t, p)
  \/ LoginRestart
  \/ ClockTicks

LoginSpec == LoginInit /\ [][LoginNext]_loginVars

-----------------------------------------------------------------------------
(* Every variable holds what the code can put in it.                       *)
LoginTypeOK ==
  /\ roleOf \in [People -> Roles] /\ DOMAIN buckets \subseteq People
  /\ \A p \in DOMAIN buckets : buckets[p] \in [fails : 1..MaxTries, first : 0..MaxTicks]
  /\ DOMAIN login = Logins
  /\ \A t \in tokens : t \in [who : People, role : Granted, until : 0..(MaxTicks + TokenLife)]
  /\ clock \in 0..MaxTicks /\ tries \in 0..MaxTries

FailedBefore(t) ==
  {i \in DOMAIN failures : failures[i].who = t.who /\ t.at - failures[i].at \in 0..Window}

(***************************************************************************)
(* A login is turned away only after as many failures of that person in    *)
(* the window before; although the count is checked and raised in two      *)
(* steps, it passes the limit by fewer than there are logins under way;    *)
(* what a person may do, a role lets them that they have or had at most a  *)
(* token's life before; a pod is entered by none but SuperAdmins and       *)
(* Operators; and a real directory lets no one in.                         *)
(***************************************************************************)
LoginTold ==
  /\ \A t \in turned : Cardinality(FailedBefore(t)) >= MaxFails
  /\ \A p \in DOMAIN buckets : buckets[p].fails < MaxFails + Cardinality(Logins)
  /\ \A a \in admitted : \E r \in Granted :
       /\ RoleHasPermission(r, a.for)
       /\ r = RoleFor(roleOf[a.who]) \/ (lost[a.who][r] >= 0 /\ a.at - lost[a.who][r] < TokenLife)
       /\ a.for = "k8s.pods.exec" => r \in {"SuperAdmin", "Operator"}
  /\ directory = "real" => tokens = {}
=============================================================================
