-------------------------- MODULE ProjectTreeProofs --------------------------
(***************************************************************************)
(* What ProjectTree keeps, for any set of projects, any number of requests *)
(* and any MaxDepth: while a request has not been overtaken by another     *)
(* one's write, what it has read of the tree still tells what it wants to  *)
(* know (RequestFacts), so its own write is an operation of                *)
(* ProjectHierarchy, and those keep the hierarchy.                         *)
(***************************************************************************)
EXTENDS ProjectTree, FiniteSetTheorems, TLAPS

-----------------------------------------------------------------------------
(* The tree of any table R, so that the lemmas speak of rows and of rows'. *)

Tables == [Projects -> Rows]

LiveIn(R, n)     == R[n].live = "live"
UpClosedIn(R, S) == \A m \in S : LiveIn(R, m) => R[m].parent \in S \cup {Top}
LineIn(R, n)     == {m \in Projects :
                       \A S \in SUBSET Projects : n \in S /\ UpClosedIn(R, S) => m \in S}
LastIn(R, m)     == ~LiveIn(R, m) \/ R[m].parent = Top
TracedIn(R, n)   == /\ \E m \in LineIn(R, n) : LastIn(R, m)
                    /\ \A m \in LineIn(R, n) : LiveIn(R, m)
DepthIn(R, n)    == Cardinality(LineIn(R, n))

LEMMA InRows ==
  ASSUME NEW n
  PROVE  /\ Live(n) <=> LiveIn(rows, n)
         /\ Line(n) = LineIn(rows, n)
         /\ Traced(n) <=> TracedIn(rows, n)
         /\ Depth(n) = DepthIn(rows, n)
<1>1. \A m : Live(m) <=> LiveIn(rows, m)
  BY DEF Live, LiveIn
<1>2. \A S : UpClosed(S) <=> UpClosedIn(rows, S)
  BY <1>1 DEF UpClosed, UpClosedIn
<1>3. Line(n) = LineIn(rows, n)
  BY <1>2 DEF Line, LineIn
<1> QED
  BY <1>1, <1>3 DEF Traced, TracedIn, Rooted, Last, LastIn, Depth, DepthIn

LEMMA InRowsNext ==
  ASSUME NEW n
  PROVE  /\ Live(n)' <=> LiveIn(rows', n)
         /\ Line(n)' = LineIn(rows', n)
         /\ Traced(n)' <=> TracedIn(rows', n)
         /\ Depth(n)' = DepthIn(rows', n)
<1>1. \A m : Live(m)' <=> LiveIn(rows', m)
  BY DEF Live, LiveIn
<1>2. \A S : UpClosed(S)' <=> UpClosedIn(rows', S)
  BY <1>1 DEF UpClosed, UpClosedIn
<1>3. Line(n)' = LineIn(rows', n)
  BY <1>2 DEF Line, LineIn
<1> QED
  BY <1>1, <1>3 DEF Traced, TracedIn, Rooted, Last, LastIn, Depth, DepthIn

\* The line of n is the least set that holds n and goes on upwards.
LEMMA LineHolds ==
  ASSUME NEW R \in Tables, NEW n \in Projects
  PROVE  /\ n \in LineIn(R, n)
         /\ LineIn(R, n) \in SUBSET Projects
         /\ IsFiniteSet(LineIn(R, n))
         /\ UpClosedIn(R, LineIn(R, n))
<1>1. n \in LineIn(R, n) /\ LineIn(R, n) \in SUBSET Projects
  BY DEF LineIn
<1>2. IsFiniteSet(LineIn(R, n))
  BY <1>1, FS_Subset, HierarchyAssumption
<1>3. ASSUME NEW m \in LineIn(R, n), LiveIn(R, m), R[m].parent # Top
      PROVE  R[m].parent \in LineIn(R, n)
  <2>1. R[m].parent \in Projects
    BY <1>1, <1>3 DEF Tables, Rows
  <2>2. ASSUME NEW S \in SUBSET Projects, n \in S, UpClosedIn(R, S)
        PROVE  R[m].parent \in S
    BY <1>3, <2>2 DEF LineIn, UpClosedIn
  <2> QED BY <2>1, <2>2 DEF LineIn
<1> QED BY <1>1, <1>2, <1>3 DEF UpClosedIn

LEMMA LineLeast ==
  ASSUME NEW R, NEW n, NEW S \in SUBSET Projects, n \in S, UpClosedIn(R, S)
  PROVE  LineIn(R, n) \subseteq S
BY DEF LineIn

LEMMA LineAbove ==
  ASSUME NEW R \in Tables, NEW n \in Projects, NEW m \in LineIn(R, n)
  PROVE  m \in Projects /\ LineIn(R, m) \subseteq LineIn(R, n)
BY LineHolds, LineLeast

LEMMA LineStep ==
  ASSUME NEW R \in Tables, NEW n \in Projects, LiveIn(R, n), R[n].parent # Top
  PROVE  /\ R[n].parent \in Projects
         /\ LineIn(R, n) = {n} \cup LineIn(R, R[n].parent)
<1> DEFINE p == R[n].parent
           S == {n} \cup LineIn(R, p)
<1>1. p \in Projects
  BY DEF Tables, Rows
<1>2. p \in LineIn(R, p) /\ LineIn(R, p) \in SUBSET Projects /\ UpClosedIn(R, LineIn(R, p))
  BY <1>1, LineHolds
<1>3. UpClosedIn(R, S)
  BY <1>2 DEF UpClosedIn
<1>4. LineIn(R, n) \subseteq S
  BY <1>2, <1>3, LineLeast
<1>5. n \in LineIn(R, n) /\ p \in LineIn(R, n)
  BY LineHolds DEF UpClosedIn
<1>6. LineIn(R, p) \subseteq LineIn(R, n)
  BY <1>5, LineAbove
<1> QED BY <1>1, <1>4, <1>5, <1>6

LEMMA LineLast ==
  ASSUME NEW R \in Tables, NEW n \in Projects, LastIn(R, n)
  PROVE  LineIn(R, n) = {n}
<1>1. UpClosedIn(R, {n})
  BY DEF UpClosedIn, LastIn
<1> QED BY <1>1, LineHolds, LineLeast

\* A line is the same in a table that has the same rows along it.
LEMMA LineAgrees ==
  ASSUME NEW R \in Tables, NEW Q \in Tables, NEW n \in Projects,
         \A m \in LineIn(R, n) : Q[m] = R[m]
  PROVE  /\ LineIn(Q, n) = LineIn(R, n)
         /\ TracedIn(Q, n) <=> TracedIn(R, n)
         /\ DepthIn(Q, n) = DepthIn(R, n)
<1>1. n \in LineIn(R, n) /\ LineIn(R, n) \in SUBSET Projects /\ UpClosedIn(R, LineIn(R, n))
  BY LineHolds
<1>2. UpClosedIn(Q, LineIn(R, n))
  BY <1>1 DEF UpClosedIn, LiveIn
<1>3. LineIn(Q, n) \subseteq LineIn(R, n)
  BY <1>1, <1>2, LineLeast
<1>4. n \in LineIn(Q, n) /\ LineIn(Q, n) \in SUBSET Projects /\ UpClosedIn(Q, LineIn(Q, n))
  BY LineHolds
<1>5. UpClosedIn(R, LineIn(Q, n))
  BY <1>3, <1>4 DEF UpClosedIn, LiveIn
<1>6. LineIn(Q, n) = LineIn(R, n)
  BY <1>3, <1>4, <1>5, LineLeast
<1> QED BY <1>6 DEF TracedIn, DepthIn, LastIn, LiveIn

\* What lies on the line of q, and is not q, has a live child there.
LEMMA LineChild ==
  ASSUME NEW R \in Tables, NEW q \in Projects, NEW f \in LineIn(R, q), f # q
  PROVE  \E c \in LineIn(R, q) : LiveIn(R, c) /\ R[c].parent = f
<1>1. SUFFICES ASSUME \A c \in LineIn(R, q) : LiveIn(R, c) => R[c].parent # f
               PROVE  FALSE
  OBVIOUS
<1> DEFINE S == LineIn(R, q) \ {f}
<1>2. q \in LineIn(R, q) /\ LineIn(R, q) \in SUBSET Projects /\ UpClosedIn(R, LineIn(R, q))
  BY LineHolds
<1>3. UpClosedIn(R, S)
  BY <1>1, <1>2 DEF UpClosedIn
<1>4. LineIn(R, q) \subseteq S
  BY <1>2, <1>3, LineLeast
<1> QED BY <1>4

\* The way up that ends does not come back.
LEMMA RootedAcyclic ==
  ASSUME NEW R \in Tables, NEW n \in Projects, LiveIn(R, n), R[n].parent # Top,
         NEW e \in LineIn(R, n), LastIn(R, e)
  PROVE  n \notin LineIn(R, R[n].parent)
<1>1. SUFFICES ASSUME n \in LineIn(R, R[n].parent) PROVE FALSE
  OBVIOUS
<1> DEFINE S == {m \in LineIn(R, n) : n \in LineIn(R, m)}
<1>2. n \in LineIn(R, n) /\ LineIn(R, n) \in SUBSET Projects /\ UpClosedIn(R, LineIn(R, n))
  BY LineHolds
<1>3. ASSUME NEW m \in S, LiveIn(R, m), R[m].parent # Top
      PROVE  R[m].parent \in S
  <2>1. m \in Projects /\ R[m].parent \in LineIn(R, n)
    BY <1>2, <1>3 DEF UpClosedIn
  <2>2. LineIn(R, m) = {m} \cup LineIn(R, R[m].parent)
    BY <1>3, <2>1, LineStep
  <2> QED BY <1>1, <2>1, <2>2
<1>4. UpClosedIn(R, S)
  BY <1>3 DEF UpClosedIn
<1>5. e \in S
  BY <1>2, <1>4, LineLeast
<1>6. LineIn(R, e) = {e}
  BY <1>2, LineLast
<1> QED BY <1>5, <1>6 DEF LastIn

LEMMA DepthStep ==
  ASSUME NEW R \in Tables, NEW n \in Projects, LiveIn(R, n), R[n].parent # Top,
         TracedIn(R, R[n].parent)
  PROVE  TracedIn(R, n) /\ DepthIn(R, n) = DepthIn(R, R[n].parent) + 1
<1> DEFINE p == R[n].parent
<1>1. p \in Projects /\ LineIn(R, n) = {n} \cup LineIn(R, p)
  BY LineStep
<1>2. TracedIn(R, n)
  BY <1>1 DEF TracedIn
<1>3. n \notin LineIn(R, p)
  BY <1>2, RootedAcyclic DEF TracedIn
<1>4. IsFiniteSet(LineIn(R, p))
  BY <1>1, LineHolds
<1>5. Cardinality(LineIn(R, p) \cup {n}) = Cardinality(LineIn(R, p)) + 1
  BY <1>3, <1>4, FS_AddElement
<1>6. LineIn(R, n) = LineIn(R, p) \cup {n}
  BY <1>1
<1> QED BY <1>2, <1>5, <1>6 DEF DepthIn

LEMMA DepthLast ==
  ASSUME NEW R \in Tables, NEW n \in Projects, LiveIn(R, n), R[n].parent = Top
  PROVE  TracedIn(R, n) /\ DepthIn(R, n) = 1
<1>1. LineIn(R, n) = {n}
  BY LineLast DEF LastIn
<1> QED BY <1>1, FS_Singleton DEF TracedIn, DepthIn, LastIn

LEMMA DepthPositive ==
  ASSUME NEW R \in Tables, NEW n \in Projects
  PROVE  DepthIn(R, n) \in Nat /\ DepthIn(R, n) >= 1
<1>1. IsFiniteSet(LineIn(R, n)) /\ n \in LineIn(R, n)
  BY LineHolds
<1>2. DepthIn(R, n) \in Nat
  BY <1>1, FS_CardinalityType DEF DepthIn
<1>3. DepthIn(R, n) # 0
  BY <1>1, FS_EmptySet DEF DepthIn
<1> QED BY <1>2, <1>3
-----------------------------------------------------------------------------
(* The operations of ProjectHierarchy, each in one step, keep the          *)
(* hierarchy: g says that a project with children has been moved.          *)

Keeps(R, g) ==
  \A n \in Projects : LiveIn(R, n) => TracedIn(R, n) /\ (~g => DepthIn(R, n) <= MaxDepth)

ChildlessIn(R, n) == \A c \in Projects : ~(LiveIn(R, c) /\ R[c].parent = n)

LEMMA CreateKeeps ==
  ASSUME NEW R \in Tables, NEW Q \in Tables, NEW g, NEW n \in Projects, NEW q \in Projects \cup {Top},
         Keeps(R, g), ~LiveIn(R, n),
         q # Top => TracedIn(R, q) /\ DepthIn(R, q) + 1 <= MaxDepth,
         Q = [R EXCEPT ![n] = [live |-> "live", parent |-> q]]
  PROVE  Keeps(Q, g)
<1>1. ASSUME NEW m \in Projects, TracedIn(R, m)
      PROVE  TracedIn(Q, m) /\ DepthIn(Q, m) = DepthIn(R, m)
  <2>1. n \notin LineIn(R, m)
    BY <1>1 DEF TracedIn
  <2>2. \A x \in LineIn(R, m) : Q[x] = R[x]
    BY <2>1 DEF Tables, LineIn
  <2>3. (TracedIn(Q, m) <=> TracedIn(R, m)) /\ DepthIn(Q, m) = DepthIn(R, m)
    BY <2>2, LineAgrees
  <2> QED BY <1>1, <2>3
<1>2. LiveIn(Q, n) /\ Q[n].parent = q
  BY DEF LiveIn, Tables
<1>3. TracedIn(Q, n) /\ DepthIn(Q, n) <= MaxDepth
  <2>1. CASE q = Top
    <3>1. 1 <= MaxDepth
      BY HierarchyAssumption
    <3> QED BY <1>2, <2>1, <3>1, DepthLast
  <2>2. CASE q # Top
    <3>1. q \in Projects /\ TracedIn(Q, q) /\ DepthIn(Q, q) = DepthIn(R, q)
      BY <1>1, <2>2
    <3>2. TracedIn(Q, n) /\ DepthIn(Q, n) = DepthIn(Q, q) + 1
      BY <1>2, <2>2, <3>1, DepthStep
    <3> QED BY <2>2, <3>1, <3>2
  <2> QED BY <2>1, <2>2
<1>4. ASSUME NEW m \in Projects, LiveIn(Q, m), m # n
      PROVE  TracedIn(Q, m) /\ (~g => DepthIn(Q, m) <= MaxDepth)
  <2>1. LiveIn(R, m)
    BY <1>4 DEF LiveIn, Tables
  <2> QED BY <1>1, <2>1 DEF Keeps
<1> QED BY <1>3, <1>4 DEF Keeps

LEMMA DeleteKeeps ==
  ASSUME NEW R \in Tables, NEW Q \in Tables, NEW g, NEW n \in Projects,
         Keeps(R, g), ChildlessIn(R, n),
         Q = [R EXCEPT ![n].live = "deleted"]
  PROVE  Keeps(Q, g)
<1> SUFFICES ASSUME NEW m \in Projects, LiveIn(Q, m)
             PROVE  TracedIn(Q, m) /\ (~g => DepthIn(Q, m) <= MaxDepth)
  BY DEF Keeps
<1>1. m # n /\ LiveIn(R, m)
  BY DEF LiveIn, Tables, Rows
<1>2. n \notin LineIn(R, m)
  BY <1>1, LineChild DEF ChildlessIn, LineIn
<1>3. \A x \in LineIn(R, m) : Q[x] = R[x]
  BY <1>2 DEF Tables, LineIn
<1> QED BY <1>1, <1>3, LineAgrees DEF Keeps

LEMMA MoveKeeps ==
  ASSUME NEW R \in Tables, NEW Q \in Tables, NEW g, NEW h, NEW n \in Projects, NEW q \in Projects,
         Keeps(R, g), LiveIn(R, n), n \notin LineIn(R, q),
         TracedIn(R, q), DepthIn(R, q) + 1 <= MaxDepth,
         ~h => ~g /\ ChildlessIn(R, n),
         Q = [R EXCEPT ![n].parent = q]
  PROVE  Keeps(Q, h)
<1>1. \A m \in Projects : /\ m # n => Q[m] = R[m]
                          /\ LiveIn(Q, m) <=> LiveIn(R, m)
  BY DEF LiveIn, Tables, Rows
<1>2. Q[n].parent = q
  BY DEF Tables, Rows
<1>3. ASSUME NEW m \in Projects, n \notin LineIn(R, m)
      PROVE  /\ TracedIn(Q, m) <=> TracedIn(R, m)
             /\ DepthIn(Q, m) = DepthIn(R, m)
  <2>1. \A x \in LineIn(R, m) : Q[x] = R[x]
    BY <1>1, <1>3 DEF LineIn
  <2> QED BY <2>1, LineAgrees
<1>4. q # Top
  BY HierarchyAssumption
<1>5. TracedIn(Q, n) /\ DepthIn(Q, n) <= MaxDepth
  <2>1. TracedIn(Q, q) /\ DepthIn(Q, q) = DepthIn(R, q)
    BY <1>3
  <2>2. LiveIn(Q, n) /\ Q[n].parent # Top /\ TracedIn(Q, Q[n].parent)
    BY <1>1, <1>2, <1>4, <2>1
  <2>3. TracedIn(Q, n) /\ DepthIn(Q, n) = DepthIn(Q, q) + 1
    BY <1>2, <2>2, DepthStep
  <2> QED BY <2>1, <2>3
\* A project under the one that moves: its new line is part of its old one and of n's new one.
<1>6. ASSUME NEW m \in Projects, n \in LineIn(R, m), TracedIn(R, m)
      PROVE  TracedIn(Q, m)
  <2> DEFINE S == LineIn(R, m) \cup LineIn(Q, n)
  <2>1. m \in LineIn(R, m) /\ LineIn(R, m) \in SUBSET Projects /\ UpClosedIn(R, LineIn(R, m))
    BY LineHolds
  <2>2. n \in LineIn(Q, n) /\ LineIn(Q, n) \in SUBSET Projects /\ UpClosedIn(Q, LineIn(Q, n))
    BY LineHolds
  <2>3. UpClosedIn(Q, S)
    <3> SUFFICES ASSUME NEW x \in S, LiveIn(Q, x) PROVE Q[x].parent \in S \cup {Top}
      BY DEF UpClosedIn
    <3>1. CASE x \in LineIn(Q, n)
      BY <2>2, <3>1 DEF UpClosedIn
    <3>2. CASE x \notin LineIn(Q, n)
      <4>1. x \in LineIn(R, m) /\ x # n /\ x \in Projects
        BY <2>1, <2>2, <3>2
      <4> QED BY <1>1, <2>1, <4>1 DEF UpClosedIn
    <3> QED BY <3>1, <3>2
  <2>4. LineIn(Q, m) \subseteq S
    BY <2>1, <2>2, <2>3, LineLeast
  <2>5. \A x \in LineIn(Q, m) : LiveIn(Q, x)
    <3>1. \A x \in LineIn(R, m) : x \in Projects /\ LiveIn(R, x)
      BY <1>6, <2>1 DEF TracedIn
    <3>2. \A x \in LineIn(Q, n) : LiveIn(Q, x)
      BY <1>5 DEF TracedIn
    <3> QED BY <1>1, <2>4, <3>1, <3>2
  <2>6. n \in LineIn(Q, m)
    <3> SUFFICES ASSUME n \notin LineIn(Q, m) PROVE FALSE
      OBVIOUS
    <3>1. LineIn(Q, m) \in SUBSET Projects
      BY LineHolds
    <3>2. \A x \in LineIn(Q, m) : R[x] = Q[x]
      BY <1>1, <3>1
    <3>3. LineIn(R, m) = LineIn(Q, m)
      BY <3>2, LineAgrees
    <3> QED BY <1>6, <3>3
  <2>7. LineIn(Q, n) \subseteq LineIn(Q, m)
    BY <2>6, LineAbove
  <2> QED BY <1>5, <2>5, <2>7 DEF TracedIn
<1>7. ASSUME NEW m \in Projects, LiveIn(Q, m)
      PROVE  TracedIn(Q, m) /\ (~h => DepthIn(Q, m) <= MaxDepth)
  <2>1. TracedIn(R, m) /\ (~g => DepthIn(R, m) <= MaxDepth)
    BY <1>1, <1>7 DEF Keeps
  <2>2. CASE n \notin LineIn(R, m)
    BY <1>3, <2>1, <2>2
  <2>3. CASE n \in LineIn(R, m)
    <3>1. TracedIn(Q, m)
      BY <1>6, <2>1, <2>3
    <3>2. ASSUME ~h PROVE m = n
      BY <2>3, <3>2, LineChild DEF ChildlessIn, LineIn
    <3> QED BY <1>5, <3>1, <3>2
  <2> QED BY <2>2, <2>3
<1> QED BY <1>7 DEF Keeps
-----------------------------------------------------------------------------
(* What a request that nobody has overtaken knows.                         *)

JobsAt(l) == {j \in Jobs : j.pc = l}

\* The walk of CreateDepth or MoveDepth from q has come to at.
Walked(R, q, at, d) ==
  TracedIn(R, at) => /\ TracedIn(R, q)
                     /\ DepthIn(R, q) = d + DepthIn(R, at) \/ d = MaxDepth

Holds(R, q) == TracedIn(R, q) /\ DepthIn(R, q) + 1 <= MaxDepth

UpFact(R, j)     == R[j.node].live = "absent" /\ Walked(R, j.to, j.at, j.depth)
InsertFact(R, j) == R[j.node].live = "absent" /\ (j.to = Top \/ Holds(R, j.to))
DownFact(R, j)   == /\ LiveIn(R, j.node) /\ j.to # j.node
                    /\ ~j.found /\ j.node \in LineIn(R, j.to)
                         => \E f \in j.frontier : f \in LineIn(R, j.to) /\ f # j.to
UnderFact(R, j)  == /\ LiveIn(R, j.node) /\ j.node \notin LineIn(R, j.to)
                    /\ Walked(R, j.to, j.at, j.depth)
OwnFact(R, j)    == /\ LiveIn(R, j.node) /\ j.node \notin LineIn(R, j.to)
                    /\ TracedIn(R, j.to) /\ (DepthIn(R, j.to) = j.depth \/ j.depth = MaxDepth)
                    /\ TracedIn(R, j.at) => TracedIn(R, j.node)
CommitFact(R, j) == /\ LiveIn(R, j.node) /\ TracedIn(R, j.node)
                    /\ j.node \notin LineIn(R, j.to)
                    /\ j.to # Top /\ Holds(R, j.to)
DropFact(R, j)   == LiveIn(R, j.node) /\ ChildlessIn(R, j.node)

Fact(R, j) ==
  /\ j.pc = "up"     => UpFact(R, j)
  /\ j.pc = "insert" => InsertFact(R, j)
  /\ j.pc = "down"   => DownFact(R, j)
  /\ j.pc = "under"  => UnderFact(R, j)
  /\ j.pc = "own"    => OwnFact(R, j)
  /\ j.pc = "commit" => CommitFact(R, j)
  /\ j.pc = "drop"   => DropFact(R, j)

RequestFacts == \A r \in fresh : Fact(rows, req[r])

IInv == TypeOK /\ RequestFacts

\* What a job holds at each place.
LEMMA JobTypes ==
  ASSUME TypeOK, NEW r \in Requests, ~Idle(r)
  PROVE  LET j == req[r] IN
         /\ j \in Jobs /\ j.node \in Projects
         /\ j.pc \in {"up", "down", "under", "own", "insert", "commit", "drop"}
         /\ j.pc \in {"up", "under", "own"} =>
              j \in [pc : {j.pc}, node : Projects, to : Projects, at : Projects, depth : 0..MaxDepth]
         /\ j.pc = "down" => j \in [pc : {"down"}, node : Projects, to : Projects,
                                    frontier : SUBSET Projects, found : BOOLEAN]
         /\ j.pc \in {"insert", "commit"} =>
              j \in [pc : {j.pc}, node : Projects, to : Projects \cup {Top}]
<1>1. req[r] \in {IdleReq} \cup Jobs
  BY DEF TypeOK
<1>2. req[r] # IdleReq
  BY DEF Idle, IdleReq
<1> QED BY <1>1, <1>2 DEF Jobs

\* A step of a walk keeps what it has found so far, and its end tells the depth.
LEMMA WalkUp ==
  ASSUME NEW R \in Tables, NEW q \in Projects, NEW at \in Projects, NEW d \in 0..MaxDepth,
         Walked(R, q, at, d), LiveIn(R, at), R[at].parent # Top
  PROVE  Walked(R, q, R[at].parent, Deeper(d)) /\ Deeper(d) \in 0..MaxDepth
<1> DEFINE p == R[at].parent
<1>1. p \in Projects
  BY LineStep
<1>2. TracedIn(R, p) => TracedIn(R, at) /\ DepthIn(R, at) = DepthIn(R, p) + 1
  BY DepthStep
<1>3. DepthIn(R, p) \in Nat /\ DepthIn(R, q) \in Nat
  BY <1>1, DepthPositive
<1>4. MaxDepth \in Nat
  BY HierarchyAssumption
<1> HIDE DEF p
<1>5. Walked(R, q, p, Deeper(d))
  BY <1>2, <1>3, <1>4 DEF Walked, Deeper
<1>6. Deeper(d) \in 0..MaxDepth
  BY <1>4 DEF Deeper
<1> QED BY <1>5, <1>6 DEF p

LEMMA WalkEnds ==
  ASSUME NEW R \in Tables, NEW q \in Projects, NEW at \in Projects, NEW d \in 0..MaxDepth,
         Walked(R, q, at, d), LiveIn(R, at), R[at].parent = Top
  PROVE  /\ TracedIn(R, q)
         /\ DepthIn(R, q) = Deeper(d) \/ Deeper(d) = MaxDepth
         /\ Deeper(d) \in 0..MaxDepth
<1>1. TracedIn(R, at) /\ DepthIn(R, at) = 1
  BY DepthLast
<1>2. MaxDepth \in Nat
  BY HierarchyAssumption
<1> QED BY <1>1, <1>2 DEF Walked, Deeper

\* One level of GetTree: the line from q down to n still has somebody in the frontier.
LEMMA LevelDown ==
  ASSUME NEW R \in Tables, NEW q \in Projects, NEW F \in SUBSET Projects, NEW C,
         C = {c \in Projects : LiveIn(R, c) /\ R[c].parent \in F}, q \notin C,
         \E f \in F : f \in LineIn(R, q) /\ f # q
  PROVE  \E f \in C : f \in LineIn(R, q) /\ f # q
<1>1. PICK f \in F : f \in LineIn(R, q) /\ f # q
  OBVIOUS
<1>2. PICK c \in LineIn(R, q) : LiveIn(R, c) /\ R[c].parent = f
  BY <1>1, LineChild
<1>3. c \in Projects
  BY DEF LineIn
<1> QED BY <1>1, <1>2, <1>3
-----------------------------------------------------------------------------
(* What each step of a request makes of it.                                *)

Goes(r, job) ==
  /\ job \in {IdleReq} \cup Jobs
  /\ Become(r, job)
  /\ r \in fresh /\ job # IdleReq => Fact(rows, job)

\* The walk goes to another row: nothing else of the job changes.
LEMMA WalkJob ==
  ASSUME NEW l, NEW a \in Projects, NEW d \in 0..MaxDepth,
         NEW j \in [pc : {l}, node : Projects, to : Projects, at : Projects, depth : 0..MaxDepth]
  PROVE  LET k == [j EXCEPT !.at = a, !.depth = d] IN
         /\ k \in [pc : {l}, node : Projects, to : Projects, at : Projects, depth : 0..MaxDepth]
         /\ k.pc = l /\ k.node = j.node /\ k.to = j.to /\ k.at = a /\ k.depth = d
OBVIOUS

LEMMA TableNow ==
  ASSUME TypeOK
  PROVE  rows \in Tables
BY DEF TypeOK, Tables

LEMMA StartJobs ==
  ASSUME TypeOK, NEW r \in Requests, Request(r)
  PROVE  Idle(r) /\ \E job \in Jobs : Start(r, job) /\ Fact(rows, job)
<1> PICK n \in Projects : \/ \E q \in Projects \cup {Top} : StartCreate(r, n, q)
                          \/ \E q \in Projects : StartMove(r, n, q)
                          \/ StartDelete(r, n)
  BY DEF Request
<1> DEFINE Goal == Idle(r) /\ \E job \in Jobs : Start(r, job) /\ Fact(rows, job)
<1>0. MaxDepth \in Nat
  BY HierarchyAssumption
<1>1. ASSUME NEW q \in Projects \cup {Top}, StartCreate(r, n, q) PROVE Goal
  <2> DEFINE ins == [pc |-> "insert", node |-> n, to |-> Top]
             up  == [pc |-> "up", node |-> n, to |-> q, at |-> q, depth |-> 0]
  <2>1. CASE q = Top
    <3>1. ins \in Jobs
      BY DEF Jobs
    <3>2. Fact(rows, ins)
      BY <1>1 DEF StartCreate, Fact, InsertFact
    <3> QED BY <1>1, <2>1, <3>1, <3>2 DEF StartCreate
  <2>2. CASE q # Top
    <3>1. up \in Jobs
      BY <1>0, <2>2 DEF Jobs
    <3>2. DepthIn(rows, q) \in Nat
      BY <2>2, TableNow, DepthPositive
    <3>3. Fact(rows, up)
      BY <1>1, <3>2 DEF StartCreate, Fact, UpFact, Walked
    <3> QED BY <1>1, <2>2, <3>1, <3>3 DEF StartCreate
  <2> QED BY <2>1, <2>2
<1>2. ASSUME NEW q \in Projects, StartMove(r, n, q) PROVE Goal
  <2> DEFINE job == [pc |-> "down", node |-> n, to |-> q, frontier |-> {n}, found |-> FALSE]
  <2>1. job \in Jobs
    BY DEF Jobs
  <2>2. Fact(rows, job)
    BY <1>2 DEF StartMove, Fact, DownFact, Live, LiveIn
  <2> QED BY <1>2, <2>1, <2>2 DEF StartMove
<1>3. ASSUME StartDelete(r, n) PROVE Goal
  <2> DEFINE job == [pc |-> "drop", node |-> n]
  <2>1. job \in Jobs
    BY DEF Jobs
  <2>2. Fact(rows, job)
    BY <1>3 DEF StartDelete, Fact, DropFact, ChildlessIn, Children, Live, LiveIn
  <2> QED BY <1>3, <2>1, <2>2 DEF StartDelete
<1> QED BY <1>1, <1>2, <1>3

LEMMA CreateDepthJobs ==
  ASSUME IInv, NEW r \in Requests, CreateDepth(r)
  PROVE  \E job : Goes(r, job)
<1> DEFINE j  == req[r]
           d  == Deeper(j.depth)
           up == [j EXCEPT !.at = rows[j.at].parent, !.depth = d]
           in == [pc |-> "insert", node |-> j.node, to |-> j.to]
<1>1. /\ j.pc = "up" /\ j \in Jobs
      /\ j \in [pc : {"up"}, node : Projects, to : Projects, at : Projects, depth : 0..MaxDepth]
  BY JobTypes DEF CreateDepth, At, Idle, IInv
<1>2. rows \in Tables /\ (r \in fresh => UpFact(rows, j)) /\ MaxDepth \in Nat
  BY <1>1, TableNow, HierarchyAssumption DEF IInv, RequestFacts, Fact
<1>3. CASE ~Live(j.at)
  BY <1>3 DEF CreateDepth, Ascend, Goes
<1>4. CASE Live(j.at) /\ rows[j.at].parent # Top
  <2>1. Become(r, up)
    BY <1>4 DEF CreateDepth, Ascend
  <2>2. LiveIn(rows, j.at) /\ rows[j.at].parent \in Projects
    BY <1>1, <1>2, <1>4, LineStep DEF Live, LiveIn
  <2>3. d \in 0..MaxDepth
    BY <1>1, <1>2 DEF Deeper
  <2>4. /\ up \in [pc : {"up"}, node : Projects, to : Projects, at : Projects, depth : 0..MaxDepth]
        /\ up.pc = "up" /\ up.node = j.node /\ up.to = j.to
        /\ up.at = rows[j.at].parent /\ up.depth = d
    BY <1>1, <2>2, <2>3, WalkJob
  <2>5. up \in Jobs
    BY <2>4 DEF Jobs
  <2>6. r \in fresh => UpFact(rows, up)
    <3> SUFFICES ASSUME r \in fresh PROVE UpFact(rows, up)
      OBVIOUS
    <3>1. Walked(rows, j.to, j.at, j.depth) /\ rows[j.node].live = "absent"
      BY <1>2 DEF UpFact
    <3>2. Walked(rows, j.to, rows[j.at].parent, d)
      BY <1>1, <1>2, <1>4, <2>2, <3>1, WalkUp
    <3> HIDE DEF d, up
    <3> QED BY <2>4, <3>1, <3>2 DEF UpFact
  <2> HIDE DEF up
  <2> QED BY <2>1, <2>4, <2>5, <2>6 DEF Goes, Fact
<1>5. CASE Live(j.at) /\ rows[j.at].parent = Top
  <2>1. Become(r, IF d + 1 > MaxDepth THEN IdleReq ELSE in)
    BY <1>5 DEF CreateDepth, Ascend
  <2>2. in \in Jobs
    BY <1>1 DEF Jobs
  <2>3. r \in fresh /\ ~(d + 1 > MaxDepth) => InsertFact(rows, in)
    <3> SUFFICES ASSUME r \in fresh, ~(d + 1 > MaxDepth) PROVE InsertFact(rows, in)
      OBVIOUS
    <3>1. Walked(rows, j.to, j.at, j.depth) /\ rows[j.node].live = "absent"
      BY <1>2 DEF UpFact
    <3>2. LiveIn(rows, j.at)
      BY <1>5 DEF Live, LiveIn
    <3>3. TracedIn(rows, j.to) /\ (DepthIn(rows, j.to) = d \/ d = MaxDepth) /\ d \in 0..MaxDepth
      BY <1>1, <1>2, <1>5, <3>1, <3>2, WalkEnds
    <3>4. Holds(rows, j.to)
      BY <1>2, <3>3 DEF Holds
    <3> QED BY <3>1, <3>4 DEF InsertFact
  <2>4. in.pc = "insert"
    OBVIOUS
  <2> HIDE DEF in, d
  <2> QED BY <2>1, <2>2, <2>3, <2>4 DEF Goes, Fact
<1> QED BY <1>3, <1>4, <1>5
LEMMA MoveTreeJobs ==
  ASSUME IInv, NEW r \in Requests, MoveTree(r)
  PROVE  \E job : Goes(r, job)
<1> DEFINE j     == req[r]
           cs    == Children(j.frontier)
           down  == [j EXCEPT !.frontier = cs, !.found = @ \/ j.to \in cs]
           under == [pc |-> "under", node |-> j.node, to |-> j.to, at |-> j.to, depth |-> 0]
<1>1. /\ j.pc = "down" /\ j \in Jobs
      /\ j \in [pc : {"down"}, node : Projects, to : Projects,
                frontier : SUBSET Projects, found : BOOLEAN]
  BY JobTypes DEF MoveTree, At, Idle, IInv
<1>2. rows \in Tables /\ (r \in fresh => DownFact(rows, j)) /\ MaxDepth \in Nat
  BY <1>1, TableNow, HierarchyAssumption DEF IInv, RequestFacts, Fact
<1>3. cs = {c \in Projects : LiveIn(rows, c) /\ rows[c].parent \in j.frontier}
  BY DEF Children, Live, LiveIn
<1>4. CASE cs # {}
  <2>1. Become(r, down)
    BY <1>4 DEF MoveTree
  <2>2. cs \in SUBSET Projects
    BY <1>3
  <2>3. /\ down \in [pc : {"down"}, node : Projects, to : Projects,
                     frontier : SUBSET Projects, found : BOOLEAN]
        /\ down.pc = "down" /\ down.node = j.node /\ down.to = j.to
        /\ down.frontier = cs /\ (down.found <=> j.found \/ j.to \in cs)
    <3> HIDE DEF cs
    <3> QED BY <1>1, <2>2
  <2>4. down \in Jobs
    BY <2>3 DEF Jobs
  <2>5. r \in fresh => DownFact(rows, down)
    <3> SUFFICES ASSUME r \in fresh PROVE DownFact(rows, down)
      OBVIOUS
    <3>1. LiveIn(rows, j.node) /\ j.to # j.node
      BY <1>2 DEF DownFact
    <3>2. ASSUME ~j.found, j.to \notin cs, j.node \in LineIn(rows, j.to)
          PROVE  \E f \in cs : f \in LineIn(rows, j.to) /\ f # j.to
      <4>1. \E f \in j.frontier : f \in LineIn(rows, j.to) /\ f # j.to
        BY <1>2, <3>2 DEF DownFact
      <4>2. j.to \in Projects /\ j.frontier \in SUBSET Projects
        BY <1>1
      <4> HIDE DEF j, cs
      <4> QED BY <1>2, <1>3, <3>2, <4>1, <4>2, LevelDown
    <3> HIDE DEF cs, down
    <3> QED BY <2>3, <3>1, <3>2 DEF DownFact
  <2> HIDE DEF down
  <2> QED BY <2>1, <2>3, <2>4, <2>5 DEF Goes, Fact
<1>5. CASE cs = {} /\ j.found
  BY <1>5 DEF MoveTree, Goes
<1>6. CASE cs = {} /\ ~j.found
  <2>1. Become(r, under)
    BY <1>6 DEF MoveTree
  <2>2. under \in Jobs
    BY <1>1, <1>2 DEF Jobs
  <2>3. r \in fresh => UnderFact(rows, under)
    <3> SUFFICES ASSUME r \in fresh PROVE UnderFact(rows, under)
      OBVIOUS
    <3>1. LiveIn(rows, j.node) /\ j.to # j.node
      BY <1>2 DEF DownFact
    <3>2. j.node \notin LineIn(rows, j.to)
      <4> SUFFICES ASSUME j.node \in LineIn(rows, j.to) PROVE FALSE
        OBVIOUS
      <4>1. \E f \in j.frontier : f \in LineIn(rows, j.to) /\ f # j.to
        BY <1>2, <1>6 DEF DownFact
      <4>2. j.to \in Projects /\ j.frontier \in SUBSET Projects /\ j.to \notin cs
        BY <1>1, <1>6
      <4>3. \E f \in cs : f \in LineIn(rows, j.to) /\ f # j.to
        <5> HIDE DEF j, cs
        <5> QED BY <1>2, <1>3, <4>1, <4>2, LevelDown
      <4> QED BY <1>6, <4>3
    <3>3. DepthIn(rows, j.to) \in Nat
      BY <1>1, <1>2, DepthPositive
    <3> QED BY <3>1, <3>2, <3>3 DEF UnderFact, Walked
  <2>4. under.pc = "under"
    OBVIOUS
  <2> HIDE DEF under
  <2> QED BY <2>1, <2>2, <2>3, <2>4 DEF Goes, Fact
<1> QED BY <1>4, <1>5, <1>6

LEMMA MoveDepthJobs ==
  ASSUME IInv, NEW r \in Requests, MoveDepth(r)
  PROVE  \E job : Goes(r, job)
<1> DEFINE j   == req[r]
           d   == Deeper(j.depth)
           up  == [j EXCEPT !.at = rows[j.at].parent, !.depth = d]
           own == [pc |-> "own", node |-> j.node, to |-> j.to, at |-> j.node, depth |-> d]
<1>1. /\ j.pc = "under" /\ j \in Jobs
      /\ j \in [pc : {"under"}, node : Projects, to : Projects, at : Projects, depth : 0..MaxDepth]
  BY JobTypes DEF MoveDepth, At, Idle, IInv
<1>2. rows \in Tables /\ (r \in fresh => UnderFact(rows, j)) /\ MaxDepth \in Nat
  BY <1>1, TableNow, HierarchyAssumption DEF IInv, RequestFacts, Fact
<1>3. CASE ~Live(j.at)
  BY <1>3 DEF MoveDepth, Ascend, Goes
<1>4. CASE Live(j.at) /\ rows[j.at].parent # Top
  <2>1. Become(r, up)
    BY <1>4 DEF MoveDepth, Ascend
  <2>2. LiveIn(rows, j.at) /\ rows[j.at].parent \in Projects
    BY <1>1, <1>2, <1>4, LineStep DEF Live, LiveIn
  <2>3. d \in 0..MaxDepth
    BY <1>1, <1>2 DEF Deeper
  <2>4. /\ up \in [pc : {"under"}, node : Projects, to : Projects, at : Projects, depth : 0..MaxDepth]
        /\ up.pc = "under" /\ up.node = j.node /\ up.to = j.to
        /\ up.at = rows[j.at].parent /\ up.depth = d
    BY <1>1, <2>2, <2>3, WalkJob
  <2>5. up \in Jobs
    BY <2>4 DEF Jobs
  <2>6. r \in fresh => UnderFact(rows, up)
    <3> SUFFICES ASSUME r \in fresh PROVE UnderFact(rows, up)
      OBVIOUS
    <3>1. /\ Walked(rows, j.to, j.at, j.depth)
          /\ LiveIn(rows, j.node) /\ j.node \notin LineIn(rows, j.to)
      BY <1>2 DEF UnderFact
    <3>2. Walked(rows, j.to, rows[j.at].parent, d)
      BY <1>1, <1>2, <1>4, <2>2, <3>1, WalkUp
    <3> HIDE DEF d, up
    <3> QED BY <2>4, <3>1, <3>2 DEF UnderFact
  <2> HIDE DEF up
  <2> QED BY <2>1, <2>4, <2>5, <2>6 DEF Goes, Fact
<1>5. CASE Live(j.at) /\ rows[j.at].parent = Top
  <2>1. Become(r, own)
    BY <1>5 DEF MoveDepth, Ascend
  <2>2. d \in 0..MaxDepth
    BY <1>1, <1>2 DEF Deeper
  <2>3. own \in Jobs
    BY <1>1, <2>2 DEF Jobs
  <2>4. r \in fresh => OwnFact(rows, own)
    <3> SUFFICES ASSUME r \in fresh PROVE OwnFact(rows, own)
      OBVIOUS
    <3>1. /\ Walked(rows, j.to, j.at, j.depth)
          /\ LiveIn(rows, j.node) /\ j.node \notin LineIn(rows, j.to)
      BY <1>2 DEF UnderFact
    <3>2. LiveIn(rows, j.at)
      BY <1>5 DEF Live, LiveIn
    <3>3. TracedIn(rows, j.to) /\ (DepthIn(rows, j.to) = d \/ d = MaxDepth)
      BY <1>1, <1>2, <1>5, <3>1, <3>2, WalkEnds
    <3> HIDE DEF d
    <3> QED BY <3>1, <3>3 DEF OwnFact
  <2>5. own.pc = "own"
    OBVIOUS
  <2> HIDE DEF own
  <2> QED BY <2>1, <2>3, <2>4, <2>5 DEF Goes, Fact
<1> QED BY <1>3, <1>4, <1>5

LEMMA MoveOwnJobs ==
  ASSUME IInv, NEW r \in Requests, MoveOwn(r)
  PROVE  \E job : Goes(r, job)
<1> DEFINE j   == req[r]
           up  == [j EXCEPT !.at = rows[j.at].parent, !.depth = j.depth]
           com == [pc |-> "commit", node |-> j.node, to |-> j.to]
<1>1. /\ j.pc = "own" /\ j \in Jobs
      /\ j \in [pc : {"own"}, node : Projects, to : Projects, at : Projects, depth : 0..MaxDepth]
  BY JobTypes DEF MoveOwn, At, Idle, IInv
<1>2. rows \in Tables /\ (r \in fresh => OwnFact(rows, j)) /\ MaxDepth \in Nat
  BY <1>1, TableNow, HierarchyAssumption DEF IInv, RequestFacts, Fact
<1>3. CASE ~Live(j.at)
  BY <1>3 DEF MoveOwn, Ascend, Goes
<1>4. CASE Live(j.at) /\ rows[j.at].parent # Top
  <2>1. Become(r, up)
    BY <1>4 DEF MoveOwn, Ascend
  <2>2. LiveIn(rows, j.at) /\ rows[j.at].parent \in Projects
    BY <1>1, <1>2, <1>4, LineStep DEF Live, LiveIn
  <2>3. j.depth \in 0..MaxDepth
    BY <1>1
  <2>4. /\ up \in [pc : {"own"}, node : Projects, to : Projects, at : Projects, depth : 0..MaxDepth]
        /\ up.pc = "own" /\ up.node = j.node /\ up.to = j.to
        /\ up.at = rows[j.at].parent /\ up.depth = j.depth
    BY <1>1, <2>2, <2>3, WalkJob
  <2>5. up \in Jobs
    BY <2>4 DEF Jobs
  <2>6. r \in fresh => OwnFact(rows, up)
    <3> SUFFICES ASSUME r \in fresh PROVE OwnFact(rows, up)
      OBVIOUS
    <3>1. TracedIn(rows, rows[j.at].parent) => TracedIn(rows, j.at)
      BY <1>1, <1>2, <1>4, <2>2, DepthStep
    <3> HIDE DEF up
    <3> QED BY <1>2, <2>4, <3>1 DEF OwnFact
  <2> HIDE DEF up
  <2> QED BY <2>1, <2>4, <2>5, <2>6 DEF Goes, Fact
<1>5. CASE Live(j.at) /\ rows[j.at].parent = Top
  <2>1. Become(r, IF j.depth + 1 > MaxDepth THEN IdleReq ELSE com)
    BY <1>5 DEF MoveOwn, Ascend
  <2>2. com \in Jobs
    BY <1>1 DEF Jobs
  <2>3. r \in fresh /\ ~(j.depth + 1 > MaxDepth) => CommitFact(rows, com)
    <3> SUFFICES ASSUME r \in fresh, ~(j.depth + 1 > MaxDepth) PROVE CommitFact(rows, com)
      OBVIOUS
    <3>1. LiveIn(rows, j.at)
      BY <1>5 DEF Live, LiveIn
    <3>2. TracedIn(rows, j.at)
      BY <1>1, <1>2, <1>5, <3>1, DepthLast
    <3>3. Holds(rows, j.to)
      BY <1>1, <1>2 DEF OwnFact, Holds
    <3>4. j.to # Top
      BY <1>1, HierarchyAssumption
    <3> QED BY <1>2, <3>2, <3>3, <3>4 DEF OwnFact, CommitFact
  <2>4. com.pc = "commit"
    OBVIOUS
  <2> HIDE DEF com
  <2> QED BY <2>1, <2>2, <2>3, <2>4 DEF Goes, Fact
<1> QED BY <1>3, <1>4, <1>5
-----------------------------------------------------------------------------
(* The invariant.                                                          *)

LEMMA InitIInv == TreeInit => IInv
<1> SUFFICES ASSUME TreeInit PROVE IInv
  OBVIOUS
<1>1. rows \in [Projects -> Rows]
  BY DEF TreeInit, Init, Rows
<1>2. TypeOK
  BY <1>1 DEF TreeInit, TypeOK
<1> QED BY <1>2 DEF IInv, RequestFacts, TreeInit

LEMMA StartKeeps ==
  ASSUME IInv, NEW r \in Requests, Request(r)
  PROVE  IInv' /\ UNCHANGED <<rows, clean, grafted>>
<1>1. PICK job \in Jobs : Idle(r) /\ Start(r, job) /\ Fact(rows, job)
  BY StartJobs DEF IInv
<1>2. job.pc # "idle"
  BY DEF Jobs
<1>3. TypeOK'
  BY <1>1, <1>2 DEF IInv, TypeOK, Start, Idle
<1>4. RequestFacts'
  <2> SUFFICES ASSUME NEW s \in fresh' PROVE Fact(rows', req'[s])
    BY DEF RequestFacts
  <2>1. req \in [Requests -> {IdleReq} \cup Jobs] /\ s \in Requests
    BY <1>3, <1>1 DEF IInv, TypeOK
  <2>2. CASE s = r
    BY <1>1, <2>1, <2>2 DEF Start
  <2>3. CASE s # r
    BY <1>1, <2>1, <2>3 DEF Start, IInv, RequestFacts
  <2> QED BY <2>2, <2>3
<1> QED BY <1>1, <1>3, <1>4 DEF IInv, Start

LEMMA GoesKeeps ==
  ASSUME IInv, NEW r \in Requests, NEW job, ~Idle(r), Goes(r, job)
  PROVE  IInv' /\ UNCHANGED <<rows, clean, grafted>>
<1>1. job # IdleReq => job.pc # "idle"
  BY DEF Goes, Jobs
<1>2. TypeOK'
  <2>1. req' \in [Requests -> {IdleReq} \cup Jobs]
    BY DEF IInv, TypeOK, Goes, Become
  <2>2. ASSUME NEW s \in fresh' PROVE s \in Requests /\ req'[s].pc # "idle"
    <3>1. s \in fresh
      BY <2>2 DEF Goes, Become
    <3>2. s \in Requests /\ req[s].pc # "idle"
      BY <3>1 DEF IInv, TypeOK, Idle
    <3>3. CASE s = r
      <4>1. job # IdleReq
        BY <2>2, <3>3 DEF Goes, Become
      <4> QED BY <1>1, <3>3, <4>1 DEF IInv, TypeOK, Goes, Become
    <3>4. CASE s # r
      BY <3>2, <3>4 DEF IInv, TypeOK, Goes, Become
    <3> QED BY <3>2, <3>3, <3>4
  <2> QED BY <2>1, <2>2 DEF IInv, TypeOK, Goes, Become, Idle
<1>3. RequestFacts'
  <2> SUFFICES ASSUME NEW s \in fresh' PROVE Fact(rows', req'[s])
    BY DEF RequestFacts
  <2>1. req \in [Requests -> {IdleReq} \cup Jobs] /\ s \in Requests /\ s \in fresh
    BY <1>2 DEF IInv, TypeOK, Goes, Become
  <2>2. CASE s = r
    BY <2>1, <2>2 DEF Goes, Become
  <2>3. CASE s # r
    BY <2>1, <2>3 DEF Goes, Become, IInv, RequestFacts
  <2> QED BY <2>2, <2>3
<1> QED BY <1>2, <1>3 DEF IInv, Goes, Become

LEMMA WriteKeeps ==
  ASSUME IInv, NEW r \in Requests, NEW row \in Rows, ~Idle(r), Write(r, row), grafted' \in BOOLEAN
  PROVE  IInv'
<1>1. rows' \in [Projects -> Rows]
  BY JobTypes DEF IInv, TypeOK, Write
<1>2. req' \in [Requests -> {IdleReq} \cup Jobs]
  BY DEF IInv, TypeOK, Write
<1>3. fresh' = {} /\ clean' \in BOOLEAN
  BY DEF IInv, TypeOK, Write
<1> QED BY <1>1, <1>2, <1>3 DEF IInv, TypeOK, RequestFacts

\* A step writes nothing, or is the one write of its request.
LEMMA Steps ==
  ASSUME IInv, [Next]_vars
  PROVE  /\ IInv'
         /\ \/ UNCHANGED <<rows, clean, grafted>>
            \/ \E r \in Requests : /\ ~Idle(r)
                                   /\ Insert(r) \/ (Live(req[r].node) /\ (Commit(r) \/ Drop(r)))
<1> DEFINE Quiet   == UNCHANGED <<rows, clean, grafted>>
           Writes  == \E r \in Requests :
                        ~Idle(r) /\ (Insert(r) \/ (Live(req[r].node) /\ (Commit(r) \/ Drop(r))))
<1>1. CASE UNCHANGED vars
  <2>1. TypeOK'
    BY <1>1 DEF IInv, TypeOK, vars, Idle
  <2>2. RequestFacts'
    BY <1>1 DEF IInv, RequestFacts, vars
  <2> QED BY <1>1, <2>1, <2>2 DEF IInv, vars
<1>2. ASSUME NEW r \in Requests, Request(r) PROVE IInv' /\ Quiet
  BY <1>2, StartKeeps
<1>3. ASSUME NEW r \in Requests, CreateDepth(r) \/ MoveTree(r) \/ MoveDepth(r) \/ MoveOwn(r)
      PROVE  IInv' /\ Quiet
  <2>1. \E job : Goes(r, job)
    BY <1>3, CreateDepthJobs, MoveTreeJobs, MoveDepthJobs, MoveOwnJobs
  <2>2. ~Idle(r)
    BY <1>3 DEF CreateDepth, MoveTree, MoveDepth, MoveOwn, At, Idle
  <2> QED BY <2>1, <2>2, GoesKeeps
<1>4. ASSUME NEW r \in Requests, Commit(r) \/ Drop(r), ~Live(req[r].node)
      PROVE  IInv' /\ Quiet
  <2>1. Goes(r, IdleReq)
    BY <1>4 DEF Commit, Drop, Goes
  <2>2. ~Idle(r)
    BY <1>4 DEF Commit, Drop, At, Idle
  <2> QED BY <2>1, <2>2, GoesKeeps
<1>5. ASSUME NEW r \in Requests, Insert(r) PROVE IInv' /\ Writes
  <2>1. ~Idle(r) /\ req[r].pc = "insert"
    BY <1>5 DEF Insert, At, Idle
  <2>2. [live |-> "live", parent |-> req[r].to] \in Rows
    <3>1. req[r].to \in Projects \cup {Top}
      BY <2>1, JobTypes DEF IInv
    <3> QED BY <3>1 DEF Rows
  <2>3. Write(r, [live |-> "live", parent |-> req[r].to]) /\ grafted' = grafted
    BY <1>5 DEF Insert
  <2>4. grafted' \in BOOLEAN
    BY <2>3 DEF IInv, TypeOK
  <2> QED BY <1>5, <2>1, <2>2, <2>3, <2>4, WriteKeeps
<1>6. ASSUME NEW r \in Requests, Commit(r), Live(req[r].node) PROVE IInv' /\ Writes
  <2> DEFINE n == req[r].node
  <2>1. ~Idle(r) /\ req[r].pc = "commit"
    BY <1>6 DEF Commit, At, Idle
  <2>2. n \in Projects /\ req[r].to \in Projects \cup {Top}
    BY <2>1, JobTypes DEF IInv
  <2>3. Write(r, [rows[n] EXCEPT !.parent = req[r].to])
        /\ grafted' = (grafted \/ Children({n}) # {})
    BY <1>6 DEF Commit
  <2>4. [rows[n] EXCEPT !.parent = req[r].to] \in Rows
    BY <2>2 DEF IInv, TypeOK, Rows
  <2>5. grafted' \in BOOLEAN
    BY <2>3
  <2> HIDE DEF n
  <2> QED BY <1>6, <2>1, <2>3, <2>4, <2>5, WriteKeeps
<1>7. ASSUME NEW r \in Requests, Drop(r), Live(req[r].node) PROVE IInv' /\ Writes
  <2> DEFINE n == req[r].node
  <2>1. ~Idle(r)
    BY <1>7 DEF Drop, At, Idle
  <2>2. n \in Projects
    BY <2>1, JobTypes DEF IInv
  <2>3. Write(r, [rows[n] EXCEPT !.live = "deleted"]) /\ grafted' = grafted
    BY <1>7 DEF Drop
  <2>4. [rows[n] EXCEPT !.live = "deleted"] \in Rows
    BY <2>2 DEF IInv, TypeOK, Rows
  <2>5. grafted' \in BOOLEAN
    BY <2>3 DEF IInv, TypeOK
  <2> HIDE DEF n
  <2> QED BY <1>7, <2>1, <2>3, <2>4, <2>5, WriteKeeps
<1> QED BY <1>1, <1>2, <1>3, <1>4, <1>5, <1>6, <1>7 DEF Next, Continue

(***************************************************************************)
(* The write of a request that nobody has overtaken is an operation of     *)
(* ProjectHierarchy.                                                       *)
(***************************************************************************)
LEMMA FreshWrite ==
  ASSUME IInv, NEW r \in fresh,
         Insert(r) \/ (Live(req[r].node) /\ (Commit(r) \/ Drop(r)))
  PROVE  LET n == req[r].node
             q == req[r].to
         IN  /\ n \in Projects
             /\ \/ /\ Insert(r) /\ q \in Projects \cup {Top}
                   /\ AtomicCreate(n, q)
                \/ /\ Commit(r) /\ q \in Projects
                   /\ AtomicMove(n, q)
                \/ /\ Drop(r) /\ AtomicDelete(n)
<1> DEFINE n == req[r].node
           q == req[r].to
<1>1. r \in Requests /\ ~Idle(r) /\ n \in Projects /\ Fact(rows, req[r]) /\ rows \in [Projects -> Rows]
  BY JobTypes DEF IInv, TypeOK, RequestFacts
<1>2. ASSUME NEW m, TracedIn(rows, m), m \in Projects PROVE LiveIn(rows, m)
  BY <1>1, <1>2, LineHolds DEF TracedIn, Tables
<1>3. ASSUME Insert(r) PROVE q \in Projects \cup {Top} /\ AtomicCreate(n, q)
  <2>1. req[r].pc = "insert"
    BY <1>3 DEF Insert, At
  <2>2. q \in Projects \cup {Top}
    BY <1>1, <2>1, JobTypes DEF IInv
  <2>3. rows[n].live = "absent" /\ (q = Top \/ Holds(rows, q))
    BY <1>1, <2>1 DEF Fact, InsertFact
  <2>4. q = Top \/ MayHold(q)
    BY <1>2, <2>2, <2>3, InRows DEF Holds, MayHold
  <2>5. rows' = [rows EXCEPT ![n] = [live |-> "live", parent |-> q]]
    BY <1>3 DEF Insert, Write
  <2> QED BY <2>2, <2>3, <2>4, <2>5 DEF AtomicCreate
<1>4. ASSUME Commit(r), Live(n) PROVE q \in Projects /\ AtomicMove(n, q)
  <2>1. req[r].pc = "commit"
    BY <1>4 DEF Commit, At
  <2>2. CommitFact(rows, req[r])
    BY <1>1, <2>1 DEF Fact
  <2>3. q \in Projects
    BY <1>1, <2>1, <2>2, JobTypes DEF IInv, CommitFact
  <2>4. Traced(n) /\ n \notin Line(q) /\ Holds(rows, q)
    BY <2>2, InRows DEF CommitFact
  <2>5. MayHold(q)
    BY <1>2, <2>3, <2>4, InRows DEF Holds, MayHold
  <2>6. rows' = [rows EXCEPT ![n].parent = q]
    <3>1. rows' = [rows EXCEPT ![n] = [rows[n] EXCEPT !.parent = q]]
      BY <1>4 DEF Commit, Write
    <3> QED BY <3>1
  <2>7. q \notin Below(n)
    BY <2>4 DEF Below
  <2> QED BY <1>4, <2>3, <2>4, <2>5, <2>6, <2>7 DEF AtomicMove
<1>5. ASSUME Drop(r), Live(n) PROVE AtomicDelete(n)
  <2>1. req[r].pc = "drop"
    BY <1>5 DEF Drop, At
  <2>2. ChildlessIn(rows, n)
    BY <1>1, <2>1 DEF Fact, DropFact
  <2>3. Children({n}) = {}
    BY <2>2 DEF ChildlessIn, Children, Live, LiveIn
  <2>4. rows' = [rows EXCEPT ![n].live = "deleted"]
    <3>1. rows' = [rows EXCEPT ![n] = [rows[n] EXCEPT !.live = "deleted"]]
      BY <1>5 DEF Drop, Write
    <3> QED BY <3>1
  <2> QED BY <1>5, <2>3, <2>4 DEF AtomicDelete
<1> QED BY <1>1, <1>3, <1>4, <1>5
-----------------------------------------------------------------------------
THEOREM Invariance == Spec => []IInv
<1>1. IInv /\ [Next]_vars => IInv'
  BY Steps
<1> QED BY InitIInv, <1>1, PTL DEF Spec

(***************************************************************************)
(* Every variable holds what the code can put in it.                       *)
(***************************************************************************)
THEOREM Typing == Spec => []TypeOK
<1>1. IInv => TypeOK
  BY DEF IInv
<1> QED BY <1>1, Invariance, PTL

(***************************************************************************)
(* Only a request that another one's write has overtaken can write what    *)
(* CreateProject, UpdateProject or DeleteProject would not have written in *)
(* one step.                                                               *)
(***************************************************************************)
THEOREM OvertakenOnly == Spec => OnlyOvertakenWritesDiffer
<1>1. ASSUME IInv, [Next]_vars
      PROVE  [AtomicNext \/ UNCHANGED rows \/ OvertakenWrite]_vars
  <2>1. CASE UNCHANGED rows
    BY <2>1
  <2>2. ASSUME NEW r \in Requests, ~Idle(r),
               Insert(r) \/ (Live(req[r].node) /\ (Commit(r) \/ Drop(r)))
        PROVE  AtomicNext \/ OvertakenWrite
    <3>1. CASE r \in fresh
      BY <1>1, <2>2, <3>1, FreshWrite DEF AtomicNext
    <3>2. CASE r \notin fresh
      BY <2>2, <3>2 DEF OvertakenWrite
    <3> QED BY <3>1, <3>2
  <2> QED BY <1>1, <2>1, <2>2, Steps
<1> QED BY <1>1, Invariance, PTL DEF Spec, OnlyOvertakenWritesDiffer

(***************************************************************************)
(* Requests that come one at a time are atomic.                            *)
(***************************************************************************)
BusyFresh == \A r \in Requests : ~Idle(r) => r \in fresh

LEMMA BusyFreshKept ==
  ASSUME IInv, BusyFresh, [Next]_vars, \A r, s \in Requests : r = s
  PROVE  BusyFresh'
<1>0. req \in [Requests -> {IdleReq} \cup Jobs]
  BY DEF IInv, TypeOK
<1>1. CASE UNCHANGED vars
  BY <1>1 DEF BusyFresh, vars, Idle
<1>2. ASSUME NEW r \in Requests, NEW job, Start(r, job) PROVE BusyFresh'
  BY <1>2 DEF BusyFresh, Start
<1>3. ASSUME NEW r \in Requests, NEW job, Become(r, job), ~Idle(r) PROVE BusyFresh'
  <2>1. r \in fresh
    BY <1>3 DEF BusyFresh
  <2>2. job = IdleReq => req'[r].pc = "idle"
    BY <1>0, <1>3 DEF Become, IdleReq
  <2>3. job # IdleReq => r \in fresh'
    BY <1>3, <2>1 DEF Become
  <2> QED BY <2>2, <2>3 DEF BusyFresh, Idle
<1>4. ASSUME NEW r \in Requests, NEW row, Write(r, row) PROVE BusyFresh'
  <2>1. req'[r].pc = "idle"
    BY <1>0, <1>4 DEF Write, IdleReq
  <2> QED BY <2>1 DEF BusyFresh, Idle
<1>5. ASSUME NEW r \in Requests, Request(r) PROVE BusyFresh'
  BY <1>2, <1>5, StartJobs DEF IInv
<1>6. ASSUME NEW r \in Requests, Continue(r) PROVE BusyFresh'
  <2>1. ~Idle(r)
    BY <1>6 DEF Continue, CreateDepth, MoveTree, MoveDepth, MoveOwn, Insert, Commit, Drop, At, Idle
  <2>2. (\E job : Become(r, job)) \/ (\E row : Write(r, row))
    <3>1. CASE CreateDepth(r) \/ MoveTree(r) \/ MoveDepth(r) \/ MoveOwn(r)
      BY <3>1, CreateDepthJobs, MoveTreeJobs, MoveDepthJobs, MoveOwnJobs DEF Goes
    <3>2. CASE Insert(r)
      BY <3>2 DEF Insert
    <3>3. CASE Commit(r)
      BY <3>3 DEF Commit
    <3>4. CASE Drop(r)
      BY <3>4 DEF Drop
    <3> QED BY <1>6, <3>1, <3>2, <3>3, <3>4 DEF Continue
  <2> QED BY <1>3, <1>4, <2>1, <2>2
<1> QED BY <1>1, <1>5, <1>6 DEF Next

THEOREM AloneIsAtomic ==
  ASSUME \A r, s \in Requests : r = s
  PROVE  Spec => AtomicSpec
<1> DEFINE JInv == IInv /\ BusyFresh
<1>1. TreeInit => Init /\ JInv
  BY InitIInv DEF TreeInit, BusyFresh, Idle, IdleReq
<1>2. ASSUME JInv, [Next]_vars
      PROVE  JInv' /\ [AtomicNext]_rows
  <2>1. IInv' /\ BusyFresh'
    BY <1>2, Steps, BusyFreshKept
  <2>2. CASE UNCHANGED rows
    BY <2>1, <2>2
  <2>3. ASSUME NEW r \in Requests, ~Idle(r),
               Insert(r) \/ (Live(req[r].node) /\ (Commit(r) \/ Drop(r)))
        PROVE  AtomicNext
    <3>1. r \in fresh
      BY <1>2, <2>3 DEF BusyFresh
    <3> QED BY <1>2, <2>3, <3>1, FreshWrite DEF AtomicNext
  <2> QED BY <1>2, <2>1, <2>2, <2>3, Steps
<1>3. JInv /\ [Next]_vars => JInv' /\ [AtomicNext]_rows
  BY <1>2
<1> HIDE DEF JInv
<1> QED BY <1>1, <1>3, PTL DEF Spec, AtomicSpec

(***************************************************************************)
(* No cycle, no live project under a deleted one, and no project below     *)
(* MaxDepth, while no request has written on the strength of a check that  *)
(* another one's write has overtaken.                                      *)
(***************************************************************************)
HInv == IInv /\ (clean => Keeps(rows, grafted))

LEMMA HInvKept ==
  ASSUME HInv, [Next]_vars
  PROVE  HInv'
<1>1. IInv /\ IInv' /\ rows \in Tables /\ rows' \in Tables
  BY Steps DEF HInv, IInv, TypeOK, Tables
<1>2. SUFFICES ASSUME clean' PROVE Keeps(rows', grafted')
  BY <1>1 DEF HInv
<1>3. CASE UNCHANGED <<rows, clean, grafted>>
  BY <1>2, <1>3 DEF HInv
<1>4. ASSUME NEW r \in Requests, ~Idle(r),
             Insert(r) \/ (Live(req[r].node) /\ (Commit(r) \/ Drop(r)))
      PROVE  Keeps(rows', grafted')
  <2> DEFINE n == req[r].node
             q == req[r].to
  <2>1. clean /\ r \in fresh
    BY <1>2, <1>4 DEF Insert, Commit, Drop, Write
  <2>2. Keeps(rows, grafted)
    BY <2>1 DEF HInv
  <2>3. /\ n \in Projects
        /\ \/ /\ Insert(r) /\ q \in Projects \cup {Top}
              /\ AtomicCreate(n, q)
           \/ /\ Commit(r) /\ q \in Projects
              /\ AtomicMove(n, q)
           \/ /\ Drop(r) /\ AtomicDelete(n)
    BY <1>1, <1>4, <2>1, FreshWrite
  <2>4. CASE Insert(r) /\ q \in Projects \cup {Top} /\ AtomicCreate(n, q)
    <3>1. grafted' = grafted
      BY <2>4 DEF Insert
    <3>2. q # Top => TracedIn(rows, q) /\ DepthIn(rows, q) + 1 <= MaxDepth
      BY <2>4, InRows DEF AtomicCreate, MayHold
    <3>3. ~LiveIn(rows, n) /\ rows' = [rows EXCEPT ![n] = [live |-> "live", parent |-> q]]
      BY <2>4 DEF AtomicCreate, LiveIn
    <3> HIDE DEF n, q
    <3> QED BY <1>1, <2>2, <2>3, <2>4, <3>1, <3>2, <3>3, CreateKeeps
  <2>5. CASE Commit(r) /\ q \in Projects /\ AtomicMove(n, q)
    <3>1. Live(n)
      BY <2>5 DEF AtomicMove
    <3>2. grafted' = (grafted \/ Children({n}) # {})
      BY <2>5, <3>1 DEF Commit
    <3>3. ~grafted' => ~grafted /\ ChildlessIn(rows, n)
      BY <3>2 DEF ChildlessIn, Children, Live, LiveIn
    <3>4. /\ LiveIn(rows, n) /\ LiveIn(rows, q) /\ TracedIn(rows, q)
          /\ DepthIn(rows, q) + 1 <= MaxDepth
      BY <2>5, InRows DEF AtomicMove, MayHold
    <3>5. n \notin LineIn(rows, q)
      BY <2>5, InRows DEF AtomicMove, Below, MayHold
    <3>6. rows' = [rows EXCEPT ![n].parent = q]
      BY <2>5 DEF AtomicMove
    <3> HIDE DEF n, q
    <3> QED BY <1>1, <2>2, <2>3, <2>5, <3>3, <3>4, <3>5, <3>6, MoveKeeps
  <2>6. CASE Drop(r) /\ AtomicDelete(n)
    <3>1. grafted' = grafted
      BY <2>6 DEF Drop, AtomicDelete
    <3>2. ChildlessIn(rows, n)
      BY <2>6 DEF AtomicDelete, ChildlessIn, Children, Live, LiveIn
    <3>3. rows' = [rows EXCEPT ![n].live = "deleted"]
      BY <2>6 DEF AtomicDelete
    <3> HIDE DEF n, q
    <3> QED BY <1>1, <2>2, <2>3, <3>1, <3>2, <3>3, DeleteKeeps
  <2> QED BY <2>3, <2>4, <2>5, <2>6
<1> QED BY <1>1, <1>3, <1>4, Steps

THEOREM HierarchyKept == Spec => []HierarchyHolds
<1>1. TreeInit => HInv
  <2> SUFFICES ASSUME TreeInit PROVE Keeps(rows, grafted)
    BY InitIInv DEF HInv
  <2> QED BY DEF TreeInit, Init, Keeps, LiveIn
<1>2. HInv /\ [Next]_vars => HInv'
  BY HInvKept
<1>3. HInv => HierarchyHolds
  BY InRows DEF HInv, HierarchyHolds, Keeps
<1> QED BY <1>1, <1>2, <1>3, PTL DEF Spec
=============================================================================
