-------------------------- MODULE CheckpointTotals --------------------------
(***************************************************************************)
(* Why the total a reader sees is right: it counts no second twice, leaves *)
(* out none, and goes down only when the server rejects a session.         *)
(*                                                                         *)
(* A home snapshot is a cut of the server's history: what it covers of     *)
(* each session only grows with its revision, and so does the rest of its  *)
(* total, which other devices contributed.  What is displayed is that rest *)
(* plus, for each session, the larger of the run and of what is covered.   *)
(***************************************************************************)
EXTENDS CheckpointSyncProofs, FiniteSetTheorems, WellFoundedInduction

-----------------------------------------------------------------------------
(* Sums over a finite set, as SumFunction adds them up: one element, the   *)
(* one CHOOSE takes, and the sum over the others.                          *)

Pick(r) == CHOOSE x \in r : TRUE

Others(r) == r \ {Pick(r)}

\* it holds the sum of f over each subset of S.
Adds(S, f, it) ==
  \A r \in SUBSET S : it[r] = IF r = {} THEN 0 ELSE f[Pick(r)] + it[Others(r)]

\* A non-empty set of subsets of a finite set has a smallest one.
LEMMA SmallestSubset ==
  ASSUME NEW S, IsFiniteSet(S), NEW B, B \subseteq SUBSET S, B # {}
  PROVE  \E r \in B : \A q \in B : ~(q \subseteq r /\ q # r)
<1>1. IsWellFoundedOn(StrictSubsetOrdering(S), SUBSET S)
  BY FS_StrictSubsetOrderingWellFounded, FS_FiniteSubsetsOfFinite
<1>2. PICK r \in B : \A q \in B : ~(<<q, r>> \in StrictSubsetOrdering(S))
  BY <1>1, WFMin
<1>3. ASSUME NEW q \in B, q \subseteq r, q # r PROVE FALSE
  <2>1. <<q, r>> \in StrictSubsetOrdering(S)
    BY <1>3 DEF StrictSubsetOrdering
  <2> QED
    BY <1>2, <2>1
<1> QED
  BY <1>3

LEMMA OthersSmaller ==
  ASSUME NEW r, r # {}
  PROVE  Pick(r) \in r /\ Others(r) \subseteq r /\ Others(r) # r
BY DEF Pick, Others

\* What holds of the empty set, and of a set when it holds without the element
\* that is picked, holds of every subset.
LEMMA SubsetsByPick ==
  ASSUME NEW S, IsFiniteSet(S), NEW G, {} \in G,
         \A r \in SUBSET S : r # {} /\ Others(r) \in G => r \in G
  PROVE  SUBSET S \subseteq G
<1> DEFINE B == {r \in SUBSET S : r \notin G}
<1> SUFFICES ASSUME B # {} PROVE FALSE
  OBVIOUS
<1>1. PICK r \in B : \A q \in B : ~(q \subseteq r /\ q # r)
  <2>1. B \subseteq SUBSET S /\ B # {}
    OBVIOUS
  <2> HIDE DEF B
  <2> QED
    BY <2>1, SmallestSubset
<1>2. r # {} /\ r \in SUBSET S
  BY <1>1
<1>3. Others(r) \in SUBSET S /\ Others(r) \subseteq r /\ Others(r) # r
  BY <1>2, OthersSmaller
<1> QED
  BY <1>1, <1>2, <1>3

\* Two ways to add up agree wherever both are defined.
LEMMA AddsAgree ==
  ASSUME NEW S, IsFiniteSet(S), NEW f, NEW A, NEW B, A \subseteq S, B \subseteq S,
         NEW a, NEW b, Adds(A, f, a), Adds(B, f, b)
  PROVE  \A r \in SUBSET S : r \subseteq A /\ r \subseteq B => a[r] = b[r]
<1> DEFINE G == {r \in SUBSET S : r \subseteq A /\ r \subseteq B => a[r] = b[r]}
<1>1. {} \in G
  BY DEF Adds
<1>2. ASSUME NEW r \in SUBSET S, r # {}, Others(r) \in G PROVE r \in G
  <2>1. Others(r) \subseteq r
    BY <1>2, OthersSmaller
  <2>2. ASSUME r \subseteq A, r \subseteq B PROVE a[r] = b[r]
    <3>1. a[r] = f[Pick(r)] + a[Others(r)] /\ b[r] = f[Pick(r)] + b[Others(r)]
      BY <1>2, <2>2 DEF Adds
    <3>2. a[Others(r)] = b[Others(r)]
      BY <1>2, <2>1, <2>2
    <3> QED
      BY <3>1, <3>2
  <2> QED
    BY <2>2
<1> HIDE DEF G
<1>3. SUBSET S \subseteq G
  BY <1>1, <1>2, SubsetsByPick
<1> QED
  BY <1>3 DEF G

\* Integers over a finite set can be added up.
LEMMA AddsExists ==
  ASSUME NEW S, IsFiniteSet(S), NEW f \in [S -> Int]
  PROVE  \E it \in [SUBSET S -> Int] : Adds(S, f, it)
<1> DEFINE B == {r \in SUBSET S : ~ \E it \in [SUBSET r -> Int] : Adds(r, f, it)}
<1> SUFFICES ASSUME B # {} PROVE FALSE
  OBVIOUS
<1>1. PICK T \in B : \A q \in B : ~(q \subseteq T /\ q # T)
  <2>1. B \subseteq SUBSET S /\ B # {}
    OBVIOUS
  <2> HIDE DEF B
  <2> QED
    BY <2>1, SmallestSubset
<1>2. \A q \in SUBSET T : q # T => \E it \in [SUBSET q -> Int] : Adds(q, f, it)
  BY <1>1
<1> DEFINE F(q) == CHOOSE it \in [SUBSET q -> Int] : Adds(q, f, it)
           value(r) == IF r = {} THEN 0 ELSE f[Pick(r)] + F(Others(r))[Others(r)]
           sum == [r \in SUBSET T |-> value(r)]
<1>3. \A q \in SUBSET T : q # T => F(q) \in [SUBSET q -> Int] /\ Adds(q, f, F(q))
  BY <1>2
<1> HIDE DEF F
<1>4. T \in SUBSET S
  BY <1>1
<1>5. ASSUME NEW r \in SUBSET T, r # {}
      PROVE  /\ Pick(r) \in S /\ Others(r) \in SUBSET T /\ Others(r) # T
             /\ Others(r) \subseteq r
  BY <1>4, <1>5, OthersSmaller
<1>6. ASSUME NEW r \in SUBSET T, r # {}
      PROVE  F(Others(r))[Others(r)] = sum[Others(r)] /\ f[Pick(r)] \in Int
             /\ F(Others(r))[Others(r)] \in Int
  <2> DEFINE q == Others(r)
  <2>1. q \in SUBSET T /\ q # T /\ Adds(q, f, F(q)) /\ q \in SUBSET q
        /\ F(q) \in [SUBSET q -> Int] /\ q \in SUBSET S
    BY <1>3, <1>4, <1>5, <1>6
  <2>2. f[Pick(r)] \in Int /\ F(q)[q] \in Int
    BY <1>5, <1>6, <2>1
  <2> HIDE DEF q
  <2>3. F(q)[q] = IF q = {} THEN 0 ELSE f[Pick(q)] + F(q)[Others(q)]
    BY <2>1 DEF Adds
  <2>4. ASSUME q # {} PROVE F(q)[Others(q)] = F(Others(q))[Others(q)]
    <3>1. Others(q) \in SUBSET T /\ Others(q) # T /\ Others(q) \subseteq q
      BY <1>5, <2>1, <2>4
    <3>2. Adds(Others(q), f, F(Others(q)))
      BY <1>3, <3>1
    <3>3. Others(q) \subseteq S /\ Others(q) \in SUBSET S
      BY <1>4, <3>1
    <3> QED
      BY <2>1, <3>1, <3>2, <3>3, AddsAgree
  <2>5. sum[q] = value(q)
    BY <2>1
  <2> QED
    BY <2>2, <2>3, <2>4, <2>5 DEF q
<1>7. sum \in [SUBSET T -> Int]
  <2>1. ASSUME NEW r \in SUBSET T PROVE value(r) \in Int
    <3>1. CASE r = {}
      BY <3>1
    <3>2. CASE r # {}
      <4>1. f[Pick(r)] \in Int /\ F(Others(r))[Others(r)] \in Int
        BY <1>6, <3>2
      <4> QED
        BY <3>2, <4>1
    <3> QED
      BY <3>1, <3>2
  <2> HIDE DEF value
  <2> QED
    BY <2>1
<1>8. Adds(T, f, sum)
  BY <1>5, <1>6 DEF Adds
<1> QED
  BY <1>1, <1>7, <1>8

\* SumFunction adds up.
LEMMA SumUnfold ==
  ASSUME NEW S, IsFiniteSet(S), NEW f \in [S -> Int]
  PROVE  \E it \in [SUBSET S -> Int] : Adds(S, f, it) /\ SumFunction(f) = it[S]
<1> DEFINE step(it) == [r \in SUBSET S |-> IF r = {} THEN 0
                          ELSE f[CHOOSE x \in r : TRUE] + it[r \ {CHOOSE x \in r : TRUE}]]
           iter == CHOOSE it : it = step(it)
<1>1. SumFunction(f) = iter[S]
  <2>1. DOMAIN f = S
    OBVIOUS
  <2>2. SumFunctionOnSet(f, S) = iter[S]
    BY DEF SumFunctionOnSet, FoldFunctionOnSet, MapThenFoldSet
  <2> QED
    BY <2>1, <2>2 DEF SumFunction
<1>2. PICK it \in [SUBSET S -> Int] : Adds(S, f, it)
  BY AddsExists
<1>3. it = step(it)
  BY <1>2 DEF Adds, Pick, Others
<1> HIDE DEF step
<1>4. iter = step(iter)
  BY <1>3
<1> HIDE DEF iter
<1>5. Adds(S, f, iter)
  BY <1>4 DEF step, Adds, Pick, Others
<1>6. iter[S] = it[S]
  BY <1>2, <1>5, AddsAgree
<1> QED
  BY <1>1, <1>2, <1>6

\* A sum of integers is an integer.
LEMMA SumTyped ==
  ASSUME NEW S, IsFiniteSet(S), NEW f \in [S -> Int]
  PROVE  SumFunction(f) \in Int
<1>1. PICK it \in [SUBSET S -> Int] : SumFunction(f) = it[S]
  BY SumUnfold
<1> QED
  BY <1>1

\* A sum of larger terms is larger.
LEMMA SumMonotone ==
  ASSUME NEW S, IsFiniteSet(S), NEW f \in [S -> Int], NEW g \in [S -> Int],
         \A s \in S : f[s] <= g[s]
  PROVE  SumFunction(f) <= SumFunction(g)
<1>1. PICK a \in [SUBSET S -> Int] : Adds(S, f, a) /\ SumFunction(f) = a[S]
  BY SumUnfold
<1>2. PICK b \in [SUBSET S -> Int] : Adds(S, g, b) /\ SumFunction(g) = b[S]
  BY SumUnfold
<1> DEFINE G == {r \in SUBSET S : a[r] <= b[r]}
<1>3. {} \in G
  <2>1. {} \in SUBSET S
    OBVIOUS
  <2>2. a[{}] = 0 /\ b[{}] = 0
    BY <1>1, <1>2, <2>1 DEF Adds
  <2> QED
    BY <2>1, <2>2
<1>4. ASSUME NEW r \in SUBSET S, r # {}, Others(r) \in G PROVE r \in G
  <2>1. a[r] = f[Pick(r)] + a[Others(r)] /\ b[r] = g[Pick(r)] + b[Others(r)]
    BY <1>1, <1>2, <1>4 DEF Adds
  <2>2. Pick(r) \in S /\ Others(r) \in SUBSET S
    BY <1>4, OthersSmaller
  <2>3. f[Pick(r)] <= g[Pick(r)] /\ a[Others(r)] <= b[Others(r)]
    BY <1>4, <2>2
  <2>4. f[Pick(r)] \in Int /\ g[Pick(r)] \in Int /\ a[Others(r)] \in Int /\ b[Others(r)] \in Int
    BY <2>2
  <2> QED
    BY <2>1, <2>3, <2>4
<1> HIDE DEF G
<1>5. SUBSET S \subseteq G
  BY <1>3, <1>4, SubsetsByPick
<1> QED
  BY <1>1, <1>2, <1>5 DEF G

\* The sum of sums is the sum of the terms' sums.
LEMMA SumAdd ==
  ASSUME NEW S, IsFiniteSet(S), NEW f \in [S -> Int], NEW g \in [S -> Int],
         NEW h \in [S -> Int], \A s \in S : h[s] = f[s] + g[s]
  PROVE  SumFunction(h) = SumFunction(f) + SumFunction(g)
<1>1. PICK a \in [SUBSET S -> Int] : Adds(S, f, a) /\ SumFunction(f) = a[S]
  BY SumUnfold
<1>2. PICK b \in [SUBSET S -> Int] : Adds(S, g, b) /\ SumFunction(g) = b[S]
  BY SumUnfold
<1>3. PICK c \in [SUBSET S -> Int] : Adds(S, h, c) /\ SumFunction(h) = c[S]
  BY SumUnfold
<1> DEFINE G == {r \in SUBSET S : c[r] = a[r] + b[r]}
<1>4. {} \in G
  <2>1. {} \in SUBSET S
    OBVIOUS
  <2>2. a[{}] = 0 /\ b[{}] = 0 /\ c[{}] = 0
    BY <1>1, <1>2, <1>3, <2>1 DEF Adds
  <2> QED
    BY <2>1, <2>2
<1>5. ASSUME NEW r \in SUBSET S, r # {}, Others(r) \in G PROVE r \in G
  <2>1. /\ a[r] = f[Pick(r)] + a[Others(r)] /\ b[r] = g[Pick(r)] + b[Others(r)]
        /\ c[r] = h[Pick(r)] + c[Others(r)]
    BY <1>1, <1>2, <1>3, <1>5 DEF Adds
  <2>2. Pick(r) \in S /\ Others(r) \in SUBSET S
    BY <1>5, OthersSmaller
  <2>3. h[Pick(r)] = f[Pick(r)] + g[Pick(r)] /\ c[Others(r)] = a[Others(r)] + b[Others(r)]
    BY <1>5, <2>2
  <2>4. f[Pick(r)] \in Int /\ g[Pick(r)] \in Int /\ a[Others(r)] \in Int /\ b[Others(r)] \in Int
    BY <2>2
  <2> QED
    BY <2>1, <2>3, <2>4
<1> HIDE DEF G
<1>6. SUBSET S \subseteq G
  BY <1>4, <1>5, SubsetsByPick
<1> QED
  BY <1>1, <1>2, <1>3, <1>6 DEF G

\* The sum of nothing.
LEMMA SumZero ==
  ASSUME NEW S, IsFiniteSet(S)
  PROVE  SumFunction([s \in S |-> 0]) = 0
<1> DEFINE zero == [s \in S |-> 0]
<1>1. zero \in [S -> Int] /\ \A s \in S : zero[s] = zero[s] + zero[s]
  OBVIOUS
<1> HIDE DEF zero
<1>2. SumFunction(zero) \in Int
  BY <1>1, SumTyped
<1>3. SumFunction(zero) = SumFunction(zero) + SumFunction(zero)
  BY <1>1, SumAdd
<1>4. \A n \in Int : n = n + n => n = 0
  OBVIOUS
<1>5. SumFunction(zero) = 0
  BY <1>2, <1>3, <1>4
<1> QED
  BY <1>5 DEF zero

\* When one term changes, the sum changes by as much.
LEMMA SumChange ==
  ASSUME NEW S, IsFiniteSet(S), NEW f \in [S -> Int], NEW g \in [S -> Int], NEW x \in S,
         \A s \in S : s # x => g[s] = f[s]
  PROVE  SumFunction(g) = SumFunction(f) + (g[x] - f[x])
<1>1. PICK a \in [SUBSET S -> Int] : Adds(S, f, a) /\ SumFunction(f) = a[S]
  BY SumUnfold
<1>2. PICK b \in [SUBSET S -> Int] : Adds(S, g, b) /\ SumFunction(g) = b[S]
  BY SumUnfold
<1> DEFINE G == {r \in SUBSET S : b[r] = a[r] + (IF x \in r THEN g[x] - f[x] ELSE 0)}
<1>3. {} \in G
  <2>1. {} \in SUBSET S
    OBVIOUS
  <2>2. a[{}] = 0 /\ b[{}] = 0
    BY <1>1, <1>2, <2>1 DEF Adds
  <2> QED
    BY <2>1, <2>2
<1>4. ASSUME NEW r \in SUBSET S, r # {}, Others(r) \in G PROVE r \in G
  <2>1. a[r] = f[Pick(r)] + a[Others(r)] /\ b[r] = g[Pick(r)] + b[Others(r)]
    BY <1>1, <1>2, <1>4 DEF Adds
  <2>2. Pick(r) \in S /\ Pick(r) \in r /\ Others(r) \in SUBSET S /\ Others(r) = r \ {Pick(r)}
    BY <1>4, OthersSmaller DEF Others
  <2>3. b[Others(r)] = a[Others(r)] + (IF x \in Others(r) THEN g[x] - f[x] ELSE 0)
    BY <1>4
  <2>4. /\ f[Pick(r)] \in Int /\ g[Pick(r)] \in Int /\ f[x] \in Int /\ g[x] \in Int
        /\ a[Others(r)] \in Int /\ b[Others(r)] \in Int
    BY <2>2
  <2>5. CASE Pick(r) = x
    BY <2>1, <2>2, <2>3, <2>4, <2>5
  <2>6. CASE Pick(r) # x
    <3>1. g[Pick(r)] = f[Pick(r)] /\ (x \in Others(r) <=> x \in r)
      BY <2>2, <2>6
    <3> QED
      BY <2>1, <2>3, <2>4, <3>1
  <2> QED
    BY <2>5, <2>6
<1> HIDE DEF G
<1>5. SUBSET S \subseteq G
  BY <1>3, <1>4, SubsetsByPick
<1> QED
  BY <1>1, <1>2, <1>5 DEF G

-----------------------------------------------------------------------------
(* The invariant.                                                          *)

Credits == [s \in Sids |-> sessions[s].seconds]

Snapshots == {home} \cup {gets[c] : c \in {d \in Readers : gets[d] # NoHome}}

\* What a snapshot's total holds beyond the sessions it covers.
Rest(h) == h.total - SumFunction(h.covered)

\* A row that is not in use spans nothing.
FreshRows == \A s \in Sids : rows[s].state = "none" => rows[s].start = rows[s].beat

\* The server's total is the sum of what it credited (creditCheckpoint).
TotalAdds == total = remote + SumFunction(Credits)

\* A snapshot is no further than the server, and is the server's state while
\* the revision is the same.
Behind(h) ==
  /\ h.revision <= revision
  /\ \A s \in Sids : h.covered[s] <= sessions[s].seconds
  /\ 0 <= Rest(h) /\ Rest(h) <= remote
  /\ h.revision = revision => h.covered = Credits /\ Rest(h) = remote

\* Of two snapshots the one with the greater revision holds at least as much
\* of every session and of the rest.
Before(a, b) ==
  a.revision <= b.revision =>
    /\ \A s \in Sids : a.covered[s] <= b.covered[s]
    /\ Rest(a) <= Rest(b)

Cuts == \A a \in Snapshots : Behind(a) /\ \A b \in Snapshots : Before(a, b)

TInv == IInv /\ FreshRows /\ TotalAdds /\ Cuts

-----------------------------------------------------------------------------
(* Lemmas about the state.                                                 *)

LEMMA SnapshotsTyped ==
  ASSUME TypeOK
  PROVE  Snapshots \subseteq Snapshot
BY DEF TypeOK, Snapshots

LEMMA SnapshotParts ==
  ASSUME NEW h \in Snapshot
  PROVE  /\ h.revision \in Nat /\ h.total \in Int /\ h.covered \in [Sids -> Int]
         /\ \A s \in Sids : h.covered[s] \in Nat
         /\ SumFunction(h.covered) \in Int /\ Rest(h) \in Int
<1>1. /\ h.revision \in Nat /\ h.total \in Int /\ h.covered \in [Sids -> Nat]
  BY DEF Snapshot
<1>2. h.covered \in [Sids -> Int] /\ \A s \in Sids : h.covered[s] \in Nat
  BY <1>1
<1>3. SumFunction(h.covered) \in Int
  BY <1>2, SumTyped, SyncAssumption
<1> QED
  BY <1>1, <1>2, <1>3 DEF Rest

LEMMA CreditsTyped ==
  ASSUME TypeOK
  PROVE  /\ Credits \in [Sids -> Int] /\ Credits \in [Sids -> Nat]
         /\ \A s \in Sids : Credits[s] = sessions[s].seconds /\ sessions[s].seconds \in Nat
         /\ SumFunction(Credits) \in Int
<1>1. \A s \in Sids : sessions[s].seconds \in Nat
  BY DEF TypeOK, ServerSession
<1>2. /\ Credits \in [Sids -> Int] /\ Credits \in [Sids -> Nat]
      /\ \A s \in Sids : Credits[s] = sessions[s].seconds
  BY <1>1 DEF Credits
<1> QED
  BY <1>1, <1>2, SumTyped, SyncAssumption

LEMMA SpansTyped ==
  ASSUME IInv, NEW s \in Sids
  PROVE  Span(rows[s]) \in Nat
<1>1. rows[s].start \in Nat /\ rows[s].beat \in Nat /\ rows[s].start <= rows[s].beat
  BY DEF IInv, TypeOK, Row, RowsWell
<1> QED
  BY <1>1, SpanNat

\* What the server credits of a run, the run has (creditCheckpoint).
LEMMA CreditedIsRead ==
  ASSUME IInv, NEW s \in Sids
  PROVE  sessions[s].seconds <= Span(rows[s])
<1>1. rows[s] \in Row /\ sessions[s] \in ServerSession
  BY DEF IInv, TypeOK
<1>2. CASE ~Stored(s)
  <2>1. sessions[s].seconds = 0
    BY <1>2 DEF IInv, SessionsWell, NoSession
  <2> QED
    BY <2>1, SpansTyped
<1>3. CASE Stored(s)
  <2>1. SessionCopy(s) \in Versions
    BY <1>3 DEF Versions
  <2>2. 0 < sessions[s].rev /\ sessions[s].rev <= rows[s].rev
    BY <1>1, <1>3, <2>1 DEF Stored, IInv, VersionsWell, SessionCopy
  <2>3. s \in Used
    BY <1>1, <2>2 DEF Used, IInv, RowsWell, Row, ServerSession
  <2>4. CopyOf(s) \in Versions
    BY <2>3 DEF Versions
  <2>5. Extends(SessionCopy(s), CopyOf(s))
    BY <2>1, <2>2, <2>4 DEF IInv, OneLine, SessionCopy, CopyOf
  <2>6. sessions[s].start = rows[s].start /\ sessions[s].beat <= rows[s].beat
    BY <2>5 DEF Extends, SessionCopy, CopyOf
  <2>7. sessions[s].start <= sessions[s].beat
    BY <2>1 DEF IInv, VersionsWell, SessionCopy
  <2>8. /\ sessions[s].start \in Nat /\ sessions[s].beat \in Nat /\ rows[s].beat \in Nat
    BY <1>1 DEF Row, ServerSession
  <2> DEFINE a == sessions[s].beat - sessions[s].start
             b == rows[s].beat - rows[s].start
  <2>9. a \in Nat /\ b \in Nat /\ a <= b
    BY <2>6, <2>7, <2>8
  <2>10. sessions[s].seconds = Seconds(a) /\ Span(rows[s]) = Seconds(b)
    BY <1>3 DEF IInv, SessionsWell, Span
  <2> HIDE DEF a, b
  <2> QED
    BY <2>9, <2>10, SecondsGrow
<1> QED
  BY <1>2, <1>3

-----------------------------------------------------------------------------
(* What the steps do.                                                      *)

\* The server stays as it is, or moves on to the next revision with at least
\* as much of every session, and its total by as much as its sessions.
Moves ==
  \/ UNCHANGED <<sessions, total, revision, remote>>
  \/ /\ revision' = revision + 1 /\ remote <= remote'
     /\ \A s \in Sids : sessions[s].seconds <= sessions'[s].seconds
     /\ total' - remote' - SumFunction(Credits)' = total - remote - SumFunction(Credits)

LEMMA SaveMoves ==
  ASSUME IInv, TypeOK', NEW r \in Copies, Save(r)
  PROVE  Moves
<1>1. CASE UNCHANGED server
  BY <1>1 DEF server, Moves
<1>2. CASE Credit(r) /\ Advances(r)
  <2> DEFINE x == r.sid
  <2>1. x \in Sids /\ Span(r) \in Nat
    BY CopiesWell, SpanNat DEF Copy
  <2>2. sessions'[x].seconds = Span(r) /\ \A s \in Sids : s # x => sessions'[s] = sessions[s]
    BY <1>2, <2>1 DEF Credit, IInv, TypeOK
  <2>3. \A s \in Sids : sessions[s].seconds \in Nat /\ sessions'[s].seconds \in Nat
    BY DEF IInv, TypeOK, ServerSession
  <2>4. total' = total + (Span(r) - sessions[x].seconds) /\ revision' = revision + 1
        /\ remote' = remote /\ total \in Int /\ remote \in Nat
    BY <1>2 DEF Credit, IInv, TypeOK
  <2>5. sessions[x].seconds <= Span(r)
    BY <1>2, <2>1, <2>3 DEF Advances, Rejects, Shortens
  <2> HIDE DEF x
  <2>6. /\ Credits \in [Sids -> Int] /\ SumFunction(Credits) \in Int
        /\ \A s \in Sids : Credits[s] = sessions[s].seconds
    BY CreditsTyped DEF IInv
  <2>7. /\ Credits' \in [Sids -> Int] /\ \A s \in Sids : Credits'[s] = sessions'[s].seconds
    BY <2>3 DEF Credits
  <2>8. SumFunction(Credits') = SumFunction(Credits) + (Credits'[x] - Credits[x])
    BY <2>1, <2>2, <2>6, <2>7, SumChange, SyncAssumption
  <2>9. SumFunction(Credits') = SumFunction(Credits) + (Span(r) - sessions[x].seconds)
    BY <2>1, <2>2, <2>6, <2>7, <2>8
  <2>10. total' - remote' - SumFunction(Credits)' = total - remote - SumFunction(Credits)
    BY <2>1, <2>3, <2>4, <2>6, <2>9
  <2>11. \A s \in Sids : sessions[s].seconds <= sessions'[s].seconds
    BY <2>1, <2>2, <2>3, <2>5
  <2> QED
    BY <2>4, <2>10, <2>11 DEF Moves
<1> QED
  BY <1>1, <1>2 DEF Save

LEMMA ServerMoves ==
  ASSUME IInv, TypeOK', [Next]_vars
  PROVE  Moves
<1>1. CASE UNCHANGED <<sessions, total, revision, remote>>
  BY <1>1 DEF Moves
<1>2. ASSUME NEW c \in Tabs, Serve(c) PROVE Moves
  <2>1. flight[c] \in Copies /\ Save(flight[c])
    BY <1>2 DEF Serve, Copies
  <2> QED
    BY <2>1, SaveMoves
<1>3. ASSUME NEW r \in stray, ServeStray(r) PROVE Moves
  <2>1. r \in Copies /\ Save(r)
    BY <1>3 DEF ServeStray, Copies
  <2> QED
    BY <2>1, SaveMoves
<1>4. CASE OtherDevice
  <2>1. /\ revision' = revision + 1 /\ remote' = remote + 1 /\ total' = total + 1
        /\ sessions' = sessions
    BY <1>4 DEF OtherDevice
  <2>2. Credits' = Credits
    BY <2>1 DEF Credits
  <2>3. /\ total \in Int /\ remote \in Nat /\ SumFunction(Credits) \in Int
        /\ \A s \in Sids : sessions[s].seconds \in Nat
    BY CreditsTyped DEF IInv, TypeOK
  <2>4. total' - remote' - SumFunction(Credits)' = total - remote - SumFunction(Credits)
    BY <2>1, <2>2, <2>3
  <2> QED
    BY <2>1, <2>3, <2>4 DEF Moves
<1> QED
  BY <1>1, <1>2, <1>3, <1>4
     DEF Next, Local, Upload, Other, Claim, Checkpoint, Recover, StartUpload, StopUpload,
         GiveUp, Receive, Refuse, Send, RemoveItem, RequestHome, ApplyHome, LoseHome,
         client, server, shown, vars

\* A snapshot stays behind whatever the server does.
LEMMA BehindKept ==
  ASSUME IInv, TypeOK', Moves, TotalAdds
  PROVE  \A h \in Snapshot : Behind(h) => Behind(h)'
<1> SUFFICES ASSUME NEW h \in Snapshot, Behind(h) PROVE Behind(h)'
  OBVIOUS
<1>1. /\ h.revision <= revision /\ 0 <= Rest(h) /\ Rest(h) <= remote
      /\ \A s \in Sids : h.covered[s] <= sessions[s].seconds
      /\ h.revision = revision => h.covered = Credits /\ Rest(h) = remote
  BY DEF Behind
<1>2. /\ h.revision \in Nat /\ Rest(h) \in Int /\ \A s \in Sids : h.covered[s] \in Nat
  BY SnapshotParts
<1>3. Rest(h)' = Rest(h)
  BY DEF Rest
<1>4. CASE UNCHANGED <<sessions, total, revision, remote>>
  <2>1. Credits' = Credits
    BY <1>4 DEF Credits
  <2> QED
    BY <1>1, <1>3, <1>4, <2>1 DEF Behind
<1>5. CASE /\ revision' = revision + 1 /\ remote <= remote'
           /\ \A s \in Sids : sessions[s].seconds <= sessions'[s].seconds
  <2>1. /\ revision \in Nat /\ remote \in Nat /\ remote' \in Nat
        /\ \A s \in Sids : sessions[s].seconds \in Nat /\ sessions'[s].seconds \in Nat
    BY DEF IInv, TypeOK, ServerSession
  <2>2. h.revision <= revision' /\ h.revision # revision'
    BY <1>1, <1>2, <1>5, <2>1
  <2>3. 0 <= Rest(h) /\ Rest(h) <= remote'
    BY <1>1, <1>2, <1>5, <2>1
  <2>4. \A s \in Sids : h.covered[s] <= sessions'[s].seconds
    BY <1>1, <1>2, <1>5, <2>1
  <2> QED
    BY <1>3, <2>2, <2>3, <2>4 DEF Behind
<1> QED
  BY <1>4, <1>5 DEF Moves

LEMMA TotalKept ==
  ASSUME IInv, TypeOK', Moves, TotalAdds
  PROVE  TotalAdds'
<1>1. CASE UNCHANGED <<sessions, total, revision, remote>>
  <2>1. Credits' = Credits
    BY <1>1 DEF Credits
  <2> QED
    BY <1>1, <2>1 DEF TotalAdds
<1>2. CASE total' - remote' - SumFunction(Credits)' = total - remote - SumFunction(Credits)
  <2>1. /\ total \in Int /\ remote \in Nat /\ total' \in Int /\ remote' \in Nat
    BY DEF IInv, TypeOK
  <2>2. SumFunction(Credits) \in Int
    BY CreditsTyped DEF IInv
  <2>3. SumFunction(Credits)' \in Int
    <3>1. Credits' \in [Sids -> Int]
      BY DEF Credits, TypeOK, ServerSession
    <3> QED
      BY <3>1, SumTyped, SyncAssumption
  <2>4. total = remote + SumFunction(Credits)
    BY DEF TotalAdds
  <2>5. total - remote - SumFunction(Credits) = 0
    BY <2>1, <2>2, <2>4
  <2>6. total' = remote' + SumFunction(Credits)'
    BY <1>2, <2>1, <2>3, <2>5
  <2> QED
    BY <2>6 DEF TotalAdds
<1> QED
  BY <1>1, <1>2 DEF Moves

\* The snapshot the server would answer with (RequestHome).
Now == [revision |-> revision, total |-> total, covered |-> Credits]

LEMMA NowTyped ==
  ASSUME TypeOK
  PROVE  Now \in Snapshot
BY CreditsTyped DEF TypeOK, Now, Snapshot

LEMMA NowIsCut ==
  ASSUME IInv, TotalAdds
  PROVE  /\ Behind(Now)
         /\ \A h \in Snapshot : Behind(h) => Before(h, Now) /\ Before(Now, h)
<1>1. /\ Now.revision = revision /\ Now.total = total /\ Now.covered = Credits
  BY DEF Now
<1>2. Rest(Now) = remote
  <2>1. total \in Int /\ remote \in Nat /\ SumFunction(Credits) \in Int
    BY CreditsTyped DEF IInv, TypeOK
  <2> QED
    BY <1>1, <2>1 DEF Rest, TotalAdds
<1>3. /\ \A s \in Sids : Credits[s] = sessions[s].seconds /\ sessions[s].seconds \in Nat
      /\ revision \in Nat /\ remote \in Nat
  BY CreditsTyped DEF IInv, TypeOK
<1>4. Behind(Now)
  BY <1>1, <1>2, <1>3 DEF Behind
<1>5. ASSUME NEW h \in Snapshot, Behind(h)
      PROVE  Before(h, Now) /\ Before(Now, h)
  <2>1. h.revision \in Nat /\ Rest(h) \in Int
    BY SnapshotParts
  <2>2. Before(h, Now)
    BY <1>1, <1>2, <1>3, <1>5 DEF Before, Behind
  <2>3. Before(Now, h)
    <3> SUFFICES ASSUME revision <= h.revision
                 PROVE  /\ \A s \in Sids : Credits[s] <= h.covered[s]
                        /\ remote <= Rest(h)
      BY <1>1, <1>2 DEF Before
    <3>1. h.revision = revision
      BY <1>3, <1>5, <2>1 DEF Behind
    <3>2. h.covered = Credits /\ Rest(h) = remote
      BY <1>5, <3>1 DEF Behind
    <3> QED
      BY <1>3, <3>2
  <2> QED
    BY <2>2, <2>3
<1> QED
  BY <1>4, <1>5

\* Which snapshots a step leaves: those there were, and an answer at most.
LEMMA SnapshotsAfter ==
  ASSUME IInv, TypeOK', [Next]_vars
  PROVE  \/ Snapshots' \subseteq Snapshots
         \/ /\ Snapshots' \subseteq Snapshots \cup {Now}
            /\ UNCHANGED <<sessions, total, revision, remote>>
<1>1. CASE UNCHANGED shown
  BY <1>1 DEF shown, Snapshots
<1>2. ASSUME NEW c \in Readers, RequestHome(c)
      PROVE  /\ Snapshots' \subseteq Snapshots \cup {Now}
             /\ UNCHANGED <<sessions, total, revision, remote>>
  <2>1. /\ gets' = [gets EXCEPT ![c] = Now] /\ home' = home
        /\ UNCHANGED <<sessions, total, revision, remote>>
    BY <1>2 DEF RequestHome, Now, Credits, server
  <2>2. gets \in [Readers -> Snapshot \cup {NoHome}]
    BY DEF IInv, TypeOK
  <2> QED
    BY <2>1, <2>2 DEF Snapshots
<1>3. ASSUME NEW c \in Readers, ApplyHome(c) \/ LoseHome(c)
      PROVE  Snapshots' \subseteq Snapshots
  <2>1. gets' = [gets EXCEPT ![c] = NoHome] /\ gets \in [Readers -> Snapshot \cup {NoHome}]
    BY <1>3 DEF ApplyHome, LoseHome, IInv, TypeOK
  <2>2. home' \in Snapshots
    BY <1>3 DEF ApplyHome, LoseHome, Snapshots
  <2> QED
    BY <2>1, <2>2 DEF Snapshots
<1> QED
  BY <1>1, <1>2, <1>3
     DEF Next, Local, Upload, Other, Claim, Checkpoint, Recover, StartUpload, StopUpload,
         GiveUp, Receive, Refuse, Send, Serve, ServeStray, OtherDevice, RemoveItem, vars

LEMMA CutsKept ==
  ASSUME IInv, TypeOK', TotalAdds, Cuts, [Next]_vars
  PROVE  Cuts'
<1>1. Moves
  BY ServerMoves
<1>2. \A h \in Snapshot : Behind(h) => Behind(h)'
  BY <1>1, BehindKept
<1>3. Snapshots \subseteq Snapshot
  BY SnapshotsTyped DEF IInv
<1>4. /\ \A a \in Snapshots : Behind(a)
      /\ \A a, b \in Snapshots : Before(a, b)
  BY DEF Cuts
<1>5. Now \in Snapshot /\ Behind(Now)
      /\ \A h \in Snapshot : Behind(h) => Before(h, Now) /\ Before(Now, h)
  BY NowTyped, NowIsCut DEF IInv
<1> DEFINE All == Snapshots \cup {Now}
<1>6. \A a \in All : a \in Snapshot /\ Behind(a)
  BY <1>3, <1>4, <1>5
<1>7. \A a, b \in All : Before(a, b)
  BY <1>3, <1>4, <1>5, <1>6
<1>8. Snapshots' \subseteq All
  BY SnapshotsAfter
<1> HIDE DEF All
<1>9. \A a \in Snapshots' : Behind(a)'
  BY <1>2, <1>6, <1>8
<1>10. \A a, b \in Snapshots' : Before(a, b)'
  BY <1>7, <1>8 DEF Before, Rest
<1> QED
  BY <1>9, <1>10 DEF Cuts

-----------------------------------------------------------------------------
(* The rows grow.                                                          *)

\* A row keeps its start and its last beat is no earlier, or it was not in use.
Grows(row, new) ==
  /\ row.state # "none" => new.start = row.start /\ row.beat <= new.beat
  /\ new.state = "none" => row.state = "none" /\ new.start = row.start /\ new.beat = row.beat

LEMMA SealGrows ==
  ASSUME TypeOK, NEW s \in Sids
  PROVE  Grows(rows[s], SealAll(rows)[s])
<1>1. rows[s] \in Row /\ rows[s].beat \in Nat
  BY DEF TypeOK, Row
<1>2. CASE rows[s].state = "open"
  <2>1. SealAll(rows)[s] = Seal(rows[s], rows[s].beat)
    BY <1>2 DEF SealAll
  <2>2. /\ Seal(rows[s], rows[s].beat).state = "closed"
        /\ Seal(rows[s], rows[s].beat).start = rows[s].start
        /\ Seal(rows[s], rows[s].beat).beat = rows[s].beat
    BY <1>1, Zenon DEF Seal, Row
  <2> QED
    BY <1>1, <2>1, <2>2 DEF Grows
<1>3. CASE rows[s].state # "open"
  BY <1>1, <1>3 DEF SealAll, Grows
<1> QED
  BY <1>2, <1>3

LEMMA LocalGrows ==
  ASSUME IInv, Local, NEW r \in Sids
  PROVE  Grows(rows[r], rows'[r])
<1>1. rows[r] \in Row /\ rows[r].beat \in Nat /\ rows \in [Sids -> Row]
  BY DEF IInv, TypeOK, Row
<1>2. ASSUME NEW s \in Sids, NEW at \in Instants, Claim(s, at)
      PROVE  Grows(rows[r], rows'[r])
  <2>1. CASE r = s
    <3>1. rows[r].state = "none"
      BY <1>2, <2>1 DEF Claim
    <3>2. rows'[r] = [NoRow EXCEPT !.state = "open", !.start = at, !.beat = at, !.rev = 1]
      BY <1>2, <2>1 DEF Claim, SealAll
    <3>3. rows'[r].state = "open"
      BY <3>2, Zenon DEF NoRow
    <3> QED
      BY <3>1, <3>3 DEF Grows
  <2>2. CASE r # s
    <3>1. rows'[r] = SealAll(rows)[r]
      BY <1>2, <2>2 DEF Claim, SealAll
    <3> QED
      BY <3>1, SealGrows DEF IInv
  <2> QED
    BY <2>1, <2>2
<1>3. ASSUME NEW s \in Sids, NEW at \in Instants, NEW close \in BOOLEAN,
             Checkpoint(s, at, close)
      PROVE  Grows(rows[r], rows'[r])
  <2>1. CASE r = s
    <3>1. rows[r].state = "open" /\ rows[r].beat <= at
      BY <1>3, <2>1 DEF Checkpoint
    <3>2. rows'[r] = Seal(rows[r], at) \/ rows'[r] = Grow(rows[r], at)
      BY <1>1, <1>3, <2>1 DEF Checkpoint
    <3>3. /\ Seal(rows[r], at).state = "closed" /\ Seal(rows[r], at).start = rows[r].start
          /\ Seal(rows[r], at).beat = at
          /\ Grow(rows[r], at).state = rows[r].state
          /\ Grow(rows[r], at).start = rows[r].start /\ Grow(rows[r], at).beat = at
      BY <1>1, Zenon DEF Seal, Grow, Row
    <3> QED
      BY <3>1, <3>2, <3>3 DEF Grows
  <2>2. CASE r # s
    BY <1>1, <1>3, <2>2 DEF Checkpoint, Grows
  <2> QED
    BY <2>1, <2>2
<1>4. CASE Recover
  BY <1>4, SealGrows DEF Recover, IInv
<1> QED
  BY <1>2, <1>3, <1>4 DEF Local

LEMMA RowGrows ==
  ASSUME IInv, [Next]_vars, NEW s \in Sids
  PROVE  Grows(rows[s], rows'[s])
<1>1. rows[s] \in Row /\ rows[s].beat \in Nat /\ rows \in [Sids -> Row]
  BY DEF IInv, TypeOK, Row
<1>2. CASE UNCHANGED rows
  BY <1>1, <1>2 DEF Grows
<1>3. ASSUME NEW c \in Tabs, Receive(c)
      PROVE  Grows(rows[s], rows'[s])
  <2>1. rows'[s] = rows[s] \/ rows'[s] = AfterReply(rows[s], flight[c], reply[c])
    BY <1>1, <1>3 DEF Receive
  <2>2. /\ AfterReply(rows[s], flight[c], reply[c]).state = rows[s].state
        /\ AfterReply(rows[s], flight[c], reply[c]).start = rows[s].start
        /\ AfterReply(rows[s], flight[c], reply[c]).beat = rows[s].beat
    BY <1>1 DEF AfterReply, Row
  <2> QED
    BY <1>1, <2>1, <2>2 DEF Grows
<1>4. CASE Local
  BY <1>4, LocalGrows
<1> QED
  BY <1>2, <1>3, <1>4
     DEF Next, Upload, Other, StartUpload, StopUpload, GiveUp, Refuse, Send, Serve,
         ServeStray, OtherDevice, RemoveItem, RequestHome, ApplyHome, LoseHome,
         client, shown, vars

\* What a row spans never shrinks (claimSession, checkpointSession).
LEMMA SpanGrows ==
  ASSUME IInv, IInv', FreshRows, [Next]_vars, NEW s \in Sids
  PROVE  Span(rows[s]) <= Span(rows'[s])
<1>1. /\ rows[s].start \in Nat /\ rows[s].beat \in Nat /\ rows[s].start <= rows[s].beat
      /\ rows'[s].start \in Nat /\ rows'[s].beat \in Nat /\ rows'[s].start <= rows'[s].beat
  BY DEF IInv, TypeOK, Row, RowsWell
<1>2. Grows(rows[s], rows'[s])
  BY RowGrows
<1> DEFINE a == rows[s].beat - rows[s].start
           b == rows'[s].beat - rows'[s].start
<1>3. a \in Nat /\ b \in Nat /\ a <= b
  BY <1>1, <1>2 DEF Grows, FreshRows
<1>4. Span(rows[s]) = Seconds(a) /\ Span(rows'[s]) = Seconds(b)
  BY DEF Span
<1> HIDE DEF a, b
<1> QED
  BY <1>3, <1>4, SecondsGrow

LEMMA FreshKept ==
  ASSUME IInv, FreshRows, [Next]_vars
  PROVE  FreshRows'
<1> SUFFICES ASSUME NEW s \in Sids, rows'[s].state = "none"
             PROVE  rows'[s].start = rows'[s].beat
  BY DEF FreshRows
<1> QED
  BY RowGrows DEF Grows, FreshRows

-----------------------------------------------------------------------------
(* The invariant holds.                                                    *)

LEMMA TotalsInitially ==
  ASSUME Init
  PROVE  TInv
<1>1. IInv
  BY Initially
<1>2. FreshRows
  BY DEF Init, FreshRows, NoRow
<1>3. Credits = [s \in Sids |-> 0] /\ SumFunction(Credits) = 0
  <2>1. Credits = [s \in Sids |-> 0]
    BY DEF Init, Credits, NoSession
  <2> QED
    BY <2>1, SumZero, SyncAssumption
<1>4. TotalAdds
  BY <1>3 DEF Init, TotalAdds
<1>5. home = Now /\ Snapshots = {Now}
  BY <1>3 DEF Init, Now, Snapshots
<1>6. Now \in Snapshot /\ Behind(Now) /\ Before(Now, Now)
  BY <1>1, <1>4, NowTyped, NowIsCut DEF IInv
<1> QED
  BY <1>1, <1>2, <1>4, <1>5, <1>6 DEF TInv, Cuts

LEMMA TotalsStep ==
  ASSUME TInv, [Next]_vars
  PROVE  TInv'
<1>1. IInv' /\ TypeOK'
  BY Step DEF TInv, IInv
<1>2. FreshRows'
  BY FreshKept DEF TInv
<1>3. TotalAdds'
  BY <1>1, ServerMoves, TotalKept DEF TInv
<1>4. Cuts'
  BY <1>1, CutsKept DEF TInv
<1> QED
  BY <1>1, <1>2, <1>3, <1>4 DEF TInv

\* The snapshots stay cuts of the server's history.
THEOREM TotalsInvariant == Spec => []TInv
BY TotalsInitially, TotalsStep, PTL DEF Spec

\* The server credits no more than was recorded, and its total adds up each
\* session once, for any number of sessions and other devices
\* (creditCheckpoint under the session's lock).
THEOREM CreditsAddUp == Spec => []CreditIsRecorded
<1>1. TInv => CreditIsRecorded
  BY CreditedIsRead DEF TInv, TotalAdds, Credits, CreditIsRecorded
<1> QED
  BY <1>1, TotalsInvariant, PTL

-----------------------------------------------------------------------------
(* What is displayed.                                                      *)

\* For each session the run as it is, or what was covered of a rejected one.
Counted == [s \in Sids |-> IF rows[s].dropped THEN home.covered[s] ELSE Span(rows[s])]

Recomposed == Displayed = Rest(home) + SumFunction(Counted)

LEMMA CountedTyped ==
  ASSUME TInv
  PROVE  /\ home \in Snapshot /\ Behind(home)
         /\ Counted \in [Sids -> Int] /\ SumFunction(Counted) \in Int
         /\ \A s \in Sids : /\ home.covered[s] \in Nat /\ Span(rows[s]) \in Nat
                            /\ home.covered[s] <= Span(rows[s])
<1>1. home \in Snapshot /\ Behind(home)
  BY DEF TInv, IInv, TypeOK, Cuts, Snapshots
<1>2. ASSUME NEW s \in Sids
      PROVE  /\ home.covered[s] \in Nat /\ Span(rows[s]) \in Nat
             /\ home.covered[s] <= Span(rows[s])
  <2>1. home.covered[s] \in Nat /\ Span(rows[s]) \in Nat /\ sessions[s].seconds \in Nat
    BY <1>1, SnapshotParts, SpansTyped, CreditsTyped DEF TInv, IInv
  <2>2. home.covered[s] <= sessions[s].seconds /\ sessions[s].seconds <= Span(rows[s])
    BY <1>1, CreditedIsRead DEF TInv, Behind
  <2> QED
    BY <2>1, <2>2
<1>3. Counted \in [Sids -> Int]
  BY <1>2 DEF Counted
<1> QED
  BY <1>1, <1>2, <1>3, SumTyped, SyncAssumption

\* uncoveredSessionSpan adds to each covered part what the run has beyond it.
LEMMA DisplayedParts ==
  TInv => Recomposed
<1> SUFFICES ASSUME TInv PROVE Recomposed
  OBVIOUS
<1> DEFINE f == home.covered
           g == [s \in Sids |-> Uncovered(s)]
<1>1. /\ \A s \in Sids : /\ home.covered[s] \in Nat /\ Span(rows[s]) \in Nat
                         /\ home.covered[s] <= Span(rows[s])
      /\ Counted \in [Sids -> Int] /\ SumFunction(Counted) \in Int
  BY CountedTyped
<1>2. home.total \in Int /\ f \in [Sids -> Int] /\ SumFunction(f) \in Int
  BY CountedTyped, SnapshotParts
<1>3. ASSUME NEW s \in Sids
      PROVE  Uncovered(s) \in Int /\ Counted[s] = f[s] + Uncovered(s)
  BY <1>1 DEF Uncovered, Counted
<1>4. g \in [Sids -> Int] /\ \A s \in Sids : Counted[s] = f[s] + g[s]
  BY <1>3
<1>5. Displayed = home.total + SumFunction(g) /\ Rest(home) = home.total - SumFunction(f)
  BY DEF Displayed, Rest
<1> HIDE DEF f, g
<1>6. SumFunction(g) \in Int
  BY <1>4, SumTyped, SyncAssumption
<1>7. SumFunction(Counted) = SumFunction(f) + SumFunction(g)
  <2>1. IsFiniteSet(Sids)
    BY SyncAssumption
  <2>2. Counted \in [Sids -> Int] /\ f \in [Sids -> Int] /\ g \in [Sids -> Int]
    BY <1>1, <1>2, <1>4
  <2>3. \A s \in Sids : Counted[s] = f[s] + g[s]
    BY <1>4
  <2> HIDE DEF Counted
  <2> QED
    BY <2>1, <2>2, <2>3, SumAdd
<1> QED
  BY <1>1, <1>2, <1>5, <1>6, <1>7 DEF Recomposed

\* The total a reader is shown counts no second twice: it is at most what other
\* devices contributed and what the runs of this profile span, whichever of
\* them are uploaded, acknowledged or in the snapshot (composeHomeReading).
THEOREM CountedOnce == Spec => []NeverDoubleCounted
<1>1. ASSUME TInv PROVE NeverDoubleCounted
  <2> DEFINE spans == [s \in Sids |-> Span(rows[s])]
  <2>1. /\ \A s \in Sids : /\ home.covered[s] \in Nat /\ Span(rows[s]) \in Nat
                           /\ home.covered[s] <= Span(rows[s])
        /\ Counted \in [Sids -> Int] /\ SumFunction(Counted) \in Int
        /\ home \in Snapshot /\ Behind(home)
    BY <1>1, CountedTyped
  <2>2. spans \in [Sids -> Int] /\ \A s \in Sids : Counted[s] <= spans[s]
    BY <2>1 DEF Counted
  <2>3. NeverDoubleCounted <=> Displayed <= remote + SumFunction(spans)
    BY DEF NeverDoubleCounted
  <2> HIDE DEF spans
  <2>4. SumFunction(Counted) <= SumFunction(spans) /\ SumFunction(spans) \in Int
    BY <2>1, <2>2, SumMonotone, SumTyped, SyncAssumption
  <2>5. Rest(home) \in Int /\ Rest(home) <= remote /\ remote \in Nat
    BY <1>1, <2>1, SnapshotParts DEF Behind, TInv, IInv, TypeOK
  <2>6. Displayed = Rest(home) + SumFunction(Counted)
    BY <1>1, DisplayedParts DEF Recomposed
  <2> QED
    BY <2>1, <2>3, <2>4, <2>5, <2>6
<1> QED
  BY <1>1, TotalsInvariant, PTL

\* ... and leaves out none that this profile recorded and was not told to
\* discard (uncoveredSessionSpan).
THEOREM NoneLeftOut == Spec => []NothingMissing
<1>1. ASSUME TInv PROVE NothingMissing
  <2> DEFINE kept == [s \in Sids |-> IF rows[s].dropped THEN 0 ELSE Span(rows[s])]
  <2>1. /\ \A s \in Sids : /\ home.covered[s] \in Nat /\ Span(rows[s]) \in Nat
                           /\ home.covered[s] <= Span(rows[s])
        /\ Counted \in [Sids -> Int] /\ SumFunction(Counted) \in Int
        /\ home \in Snapshot /\ Behind(home)
    BY <1>1, CountedTyped
  <2>2. kept \in [Sids -> Int] /\ \A s \in Sids : kept[s] <= Counted[s]
    BY <2>1 DEF Counted
  <2>3. NothingMissing <=> Displayed >= SumFunction(kept)
    BY DEF NothingMissing
  <2> HIDE DEF kept
  <2>4. SumFunction(kept) <= SumFunction(Counted) /\ SumFunction(kept) \in Int
    BY <2>1, <2>2, SumMonotone, SumTyped, SyncAssumption
  <2>5. Rest(home) \in Int /\ 0 <= Rest(home)
    BY <2>1, SnapshotParts DEF Behind
  <2>6. Displayed = Rest(home) + SumFunction(Counted)
    BY <1>1, DisplayedParts DEF Recomposed
  <2> QED
    BY <2>1, <2>3, <2>4, <2>5, <2>6
<1> QED
  BY <1>1, TotalsInvariant, PTL

\* The home snapshot is only replaced by one that is no older
\* (retainNewerReading).
LEMMA HomeNewer ==
  ASSUME TInv, [Next]_vars
  PROVE  Before(home, home') /\ home.revision <= home'.revision
<1>1. home \in Snapshots /\ home \in Snapshot
  BY DEF TInv, IInv, TypeOK, Snapshots
<1>2. ASSUME NEW h \in Snapshots, home.revision <= h.revision
      PROVE  Before(home, h)
  BY <1>1 DEF TInv, Cuts
<1>3. home' \in Snapshots /\ home.revision <= home'.revision
  <2>1. home.revision \in Nat
    BY <1>1, SnapshotParts
  <2>2. CASE home' = home
    BY <1>1, <2>1, <2>2
  <2>3. ASSUME NEW c \in Readers, ApplyHome(c) PROVE home' \in Snapshots /\ home.revision <= home'.revision
    <3>1. gets[c] \in Snapshots /\ gets[c].revision \in Nat
      BY <2>3, SnapshotsTyped, SnapshotParts DEF ApplyHome, Snapshots, TInv, IInv
    <3> QED
      BY <1>1, <2>1, <2>3, <3>1 DEF ApplyHome
  <2> QED
    BY <2>2, <2>3
       DEF Next, Local, Upload, Other, Claim, Checkpoint, Recover, StartUpload, StopUpload,
           GiveUp, Receive, Refuse, Send, Serve, ServeStray, OtherDevice, RemoveItem,
           RequestHome, LoseHome, shown, vars
<1> QED
  BY <1>2, <1>3

\* No upload, acknowledgment or late snapshot takes time away from what is
\* displayed: only a session the server rejects does (composeHomeReading,
\* retainNewerReading).
THEOREM NeverFalls == Spec => DisplayNeverFalls
<1>1. ASSUME TInv, TInv', Recomposed, Recomposed', [Next]_vars,
             \A s \in Sids : rows'[s].dropped = rows[s].dropped
      PROVE  Displayed' >= Displayed
  <2>1. /\ home \in Snapshot /\ Counted \in [Sids -> Int] /\ SumFunction(Counted) \in Int
        /\ \A s \in Sids : home.covered[s] \in Nat /\ Span(rows[s]) \in Nat
    BY <1>1, CountedTyped
  <2>2. home' \in Snapshot /\ IInv /\ IInv' /\ FreshRows
    BY <1>1 DEF TInv, IInv, TypeOK
  <2>3. /\ \A s \in Sids : home.covered[s] <= home'.covered[s]
        /\ Rest(home) <= Rest(home')
    BY <1>1, HomeNewer DEF Before
  <2>4. \A s \in Sids : Span(rows[s]) <= Span(rows'[s])
    BY <1>1, <2>2, SpanGrows
  <2> DEFINE after == [s \in Sids |-> IF rows'[s].dropped THEN home'.covered[s]
                                      ELSE Span(rows'[s])]
  <2>5. ASSUME NEW s \in Sids
        PROVE  home'.covered[s] \in Nat /\ Span(rows'[s]) \in Nat
    <3>1. home'.covered[s] \in Nat
      BY <2>2 DEF Snapshot
    <3>2. rows'[s].start \in Nat /\ rows'[s].beat \in Nat /\ rows'[s].start <= rows'[s].beat
      BY <2>2 DEF IInv, TypeOK, Row, RowsWell
    <3> QED
      BY <3>1, <3>2, SpanNat
  <2>6. after \in [Sids -> Int]
    BY <2>5
  <2>7. \A s \in Sids : Counted[s] <= after[s]
    BY <1>1, <2>1, <2>3, <2>4, <2>5 DEF Counted
  <2>8. Displayed' = Rest(home') + SumFunction(after)
    BY <1>1 DEF Recomposed, Counted, Span, Rest
  <2>9. Displayed = Rest(home) + SumFunction(Counted)
    BY <1>1 DEF Recomposed
  <2> HIDE DEF after
  <2>10. SumFunction(Counted) <= SumFunction(after) /\ SumFunction(after) \in Int
    BY <2>1, <2>6, <2>7, SumMonotone, SumTyped, SyncAssumption
  <2>11. Rest(home) \in Int /\ Rest(home') \in Int
    BY <2>1, <2>2, SnapshotParts
  <2> QED
    BY <2>1, <2>3, <2>8, <2>9, <2>10, <2>11
<1>2. TInv => Recomposed
  BY DisplayedParts
<1>3. TInv /\ TInv' /\ Recomposed /\ Recomposed' /\ [Next]_vars
        => [(\A s \in Sids : rows'[s].dropped = rows[s].dropped) => Displayed' >= Displayed]_vars
  BY <1>1
<1> QED
  BY <1>2, <1>3, TotalsInvariant, PTL DEF Spec, DisplayNeverFalls
=============================================================================
