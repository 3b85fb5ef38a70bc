------------------------- MODULE SessionRowsProofs -------------------------
(***************************************************************************)
(* What the promise of the sessions table comes to, for any number of ids  *)
(* and instants: one run is open at a time, no two share time, and a run   *)
(* only grows until it is closed.                                          *)
(*                                                                         *)
(* Disjointness is not inductive: that an open run may grow rests on every *)
(* other run having ended before it began (OpenIsLast).                    *)
(***************************************************************************)
EXTENDS SessionRows, TLAPS

\* A run that was begun ends no earlier than it starts.
RunsForward == \A s \in Used : rows[s].start <= rows[s].beat

\* Every other run has ended before the open one began.
OpenIsLast == \A s \in Open, r \in Used : r # s => rows[r].beat <= rows[s].start

IInv == TypeOK /\ RunsForward /\ OneOpen /\ OpenIsLast /\ DisjointRuns

Grown(row, at) == [row EXCEPT !.beat = at, !.rev = row.rev + 1]

\* What a run is after it has ended at `at', or grown to it.
LEMMA SealFields ==
  ASSUME NEW row \in Row, NEW at \in Nat
  PROVE  /\ Seal(row, at) \in Row
         /\ Seal(row, at).state = "closed" /\ Seal(row, at).start = row.start
         /\ Seal(row, at).beat = at /\ Seal(row, at).rev = row.rev + 1
<1>1. row.rev + 1 \in Nat
  BY DEF Row
<1> QED
  BY <1>1, Zenon DEF Row, Seal

LEMMA GrownFields ==
  ASSUME NEW row \in Row, NEW at \in Nat
  PROVE  /\ Grown(row, at) \in Row
         /\ Grown(row, at).state = row.state /\ Grown(row, at).start = row.start
         /\ Grown(row, at).beat = at /\ Grown(row, at).rev = row.rev + 1
<1>1. row.rev + 1 \in Nat
  BY DEF Row
<1> QED
  BY <1>1, Zenon DEF Row, Grown

\* Sealing what is open leaves every start, end and id in use as it was.
LEMMA SealAllKeeps ==
  ASSUME TypeOK
  PROVE  /\ SealAll(rows) \in [Sids -> Row]
         /\ \A s \in Sids :
              /\ SealAll(rows)[s].state # "open"
              /\ SealAll(rows)[s].start = rows[s].start
              /\ SealAll(rows)[s].beat = rows[s].beat
              /\ SealAll(rows)[s].state = "none" <=> rows[s].state = "none"
              /\ rows[s].state # "open" => SealAll(rows)[s] = rows[s]
              /\ rows[s].state = "open" => SealAll(rows)[s].rev = rows[s].rev + 1
<1>1. ASSUME NEW s \in Sids
      PROVE  /\ rows[s] \in Row
             /\ Seal(rows[s], rows[s].beat) \in Row
             /\ Seal(rows[s], rows[s].beat).state = "closed"
             /\ Seal(rows[s], rows[s].beat).start = rows[s].start
             /\ Seal(rows[s], rows[s].beat).beat = rows[s].beat
             /\ Seal(rows[s], rows[s].beat).rev = rows[s].rev + 1
  <2>1. rows[s] \in Row /\ rows[s].beat \in Nat /\ rows[s].start \in Nat
        /\ rows[s].rev \in Nat
    BY DEF TypeOK, Row
  <2> QED
    BY <2>1, SealFields
<1> QED
  BY <1>1 DEF SealAll

\* Growing changes one open run, and nothing of it but its end.
LEMMA GrowChanges ==
  ASSUME TypeOK, NEW s \in Sids, NEW at \in Nat, Grow(s, at)
  PROVE  /\ rows[s].state = "open" /\ rows'[s].state # "none"
         /\ rows[s].beat <= at /\ rows'[s].beat = at
         /\ rows'[s].start = rows[s].start /\ rows'[s].rev = rows[s].rev + 1
         /\ TypeOK'
         /\ \A r \in Sids : r # s => rows'[r] = rows[r]
<1>1. PICK row \in {Seal(rows[s], at), Grown(rows[s], at)} :
        rows' = [rows EXCEPT ![s] = row]
  BY DEF Grow, Grown
<1>2. rows[s] \in Row /\ rows[s].state = "open" /\ rows[s].beat <= at
  BY DEF TypeOK, Grow
<1>3. row \in Row /\ row.state # "none" /\ row.start = rows[s].start
      /\ row.beat = at /\ row.rev = rows[s].rev + 1
  <2>1. CASE row = Seal(rows[s], at)
    BY <1>2, <2>1, SealFields
  <2>2. CASE row = Grown(rows[s], at)
    BY <1>2, <2>2, GrownFields
  <2> QED
    BY <1>1, <2>1, <2>2
<1>4. rows'[s] = row /\ \A r \in Sids : r # s => rows'[r] = rows[r]
  BY <1>1 DEF TypeOK
<1>5. TypeOK'
  BY <1>1, <1>3 DEF TypeOK
<1> QED
  BY <1>2, <1>3, <1>4, <1>5

\* The invariant is inductive.
LEMMA Inductive ==
  ASSUME Instants \subseteq Nat, IInv, [Next]_rows
  PROVE  IInv'
<1> USE DEF IInv
<1>1. ASSUME NEW s \in Sids, NEW at \in Instants, Begin(s, at)
      PROVE  IInv'
  <2>1. NewRow(at) \in Row /\ NewRow(at).start = at /\ NewRow(at).beat = at
        /\ NewRow(at).state = "open"
    BY <1>1 DEF NewRow, Row
  <2>2. rows' = [SealAll(rows) EXCEPT ![s] = NewRow(at)]
    BY <1>1 DEF Begin
  <2>3. TypeOK'
    BY <2>1, <2>2, SealAllKeeps DEF TypeOK
  <2>4. rows'[s] = NewRow(at)
    BY <2>2, SealAllKeeps DEF TypeOK
  <2>5. ASSUME NEW r \in Sids, r # s
        PROVE  /\ rows'[r].state # "open"
               /\ rows'[r].start = rows[r].start /\ rows'[r].beat = rows[r].beat
               /\ rows'[r].state = "none" <=> rows[r].state = "none"
    BY <2>2, <2>5, SealAllKeeps DEF TypeOK
  <2>6. Open' = {s}
    BY <2>1, <2>4, <2>5 DEF Open
  <2>7. \A r \in Used' : r # s => r \in Used /\ rows'[r].beat <= at
    BY <1>1, <2>5 DEF Used, Begin
  <2>8. RunsForward'
    BY <1>1, <2>1, <2>4, <2>5, <2>7 DEF RunsForward, Used
  <2>9. OneOpen' /\ OpenIsLast'
    BY <2>1, <2>4, <2>6, <2>7 DEF OneOpen, OpenIsLast
  <2>10. DisjointRuns'
    BY <2>1, <2>4, <2>5, <2>7 DEF DisjointRuns, Used
  <2> QED
    BY <2>3, <2>8, <2>9, <2>10
<1>2. ASSUME NEW s \in Sids, NEW at \in Instants, Grow(s, at)
      PROVE  IInv'
  <2>1. at \in Nat /\ s \in Open
    BY <1>2 DEF Grow, Open
  <2>2. /\ rows[s].beat <= at /\ rows'[s].beat = at
        /\ rows'[s].start = rows[s].start /\ rows'[s].state # "none"
        /\ \A r \in Sids : r # s => rows'[r] = rows[r]
    BY <1>2, <2>1, GrowChanges
  <2>3. rows[s].start \in Nat /\ rows[s].beat \in Nat
    BY DEF TypeOK, Row
  <2>4. TypeOK'
    BY <1>2, <2>1, GrowChanges
  <2>6. Used' = Used /\ Open' \subseteq Open
    BY <2>1, <2>2 DEF Used, Open
  <2>7. \A r \in Used : r # s => rows[r].beat <= rows[s].start
    BY <2>1 DEF OpenIsLast
  <2>8. RunsForward'
    BY <2>1, <2>2, <2>3, <2>6 DEF RunsForward, Used, Open
  <2>9. OneOpen' /\ OpenIsLast'
    BY <2>1, <2>2, <2>6 DEF OneOpen, OpenIsLast, Open, Used
  <2>10. DisjointRuns'
    BY <2>1, <2>2, <2>3, <2>6, <2>7 DEF DisjointRuns, Used, Open
  <2> QED
    BY <2>4, <2>8, <2>9, <2>10
<1>3. CASE Abandon
  <2>1. TypeOK' /\ Open' = {} /\ Used' = Used
    BY <1>3, SealAllKeeps DEF Abandon, TypeOK, Open, Used
  <2>2. \A s \in Sids : rows'[s].start = rows[s].start /\ rows'[s].beat = rows[s].beat
    BY <1>3, SealAllKeeps DEF Abandon
  <2> QED
    BY <2>1, <2>2 DEF RunsForward, OneOpen, OpenIsLast, DisjointRuns, Used
<1>4. CASE UNCHANGED rows
  BY <1>4 DEF TypeOK, RunsForward, OneOpen, OpenIsLast, DisjointRuns, Used, Open
<1> QED
  BY <1>1, <1>2, <1>3, <1>4 DEF Next

\* The invariant holds of every behaviour.
LEMMA Invariant ==
  ASSUME Instants \subseteq Nat
  PROVE  Spec => []IInv
<1>1. Init => IInv
  BY DEF Init, IInv, TypeOK, RunsForward, OneOpen, OpenIsLast, DisjointRuns,
         Used, Open, NoRow, Row
<1>2. IInv /\ [Next]_rows => IInv'
  BY Inductive
<1> QED
  BY <1>1, <1>2, PTL DEF Spec

\* At most one run of a profile is open, whatever its tabs do
\* (sealAbandonedSessions in the transaction of claimSession).
THEOREM OneRunAtATime ==
  ASSUME Instants \subseteq Nat
  PROVE  Spec => []OneOpen
<1>1. IInv => OneOpen
  BY DEF IInv
<1> QED
  BY <1>1, Invariant, PTL

\* No two runs of a profile share a moment of time, so the sum of their spans
\* counts none twice (sessionSpan).
THEOREM RunsApart ==
  ASSUME Instants \subseteq Nat
  PROVE  Spec => []DisjointRuns
<1>1. IInv => DisjointRuns
  BY DEF IInv
<1> QED
  BY <1>1, Invariant, PTL

\* Only an open run changes, each change takes the next revision, and no run
\* shrinks or moves: what the server may rely on (checkpointShouldAdvance).
THEOREM RunsGrow ==
  ASSUME Instants \subseteq Nat
  PROVE  Spec => RunsOnlyGrow
<1> DEFINE Step ==
      \A s \in Used :
        /\ rows'[s].start = rows[s].start /\ rows'[s].beat >= rows[s].beat
        /\ rows'[s] # rows[s] =>
             rows[s].state = "open" /\ rows'[s].rev = rows[s].rev + 1
<1>1. ASSUME IInv, [Next]_rows
      PROVE  [Step]_rows
  <2>1. \A s \in Used : rows[s] \in Row /\ rows[s].beat \in Nat
    BY <1>1 DEF IInv, TypeOK, Used, Row
  <2>2. ASSUME NEW s \in Sids, NEW at \in Instants, Begin(s, at)
        PROVE  Step
    BY <1>1, <2>1, <2>2, SealAllKeeps DEF IInv, Begin, Used, TypeOK
  <2>3. ASSUME NEW s \in Sids, NEW at \in Instants, Grow(s, at)
        PROVE  Step
    <3>1. /\ rows[s].state = "open" /\ rows[s].beat <= at /\ rows'[s].beat = at
          /\ rows'[s].start = rows[s].start /\ rows'[s].rev = rows[s].rev + 1
          /\ \A r \in Sids : r # s => rows'[r] = rows[r]
      BY <1>1, <2>3, GrowChanges DEF IInv
    <3> QED
      BY <2>1, <3>1 DEF Used
  <2>4. CASE Abandon
    BY <1>1, <2>1, <2>4, SealAllKeeps DEF IInv, Abandon, Used
  <2> QED
    BY <1>1, <2>2, <2>3, <2>4 DEF Next
<1> QED
  BY <1>1, Invariant, PTL DEF Spec, RunsOnlyGrow
=============================================================================
