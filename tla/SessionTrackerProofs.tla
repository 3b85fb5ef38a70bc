------------------------ MODULE SessionTrackerProofs ------------------------
(***************************************************************************)
(* Why the tabs of a profile never record two runs at once, and why a run  *)
(* is never credited with time its tab was not in the foreground: for any  *)
(* tabs, bounds, clocks and faults, with Web Locks and without them.       *)
(***************************************************************************)
EXTENDS SessionTracker, Integers, SequenceTheorems, TLAPS

\* Everything a tab has read from its clocks and may still use.
Moments(t) == {last[t], claim[t]} \cup {queue[t][i].moment : i \in 1 .. Len(queue[t])}

\* a was read before b: neither the monotonic clock nor the sleep it does not
\* count ever goes back.
Before(a, b) == a.mono <= b.mono /\ a.wall + b.mono <= b.wall + a.mono

ClocksWell ==
  \A t \in Tabs : \A a \in Moments(t) :
    /\ Before(Moment0, a) /\ Before(a, ReadClock)
    /\ \A b \in Moments(t) : Before(a, b) \/ Before(b, a)

\* The phase of a job and the tracker's session agree; the queue of a hidden
\* document ends with the stop that hiding it put there.
JobsOf(t) ==
  /\ page[t] = "gone" => queue[t] = <<>> /\ active[t] = NoSid
  /\ phase[t] # "idle" => queue[t] # <<>>
  /\ phase[t] = "saving" => active[t] # NoSid
  /\ phase[t] \in {"waiting", "claiming"} => active[t] = NoSid /\ ~queue[t][1].stop
  /\ page[t] = "hidden" /\ active[t] # NoSid => queue[t] # <<>>
  /\ page[t] = "hidden" /\ queue[t] # <<>> => queue[t][Len(queue[t])].stop

JobsWell == \A t \in Tabs : JobsOf(t)

InTx(t) == phase[t] \in {"saving", "claiming"}

TxsWell == \A t \in Tabs : InTx(t) <=> \E i \in 1 .. Len(txs) : txs[i] = t

-----------------------------------------------------------------------------
(* Sequences.                                                              *)

LEMMA TailFacts ==
  ASSUME NEW S, NEW q \in Seq(S), q # <<>>
  PROVE  /\ Tail(q) \in Seq(S) /\ Len(q) \in Nat /\ Len(q) > 0
         /\ Len(Tail(q)) = Len(q) - 1
         /\ \A i \in 1 .. Len(q) - 1 : Tail(q)[i] = q[i + 1]
         /\ Head(q) = q[1] /\ Head(q) \in S
  OBVIOUS

LEMMA CatFacts ==
  ASSUME NEW S, NEW a \in Seq(S), NEW b \in Seq(S), NEW r, r = a \o b
  PROVE  /\ r \in Seq(S) /\ Len(r) = Len(a) + Len(b)
         /\ \A i \in 1 .. Len(a) + Len(b) :
              r[i] = IF i <= Len(a) THEN a[i] ELSE b[i - Len(a)]
  BY ConcatProperties

LEMMA AppendFacts ==
  ASSUME NEW S, NEW q \in Seq(S), NEW e \in S
  PROVE  /\ Append(q, e) \in Seq(S) /\ Len(q) \in Nat
         /\ Len(Append(q, e)) = Len(q) + 1
         /\ \A i \in 1 .. Len(q) : Append(q, e)[i] = q[i]
         /\ Append(q, e)[Len(q) + 1] = e
  OBVIOUS

\* r is q without e, the others in their order.
Without(r, q, e) ==
  \E h \in [1 .. Len(r) -> 1 .. Len(q)] :
    /\ \A i \in 1 .. Len(r) : r[i] = q[h[i]] /\ q[h[i]] # e
    /\ \A i, j \in 1 .. Len(r) : i < j => h[i] < h[j]
    /\ \A k \in 1 .. Len(q) : q[k] # e => \E i \in 1 .. Len(r) : h[i] = k

LEMMA RemoveFacts ==
  ASSUME NEW S, NEW q \in Seq(S), NEW e \in S,
         \A i, j \in 1 .. Len(q) : q[i] = q[j] => i = j
  PROVE  RemoveFirst(q, e) \in Seq(S) /\ Without(RemoveFirst(q, e), q, e)
<1> DEFINE r == RemoveFirst(q, e)
<1>1. CASE \E k \in 1 .. Len(q) : q[k] = e
  <2>1. PICK k \in 1 .. Len(q) : q[k] = e
    BY <1>1
  <2>2. {i \in 1 .. Len(q) : q[i] = e} = {k}
    BY <2>1
  <2>3. Min({k}) = k
    BY <2>1 DEF Min
  <2>4. r = RemoveAt(q, k)
    BY <2>1, <2>2, <2>3 DEF RemoveFirst, SelectInSeq
  <2>5. r = SubSeq(q, 1, k - 1) \o SubSeq(q, k + 1, Len(q))
    BY <2>4 DEF RemoveAt
  <2>6. /\ r \in Seq(S) /\ Len(r) = Len(q) - 1
        /\ \A i \in 1 .. Len(r) : r[i] = IF i < k THEN q[i] ELSE q[i + 1]
    <3> DEFINE a == SubSeq(q, 1, k - 1)
               b == SubSeq(q, k + 1, Len(q))
    <3>1. a \in Seq(S) /\ Len(a) = k - 1 /\ \A i \in 1 .. k - 1 : a[i] = q[i]
      BY <2>1
    <3>2. b \in Seq(S) /\ Len(b) = Len(q) - k
          /\ \A i \in 1 .. Len(q) - k : b[i] = q[k + i]
      BY <2>1
    <3>3. r = a \o b
      BY <2>5
    <3>4. a \in Seq(S)
      BY <3>1
    <3>5. b \in Seq(S)
      BY <3>2
    <3> HIDE DEF a, b, r
    <3>6. /\ r \in Seq(S) /\ Len(r) = Len(a) + Len(b)
          /\ \A i \in 1 .. Len(a) + Len(b) :
               r[i] = IF i <= Len(a) THEN a[i] ELSE b[i - Len(a)]
      BY <3>4, <3>5, <3>3, CatFacts
    <3>7. ASSUME NEW i \in 1 .. Len(r)
          PROVE  r[i] = IF i < k THEN q[i] ELSE q[i + 1]
      <4>1. CASE i < k
        BY <2>1, <3>1, <3>2, <3>6, <4>1
      <4>2. CASE ~ (i < k)
        <5>1. i - (k - 1) \in 1 .. Len(q) - k /\ k + (i - (k - 1)) = i + 1
          BY <2>1, <3>1, <3>2, <3>6, <4>2
        <5>2. r[i] = b[i - (k - 1)]
          BY <2>1, <3>1, <3>2, <3>6, <4>2, <5>1
        <5> QED
          BY <3>2, <4>2, <5>1, <5>2
      <4> QED
        BY <4>1, <4>2
    <3> QED
      BY <2>1, <3>1, <3>2, <3>6, <3>7
  <2> DEFINE h == [i \in 1 .. Len(r) |-> IF i < k THEN i ELSE i + 1]
  <2>7. h \in [1 .. Len(r) -> 1 .. Len(q)]
    BY <2>1, <2>6
  <2>8. \A i \in 1 .. Len(r) : r[i] = q[h[i]] /\ q[h[i]] # e
    BY <2>1, <2>2, <2>6
  <2>9. \A i, j \in 1 .. Len(r) : i < j => h[i] < h[j]
    BY <2>1, <2>6
  <2>10. ASSUME NEW j \in 1 .. Len(q), q[j] # e
         PROVE  \E i \in 1 .. Len(r) : h[i] = j
    <3>1. CASE j < k
      <4>1. j \in 1 .. Len(r) /\ h[j] = j
        BY <2>1, <2>6, <3>1
      <4> QED
        BY <4>1
    <3>2. CASE j > k
      <4>1. j - 1 \in 1 .. Len(r) /\ h[j - 1] = j
        BY <2>1, <2>6, <3>2
      <4> QED
        BY <4>1
    <3> QED
      BY <2>1, <2>10, <3>1, <3>2
  <2> HIDE DEF h
  <2> QED
    BY <2>6, <2>7, <2>8, <2>9, <2>10 DEF Without
<1>2. CASE ~ \E k \in 1 .. Len(q) : q[k] = e
  <2>1. r = q
    BY <1>2 DEF RemoveFirst
  <2> DEFINE h == [i \in 1 .. Len(q) |-> i]
  <2>2. h \in [1 .. Len(q) -> 1 .. Len(q)]
    OBVIOUS
  <2> QED
    BY <1>2, <2>1, <2>2 DEF Without
<1> QED
  BY <1>1, <1>2
-----------------------------------------------------------------------------
(* Types.                                                                  *)

LEMMA Fields ==
  ASSUME TypeOK, NEW t \in Tabs
  PROVE  /\ queue[t] \in Seq(Job) /\ Len(queue[t]) \in Nat
         /\ Len(queue[t]) <= MaxQueue
         /\ \A i \in 1 .. Len(queue[t]) :
              /\ queue[t][i] \in Job /\ queue[t][i].stop \in BOOLEAN
              /\ queue[t][i].moment \in Moment
         /\ last[t] \in Moment /\ claim[t] \in Moment
         /\ seen[t] \in Nat /\ phase[t] \in Phases
<1>1. queue[t] \in Seq(Job) /\ Len(queue[t]) <= MaxQueue
  BY DEF TypeOK
<1>2. Len(queue[t]) \in Nat /\ \A i \in 1 .. Len(queue[t]) : queue[t][i] \in Job
  BY <1>1
<1>3. \A j \in Job : j.stop \in BOOLEAN /\ j.moment \in Moment
  BY DEF Job
<1> QED
  BY <1>1, <1>2, <1>3 DEF TypeOK

LEMMA ClockTyped ==
  ASSUME TypeOK
  PROVE  /\ now \in Nat /\ slept \in Nat /\ slept <= now /\ now <= MaxTime
         /\ ReadClock \in Moment
         /\ ReadClock.wall = now /\ ReadClock.mono = now - slept
<1>1. now \in Nat /\ slept \in Nat /\ slept <= now /\ now <= MaxTime
  BY TrackerAssumption DEF TypeOK
<1> QED
  BY <1>1 DEF ReadClock, Moment

LEMMA MomentFields ==
  ASSUME NEW m \in Moment
  PROVE  m.wall \in Nat /\ m.mono \in Nat
  BY DEF Moment

\* The parts of TypeOK that the steps of a tracker change.
QueuesTyped ==
  /\ queue \in [Tabs -> Seq(Job)] /\ \A t \in Tabs : Len(queue[t]) <= MaxQueue
  /\ phase \in [Tabs -> Phases]
  /\ last \in [Tabs -> Moment] /\ claim \in [Tabs -> Moment]

TxsTyped == txs \in Seq(Tabs) /\ \A i, j \in 1 .. Len(txs) : txs[i] = txs[j] => i = j

LEMMA TypeParts ==
  TypeOK <=>
    /\ webLocks \in Browsers
    /\ now \in 0 .. MaxTime /\ slept \in 0 .. now
    /\ page \in [Tabs -> {"gone", "visible", "hidden"}]
    /\ QueuesTyped
    /\ active \in [Tabs -> Sids \cup {NoSid}]
    /\ lock \in Tabs \cup {NoTab}
    /\ TxsTyped
    /\ lease \in Lease \cup {NoLease}
    /\ rows \in [Sids -> Table!Row]
    /\ faults \in 0 .. MaxFaults
    /\ seen \in [Tabs -> Nat]
<1>1. ASSUME txs \in Seq(Tabs) PROVE DOMAIN txs = 1 .. Len(txs)
  BY <1>1
<1> QED
  BY <1>1 DEF TypeOK, QueuesTyped, TxsTyped

\* A job ends.
LEMMA FinishTyped ==
  ASSUME TypeOK, NEW t \in Tabs, NEW m \in Moment, queue[t] # <<>>, Finish(t, m)
  PROVE  QueuesTyped'
<1>1. queue[t] \in Seq(Job) /\ Len(queue[t]) <= MaxQueue
  BY Fields
<1>2. Tail(queue[t]) \in Seq(Job) /\ Len(Tail(queue[t])) <= MaxQueue
  <2>1. Tail(queue[t]) \in Seq(Job) /\ Len(Tail(queue[t])) = Len(queue[t]) - 1
        /\ Len(queue[t]) \in Nat
    BY <1>1, TailFacts
  <2> QED
    BY <1>1, <2>1, TrackerAssumption
<1>3. Moment0 \in Moment
  BY DEF Moment0, Moment
<1>4. queue' \in [Tabs -> Seq(Job)] /\ \A u \in Tabs : Len(queue'[u]) <= MaxQueue
  BY <1>2 DEF Finish, TypeOK
<1>5. phase' \in [Tabs -> Phases]
  BY DEF Finish, TypeOK, Phases
<1> QED
  BY <1>3, <1>4, <1>5 DEF Finish, TypeOK, QueuesTyped

\* A transaction opens, or the first one ends.
LEMMA OpenTyped ==
  ASSUME NEW q \in Seq(Tabs), NEW t \in Tabs,
         \A i, j \in 1 .. Len(q) : q[i] = q[j] => i = j,
         \A i \in 1 .. Len(q) : q[i] # t, txs' = Append(q, t)
  PROVE  TxsTyped'
<1>1. /\ Append(q, t) \in Seq(Tabs) /\ Len(q) \in Nat
      /\ Len(Append(q, t)) = Len(q) + 1
      /\ \A i \in 1 .. Len(q) : Append(q, t)[i] = q[i]
      /\ Append(q, t)[Len(q) + 1] = t
  BY AppendFacts
<1> QED
  BY <1>1 DEF TxsTyped

LEMMA CommitFacts ==
  ASSUME TypeOK, NEW t \in Tabs, Runs(t)
  PROVE  /\ Tail(txs) \in Seq(Tabs) /\ Len(txs) \in Nat /\ txs[1] = t
         /\ Len(Tail(txs)) = Len(txs) - 1 /\ Len(txs) > 0
         /\ \A i \in 1 .. Len(Tail(txs)) : Tail(txs)[i] = txs[i + 1] /\ Tail(txs)[i] # t
         /\ \A i, j \in 1 .. Len(Tail(txs)) : Tail(txs)[i] = Tail(txs)[j] => i = j
<1>1. /\ txs \in Seq(Tabs) /\ \A i, j \in 1 .. Len(txs) : txs[i] = txs[j] => i = j
      /\ txs # <<>> /\ Head(txs) = t
  BY TypeParts DEF TxsTyped, Runs
<1>2. /\ Tail(txs) \in Seq(Tabs) /\ Len(txs) \in Nat /\ Len(txs) > 0
      /\ Len(Tail(txs)) = Len(txs) - 1
      /\ \A i \in 1 .. Len(txs) - 1 : Tail(txs)[i] = txs[i + 1]
      /\ Head(txs) = txs[1]
  BY <1>1, TailFacts
<1> QED
  BY <1>1, <1>2

\* A call of record().
LEMMA RecordTyped ==
  ASSUME TypeOK, JobsWell, NEW t \in Tabs, NEW stop \in BOOLEAN, Record(t, stop)
  PROVE  /\ QueuesTyped' /\ UNCHANGED <<claim, active, lock, txs>>
         /\ \E jobs \in Seq(Job), job \in Job :
              /\ queue' = [queue EXCEPT ![t] = Append(jobs, job)]
              /\ Len(jobs) \in Nat /\ Len(jobs) < MaxQueue
              /\ job.stop = stop /\ job.moment = ReadClock
              /\ \/ /\ jobs = queue[t] /\ UNCHANGED <<phase, last>>
                 \/ /\ stop /\ phase[t] = "waiting" /\ jobs = Tail(queue[t])
                    /\ phase' = [phase EXCEPT ![t] = "idle"]
                    /\ last' = [last EXCEPT ![t] = queue[t][1].moment]
<1> DEFINE aborts == stop /\ phase[t] = "waiting"
           jobs == IF aborts THEN Tail(queue[t]) ELSE queue[t]
           job == [stop |-> stop, moment |-> ReadClock]
<1>1. job \in Job /\ job.stop = stop /\ job.moment = ReadClock
  BY ClockTyped DEF Job
<1>2. queue[t] \in Seq(Job)
  BY Fields
<1>3. aborts => queue[t] # <<>>
  BY DEF JobsWell, JobsOf
<1>4. aborts => /\ Tail(queue[t]) \in Seq(Job) /\ queue[t][1] \in Job
                /\ queue[t][1].moment \in Moment
  <2>1. ASSUME aborts PROVE Tail(queue[t]) \in Seq(Job) /\ Len(queue[t]) > 0
    BY <1>2, <1>3, <2>1, TailFacts
  <2> QED
    BY <2>1, Fields
<1>5. jobs \in Seq(Job)
  BY <1>2, <1>4
<1>6. Len(jobs) \in Nat /\ Len(jobs) < MaxQueue
  BY <1>5 DEF Record
<1>7. Append(jobs, job) \in Seq(Job) /\ Len(Append(jobs, job)) = Len(jobs) + 1
  BY <1>1, <1>5, AppendFacts
<1>8. queue' = [queue EXCEPT ![t] = Append(jobs, job)]
      /\ UNCHANGED <<claim, active, lock, txs>>
      /\ phase' = (IF aborts THEN [phase EXCEPT ![t] = "idle"] ELSE phase)
      /\ last' = IF aborts THEN [last EXCEPT ![t] = queue[t][1].moment] ELSE last
  BY DEF Record
<1>9. Len(Append(jobs, job)) <= MaxQueue
  BY <1>6, <1>7, TrackerAssumption
<1>10. queue' \in [Tabs -> Seq(Job)] /\ \A u \in Tabs : Len(queue'[u]) <= MaxQueue
  BY <1>7, <1>8, <1>9 DEF TypeOK
<1>11. phase' \in [Tabs -> Phases] /\ last' \in [Tabs -> Moment]
  BY <1>4, <1>8 DEF TypeOK, Phases
<1>12. QueuesTyped'
  BY <1>8, <1>10, <1>11 DEF QueuesTyped, TypeOK
<1> HIDE DEF job
<1>13. CASE aborts
  BY <1>1, <1>5, <1>6, <1>8, <1>12, <1>13
<1>14. CASE ~aborts
  BY <1>1, <1>5, <1>6, <1>8, <1>12, <1>14
<1> QED
  BY <1>13, <1>14

\* The session is asked for: at once, or when the lock is granted.
LEMMA ReadStartTyped ==
  ASSUME TypeOK, NEW t \in Tabs, NEW q \in Seq(Tabs),
         \A i, j \in 1 .. Len(q) : q[i] = q[j] => i = j,
         \A i \in 1 .. Len(q) : q[i] # t, ReadStart(t, q)
  PROVE  /\ TxsTyped' /\ phase' = [phase EXCEPT ![t] = "claiming"]
         /\ claim' = [claim EXCEPT ![t] = ReadClock] /\ claim' \in [Tabs -> Moment]
         /\ phase' \in [Tabs -> Phases] /\ seen' \in [Tabs -> Nat]
<1>1. TxsTyped'
  BY OpenTyped DEF ReadStart
<1> QED
  BY <1>1, ClockTyped DEF ReadStart, TypeOK, Phases

LEMMA AcquireTyped ==
  ASSUME TypeOK, NEW t \in Tabs, NEW q \in Seq(Tabs),
         \A i, j \in 1 .. Len(q) : q[i] = q[j] => i = j,
         \A i \in 1 .. Len(q) : q[i] # t, Acquire(t, q)
  PROVE  /\ TxsTyped' /\ phase' \in [Tabs -> Phases]
         /\ claim' \in [Tabs -> Moment] /\ seen' \in [Tabs -> Nat]
<1>1. CASE webLocks /\ lock # t
  BY <1>1 DEF Acquire, TypeOK, TxsTyped, Phases
<1>2. CASE ~(webLocks /\ lock # t)
  BY <1>2, ReadStartTyped DEF Acquire
<1> QED
  BY <1>1, <1>2

\* What one checkpoint makes of the row of its run: it ends where it was, or
\* it grows by the time between two moments no interruption separates.
Advanced(new, row, before, after, stop) ==
  /\ new \in Table!Row /\ new.state \in {"open", "closed"}
  /\ stop => new.state = "closed"
  /\ new.start = row.start /\ new.beat >= row.beat
  /\ \/ new = Table!Seal(row, new.beat)
     \/ new = [row EXCEPT !.beat = new.beat, !.rev = row.rev + 1]
  /\ \/ new.beat = row.beat /\ new.state = "closed"
     \/ /\ before.mono <= after.mono /\ after.mono <= before.mono + MaxGap
        /\ before.wall <= after.wall
        /\ new.beat = row.beat + (after.mono - before.mono)

LEMMA AdvanceFacts ==
  ASSUME NEW row \in Table!Row, NEW before \in Moment, NEW after \in Moment,
         NEW stop \in BOOLEAN, row.state = "open"
  PROVE  Advanced(Advance(row, before, after, stop), row, before, after, stop)
<1> DEFINE broken == Interrupted(before, after)
           at == IF broken THEN row.beat ELSE row.beat + (after.mono - before.mono)
           close == stop \/ broken \/ at >= row.start + MaxDuration - MaxGap
           new == Advance(row, before, after, stop)
<1>1. /\ row.start \in Nat /\ row.beat \in Nat /\ row.rev \in Nat
      /\ row.rev + 1 \in Nat
      /\ before.wall \in Nat /\ before.mono \in Nat
      /\ after.wall \in Nat /\ after.mono \in Nat
  BY DEF Table!Row, Moment
<1>2. ~broken => /\ before.mono <= after.mono /\ after.mono <= before.mono + MaxGap
                 /\ before.wall <= after.wall
  BY <1>1, TrackerAssumption DEF Interrupted
<1>3. at \in Nat /\ at >= row.beat
  BY <1>1, <1>2
<1>4. new = IF close THEN Table!Seal(row, at)
            ELSE [row EXCEPT !.beat = at, !.rev = row.rev + 1]
  BY DEF Advance
<1>5. /\ Table!Seal(row, at) \in Table!Row
      /\ Table!Seal(row, at).state = "closed"
      /\ Table!Seal(row, at).start = row.start /\ Table!Seal(row, at).beat = at
      /\ [row EXCEPT !.beat = at, !.rev = row.rev + 1] \in Table!Row
      /\ [row EXCEPT !.beat = at, !.rev = row.rev + 1].state = row.state
      /\ [row EXCEPT !.beat = at, !.rev = row.rev + 1].start = row.start
      /\ [row EXCEPT !.beat = at, !.rev = row.rev + 1].beat = at
  <2> HIDE DEF at
  <2> QED
    BY <1>1, <1>3 DEF Table!Row, Table!Seal
<1> HIDE DEF broken, at, new
<1> SUFFICES Advanced(new, row, before, after, stop)
  BY DEF new
<1>6. CASE close
  <2>1. new = Table!Seal(row, at)
    BY <1>4, <1>6
  <2>2. /\ new \in Table!Row /\ new.state = "closed" /\ new.start = row.start
        /\ new.beat = at
    BY <1>3, <1>5, <2>1
  <2>3. \/ at = row.beat
        \/ ~broken /\ at = row.beat + (after.mono - before.mono)
    BY DEF at
  <2> QED
    BY <1>2, <1>3, <2>1, <2>2, <2>3 DEF Advanced
<1>7. CASE ~close
  <2>1. new = [row EXCEPT !.beat = at, !.rev = row.rev + 1] /\ ~broken /\ ~stop
    BY <1>4, <1>7
  <2>2. /\ new \in Table!Row /\ new.state = "open" /\ new.start = row.start
        /\ new.beat = at
    BY <1>3, <1>5, <2>1
  <2>3. at = row.beat + (after.mono - before.mono)
    BY <2>1 DEF at
  <2> QED
    BY <1>2, <1>3, <2>1, <2>2, <2>3 DEF Advanced
<1> QED
  BY <1>6, <1>7

\* Sealing what is open leaves every start, end and id in use as it was.
LEMMA SealAllFacts ==
  ASSUME rows \in [Sids -> Table!Row]
  PROVE  /\ Table!SealAll(rows) \in [Sids -> Table!Row]
         /\ \A s \in Sids :
              /\ Table!SealAll(rows)[s].state # "open"
              /\ Table!SealAll(rows)[s].state = "none" <=> rows[s].state = "none"
              /\ Table!SealAll(rows)[s].start = rows[s].start
              /\ Table!SealAll(rows)[s].beat = rows[s].beat
<1>1. ASSUME NEW s \in Sids
      PROVE  /\ Table!Seal(rows[s], rows[s].beat) \in Table!Row
             /\ Table!Seal(rows[s], rows[s].beat).state = "closed"
             /\ Table!Seal(rows[s], rows[s].beat).start = rows[s].start
             /\ Table!Seal(rows[s], rows[s].beat).beat = rows[s].beat
  <2>1. rows[s] \in Table!Row /\ rows[s].beat \in Nat /\ rows[s].rev + 1 \in Nat
    BY DEF Table!Row
  <2> QED
    BY <2>1 DEF Table!Row, Table!Seal
<1> QED
  BY <1>1 DEF Table!SealAll

LEMMA NewRowFacts ==
  ASSUME NEW at \in Nat
  PROVE  /\ Table!NewRow(at) \in Table!Row /\ Table!NewRow(at).state = "open"
         /\ Table!NewRow(at).start = at /\ Table!NewRow(at).beat = at
  BY DEF Table!Row, Table!NewRow

\* The tab of a transaction that may run, and its job.
LEMMA RunFacts ==
  ASSUME TypeOK, JobsWell, TxsWell, NEW t \in Tabs, phase[t] \in {"saving", "claiming"}, Runs(t)
  PROVE  /\ queue[t] # <<>> /\ Len(queue[t]) > 0 /\ HeadJob(t) = queue[t][1]
         /\ HeadJob(t) \in Job /\ HeadJob(t).stop \in BOOLEAN
         /\ HeadJob(t).moment \in Moment
         /\ phase[t] = "saving" => active[t] \in Sids
         /\ phase[t] = "claiming" => active[t] = NoSid
         /\ Tail(txs) \in Seq(Tabs)
         /\ \A i \in 1 .. Len(Tail(txs)) : Tail(txs)[i] # t
         /\ \A i, j \in 1 .. Len(Tail(txs)) : Tail(txs)[i] = Tail(txs)[j] => i = j
<1>1. queue[t] # <<>>
  BY DEF JobsWell, JobsOf
<1>2. queue[t] \in Seq(Job)
  BY Fields
<1>3. Len(queue[t]) > 0 /\ Head(queue[t]) = queue[t][1] /\ Head(queue[t]) \in Job
  BY <1>1, <1>2, TailFacts
<1>4. /\ Tail(txs) \in Seq(Tabs)
      /\ \A i \in 1 .. Len(Tail(txs)) : Tail(txs)[i] # t
      /\ \A i, j \in 1 .. Len(Tail(txs)) : Tail(txs)[i] = Tail(txs)[j] => i = j
  BY CommitFacts
<1> QED
  BY <1>1, <1>3, <1>4 DEF HeadJob, Job, TypeOK, JobsWell, JobsOf

\* What checkpointSession does, and what follows its transaction.
LEMMA SaveFacts ==
  ASSUME TypeOK, JobsWell, TxsWell, NEW t \in Tabs, SaveCheckpoint(t)
  PROVE  /\ active[t] \in Sids /\ rows[active[t]].state = "open"
         /\ lease \in Lease /\ lease.sid = active[t] /\ lease.owner = t
         /\ \E new \in Table!Row :
              /\ Advanced(new, rows[active[t]], last[t],
                          queue[t][1].moment, queue[t][1].stop)
              /\ rows' = [rows EXCEPT ![active[t]] = new]
              /\ IF new.state = "open"
                   THEN lease' \in Lease /\ lease'.sid = active[t]
                   ELSE lease' = NoLease
              /\ AfterCheckpoint(t, new.state = "open")
<1> DEFINE job == queue[t][1]
           new == Advance(rows[active[t]], last[t], job.moment, job.stop)
<1>1. /\ queue[t] # <<>> /\ HeadJob(t) = job /\ job.stop \in BOOLEAN
      /\ job.moment \in Moment /\ active[t] \in Sids
  BY RunFacts DEF SaveCheckpoint
<1>2. /\ lease # NoLease /\ lease.sid = active[t] /\ rows[active[t]].state = "open"
      /\ lease.owner = t
  BY DEF SaveCheckpoint, OwnsOpenRow
<1>3. lease \in Lease /\ rows[active[t]] \in Table!Row /\ last[t] \in Moment
  BY <1>1, <1>2 DEF TypeOK
<1>4. Advanced(new, rows[active[t]], last[t], job.moment, job.stop)
  BY <1>1, <1>2, <1>3, AdvanceFacts
<1> HIDE DEF new
<1>5. /\ rows' = [rows EXCEPT ![active[t]] = new]
      /\ lease' = IF new.state = "open"
                    THEN [lease EXCEPT !.expires = job.moment.wall + MaxGap] ELSE NoLease
      /\ AfterCheckpoint(t, new.state = "open")
  BY <1>1 DEF SaveCheckpoint, new
<1>6. job.moment.wall + MaxGap \in Nat
  BY <1>1, TrackerAssumption DEF Moment
<1>7. /\ [lease EXCEPT !.expires = job.moment.wall + MaxGap] \in Lease
      /\ [lease EXCEPT !.expires = job.moment.wall + MaxGap].sid = lease.sid
  BY <1>3, <1>6 DEF Lease
<1> QED
  BY <1>1, <1>2, <1>3, <1>4, <1>5, <1>7 DEF Advanced

\* The three ways the job of a checkpoint goes on.
LEMMA AfterFacts ==
  ASSUME TypeOK, JobsWell, TxsWell, NEW t \in Tabs, NEW open \in BOOLEAN,
         phase[t] = "saving", Runs(t), AfterCheckpoint(t, open)
  PROVE  \/ /\ open /\ Finish(t, queue[t][1].moment) /\ Commit
            /\ UNCHANGED <<active, lock, seen>>
         \/ /\ ~open /\ queue[t][1].stop /\ Finish(t, queue[t][1].moment) /\ Commit
            /\ Release(t) /\ active' = [active EXCEPT ![t] = NoSid] /\ UNCHANGED seen
         \/ /\ ~open /\ ~queue[t][1].stop /\ Acquire(t, Tail(txs))
            /\ active' = [active EXCEPT ![t] = NoSid] /\ UNCHANGED <<queue, last, lock>>
<1>1. HeadJob(t) = queue[t][1]
  BY RunFacts
<1> QED
  BY <1>1 DEF AfterCheckpoint

LEMMA AfterTyped ==
  ASSUME TypeOK, JobsWell, TxsWell, NEW t \in Tabs, NEW open \in BOOLEAN,
         phase[t] = "saving", Runs(t), AfterCheckpoint(t, open)
  PROVE  /\ QueuesTyped' /\ TxsTyped'
         /\ active' \in [Tabs -> Sids \cup {NoSid}]
         /\ lock' \in Tabs \cup {NoTab} /\ seen' \in [Tabs -> Nat]
<1>1. /\ queue[t] # <<>> /\ queue[t][1].moment \in Moment
      /\ Tail(txs) \in Seq(Tabs)
      /\ \A i \in 1 .. Len(Tail(txs)) : Tail(txs)[i] # t
      /\ \A i, j \in 1 .. Len(Tail(txs)) : Tail(txs)[i] = Tail(txs)[j] => i = j
  BY RunFacts
<1>2. CASE Finish(t, queue[t][1].moment) /\ Commit
           /\ \/ UNCHANGED <<active, lock, seen>>
              \/ /\ Release(t) /\ active' = [active EXCEPT ![t] = NoSid]
                 /\ UNCHANGED seen
  <2>1. QueuesTyped'
    BY <1>1, <1>2, FinishTyped
  <2>2. TxsTyped'
    BY <1>1, <1>2 DEF Commit, TxsTyped
  <2> QED
    BY <1>2, <2>1, <2>2 DEF Release, TypeOK
<1>3. CASE Acquire(t, Tail(txs)) /\ active' = [active EXCEPT ![t] = NoSid]
           /\ UNCHANGED <<queue, last, lock>>
  <2>1. /\ TxsTyped' /\ phase' \in [Tabs -> Phases]
        /\ claim' \in [Tabs -> Moment] /\ seen' \in [Tabs -> Nat]
    BY <1>1, <1>3, AcquireTyped
  <2> QED
    BY <1>3, <2>1 DEF QueuesTyped, TypeOK
<1>4. \/ /\ Finish(t, queue[t][1].moment) /\ Commit
         /\ \/ UNCHANGED <<active, lock, seen>>
            \/ /\ Release(t) /\ active' = [active EXCEPT ![t] = NoSid]
               /\ UNCHANGED seen
      \/ /\ Acquire(t, Tail(txs)) /\ active' = [active EXCEPT ![t] = NoSid]
         /\ UNCHANGED <<queue, last, lock>>
  BY AfterFacts
<1> QED
  BY <1>2, <1>3, <1>4

LEMMA InitTyped == Init => TypeOK
<1> SUFFICES ASSUME Init PROVE TypeOK
  OBVIOUS
<1>1. Moment0 \in Moment /\ Table!NoRow \in Table!Row
  BY DEF Moment0, Moment, Table!NoRow, Table!Row
<1>2. QueuesTyped
  <2>1. <<>> \in Seq(Job) /\ Len(<<>>) = 0
    OBVIOUS
  <2> QED
    BY <1>1, <2>1, TrackerAssumption DEF Init, QueuesTyped, Phases
<1>3. TxsTyped
  BY DEF Init, TxsTyped
<1> QED
  BY <1>1, <1>2, <1>3, TypeParts, TrackerAssumption DEF Init

\* Every step leaves every variable in its type.
LEMMA TypeStep ==
  ASSUME TypeOK, JobsWell, TxsWell, [Next]_vars
  PROVE  TypeOK'
<1> USE DEF world, tracker, storage
<1>0. /\ webLocks \in Browsers
      /\ now \in 0 .. MaxTime /\ slept \in 0 .. now
      /\ page \in [Tabs -> {"gone", "visible", "hidden"}]
      /\ QueuesTyped
      /\ active \in [Tabs -> Sids \cup {NoSid}]
      /\ lock \in Tabs \cup {NoTab}
      /\ TxsTyped
      /\ lease \in Lease \cup {NoLease}
      /\ rows \in [Sids -> Table!Row]
      /\ faults \in 0 .. MaxFaults
      /\ seen \in [Tabs -> Nat]
  BY TypeParts
<1> DEFINE Parts ==
  /\ webLocks \in Browsers
  /\ now \in 0 .. MaxTime /\ slept \in 0 .. now
  /\ page \in [Tabs -> {"gone", "visible", "hidden"}]
  /\ QueuesTyped
  /\ active \in [Tabs -> Sids \cup {NoSid}]
  /\ lock \in Tabs \cup {NoTab}
  /\ TxsTyped
  /\ lease \in Lease \cup {NoLease}
  /\ rows \in [Sids -> Table!Row]
  /\ faults \in 0 .. MaxFaults
  /\ seen \in [Tabs -> Nat]
<1>q. UNCHANGED <<queue, phase, last, claim>> => QueuesTyped'
  BY <1>0 DEF QueuesTyped
<1>x. UNCHANGED txs => TxsTyped'
  BY <1>0 DEF TxsTyped
<1>f. Fault => faults' \in 0 .. MaxFaults
  BY <1>0, TrackerAssumption DEF Fault
<1> SUFFICES Parts'
  BY TypeParts, PTL
<1>1. CASE Tick
  <2>1. now' \in 0 .. MaxTime /\ slept' \in 0 .. now'
    BY <1>0, <1>1, TrackerAssumption DEF Tick
  <2>2. seen' \in [Tabs -> Nat]
    BY <1>0, <1>1 DEF Tick
  <2> QED
    BY <1>0, <1>1, <1>q, <1>x, <2>1, <2>2 DEF Tick
<1>2. ASSUME NEW d \in 1 .. MaxGap + 1, NEW counted \in BOOLEAN, Suspend(d, counted)
      PROVE  Parts'
  <2>1. d \in Nat
    BY TrackerAssumption
  <2>2. now' \in 0 .. MaxTime /\ slept' \in 0 .. now'
    BY <1>0, <1>2, <2>1, TrackerAssumption DEF Suspend
  <2>3. seen' \in [Tabs -> Nat]
    BY <1>0, <1>2, <2>1 DEF Suspend
  <2> QED
    BY <1>0, <1>2, <1>q, <1>x, <1>f, <2>2, <2>3 DEF Suspend
<1>3. ASSUME NEW t \in Tabs, OpenPage(t)
      PROVE  Parts'
  <2>1. ReadClock \in Moment
    BY ClockTyped
  <2>2. [stop |-> FALSE, moment |-> ReadClock] \in Job
    BY <2>1 DEF Job
  <2>3. <<[stop |-> FALSE, moment |-> ReadClock]>> \in Seq(Job)
        /\ Len(<<[stop |-> FALSE, moment |-> ReadClock]>>) <= MaxQueue
    BY <2>2, TrackerAssumption
  <2>4. QueuesTyped'
    BY <1>0, <1>3, <2>1, <2>3 DEF OpenPage, QueuesTyped
  <2> QED
    BY <1>0, <1>3, <1>x, <2>4 DEF OpenPage
<1>4. ASSUME NEW t \in Tabs, NEW stop \in BOOLEAN, Record(t, stop),
             UNCHANGED <<world, storage, faults, seen>>,
             page' \in [Tabs -> {"gone", "visible", "hidden"}]
      PROVE  Parts'
  <2>1. QueuesTyped' /\ UNCHANGED <<claim, active, lock, txs>>
    BY <1>4, RecordTyped
  <2> QED
    BY <1>0, <1>4, <1>x, <2>1
<1>5. ASSUME NEW t \in Tabs, Show(t) \/ Hide(t) \/ Heartbeat(t)
      PROVE  Parts'
  <2>1. page' \in [Tabs -> {"gone", "visible", "hidden"}]
    BY <1>0, <1>5 DEF Show, Hide, Heartbeat
  <2> QED
    BY <1>4, <1>5, <2>1 DEF Show, Hide, Heartbeat
<1>6. ASSUME NEW t \in Tabs, Crash(t)
      PROVE  Parts'
  <2>1. <<>> \in Seq(Job) /\ Len(<<>>) = 0 /\ Moment0 \in Moment
    BY DEF Moment0, Moment
  <2>2. QueuesTyped'
    BY <1>0, <1>6, <2>1, TrackerAssumption DEF Crash, QueuesTyped, Phases
  <2>3. TxsTyped'
    <3>1. txs \in Seq(Tabs) /\ \A i, j \in 1 .. Len(txs) : txs[i] = txs[j] => i = j
      BY <1>0 DEF TxsTyped
    <3> DEFINE r == RemoveFirst(txs, t)
    <3>2. r \in Seq(Tabs) /\ Len(r) \in Nat /\ Without(r, txs, t)
      BY <3>1, RemoveFacts
    <3>3. PICK h \in [1 .. Len(r) -> 1 .. Len(txs)] :
            /\ \A i \in 1 .. Len(r) : r[i] = txs[h[i]] /\ txs[h[i]] # t
            /\ \A i, j \in 1 .. Len(r) : i < j => h[i] < h[j]
      BY <3>2 DEF Without
    <3> HIDE DEF r
    <3>4. ASSUME NEW i \in 1 .. Len(r), NEW j \in 1 .. Len(r), r[i] = r[j]
          PROVE  i = j
      <4>1. h[i] = h[j]
        BY <3>1, <3>3, <3>4
      <4>2. ~(h[i] < h[j]) /\ ~(h[j] < h[i])
        BY <4>1, <3>1, <3>3
      <4> QED
        BY <3>2, <3>3, <4>2
    <3> QED
      BY <1>6, <3>2, <3>4 DEF Crash, TxsTyped, r
  <2>4. lock' \in Tabs \cup {NoTab}
    BY <1>0, <1>6 DEF Crash
  <2> QED
    BY <1>0, <1>6, <1>f, <2>2, <2>3, <2>4 DEF Crash
<1>7. ASSUME NEW t \in Tabs, DropStaleTick(t)
      PROVE  Parts'
  <2>1. QueuesTyped'
    BY <1>7, Fields, FinishTyped DEF DropStaleTick
  <2> QED
    BY <1>0, <1>7, <1>x, <2>1 DEF DropStaleTick
<1>8. ASSUME NEW t \in Tabs, phase[t] = "idle"
      PROVE  \A i \in 1 .. Len(txs) : txs[i] # t
  BY <1>8 DEF TxsWell, InTx
<1>9. ASSUME NEW t \in Tabs, StartCheckpoint(t)
      PROVE  Parts'
  <2>1. TxsTyped'
    BY <1>0, <1>8, <1>9, OpenTyped DEF StartCheckpoint, TxsTyped
  <2>2. QueuesTyped'
    BY <1>0, <1>9 DEF StartCheckpoint, QueuesTyped, Phases
  <2> QED
    BY <1>0, <1>9, <2>1, <2>2 DEF StartCheckpoint
<1>10. ASSUME NEW t \in Tabs, StartClaim(t)
       PROVE  Parts'
  <2>1. /\ TxsTyped' /\ phase' \in [Tabs -> Phases]
        /\ claim' \in [Tabs -> Moment] /\ seen' \in [Tabs -> Nat]
    BY <1>0, <1>8, <1>10, AcquireTyped DEF StartClaim, TxsTyped
  <2> QED
    BY <1>0, <1>10, <2>1 DEF StartClaim, QueuesTyped
<1>11. ASSUME NEW t \in Tabs, StopNothing(t)
       PROVE  Parts'
  <2>1. queue[t] # <<>> /\ HeadJob(t) \in Job
    <3>1. queue[t] \in Seq(Job) /\ queue[t] # <<>>
      BY <1>11, Fields DEF StopNothing
    <3> QED
      BY <3>1, TailFacts DEF HeadJob
  <2>2. HeadJob(t).moment \in Moment
    BY <2>1 DEF Job
  <2>3. QueuesTyped'
    BY <1>11, <2>1, <2>2, FinishTyped DEF StopNothing
  <2> QED
    BY <1>0, <1>11, <1>x, <2>3 DEF StopNothing, Release
<1>12. ASSUME NEW t \in Tabs, SaveCheckpoint(t)
       PROVE  Parts'
  <2>1. active[t] \in Sids
    BY <1>12, SaveFacts
  <2>2. PICK new \in Table!Row :
          /\ rows' = [rows EXCEPT ![active[t]] = new]
          /\ lease' \in Lease \/ lease' = NoLease
          /\ AfterCheckpoint(t, new.state = "open")
    BY <1>12, SaveFacts
  <2>3. /\ QueuesTyped' /\ TxsTyped'
        /\ active' \in [Tabs -> Sids \cup {NoSid}]
        /\ lock' \in Tabs \cup {NoTab} /\ seen' \in [Tabs -> Nat]
    BY <1>12, <2>2, AfterTyped DEF SaveCheckpoint
  <2> QED
    BY <1>0, <1>12, <2>1, <2>2, <2>3 DEF SaveCheckpoint
<1>13. ASSUME NEW t \in Tabs, LoseSession(t)
       PROVE  Parts'
  <2>1. /\ QueuesTyped' /\ TxsTyped'
        /\ active' \in [Tabs -> Sids \cup {NoSid}]
        /\ lock' \in Tabs \cup {NoTab} /\ seen' \in [Tabs -> Nat]
    BY <1>13, AfterTyped DEF LoseSession
  <2> QED
    BY <1>0, <1>13, <2>1 DEF LoseSession
<1>14. ASSUME NEW t \in Tabs, phase[t] \in {"saving", "claiming"}, Runs(t), Commit
       PROVE  TxsTyped'
  BY <1>14, RunFacts DEF Commit, TxsTyped
<1>15. ASSUME NEW t \in Tabs, CheckpointFails(t) \/ ClaimFails(t) \/ RefuseClaim(t)
       PROVE  Parts'
  <2>1. TxsTyped'
    BY <1>14, <1>15 DEF CheckpointFails, ClaimFails, RefuseClaim
  <2>2. queue[t] # <<>> /\ HeadJob(t).moment \in Moment /\ last[t] \in Moment
    BY <1>15, RunFacts, Fields DEF CheckpointFails, ClaimFails, RefuseClaim
  <2>3. QueuesTyped'
    BY <1>15, <2>2, FinishTyped DEF CheckpointFails, ClaimFails, RefuseClaim
  <2> QED
    BY <1>0, <1>15, <1>f, <2>1, <2>3 DEF CheckpointFails, ClaimFails, RefuseClaim, Release
<1>16. ASSUME NEW t \in Tabs, GrantLock(t)
       PROVE  Parts'
  <2>1. \A i \in 1 .. Len(txs) : txs[i] # t
    BY <1>16 DEF TxsWell, InTx, GrantLock
  <2>2. /\ TxsTyped' /\ phase' \in [Tabs -> Phases]
        /\ claim' \in [Tabs -> Moment] /\ seen' \in [Tabs -> Nat]
    BY <1>0, <1>16, <2>1, ReadStartTyped DEF GrantLock, TxsTyped
  <2> QED
    BY <1>0, <1>16, <2>2 DEF GrantLock, QueuesTyped
<1>17. ASSUME NEW t \in Tabs, NEW s \in Sids, ClaimSession(t, s)
       PROVE  Parts'
  <2>1. TxsTyped'
    BY <1>14, <1>17 DEF ClaimSession
  <2>2. queue[t] # <<>> /\ claim[t] \in Moment
    BY <1>17, RunFacts, Fields DEF ClaimSession
  <2>3. QueuesTyped'
    BY <1>17, <2>2, FinishTyped DEF ClaimSession
  <2>4. claim[t].wall \in Nat
    BY <2>2 DEF Moment
  <2>5. rows' \in [Sids -> Table!Row]
    BY <1>0, <1>17, <2>4, SealAllFacts, NewRowFacts DEF ClaimSession
  <2>6. lease' \in Lease
    <3>1. claim[t].wall + MaxGap \in Nat
      BY <2>4, TrackerAssumption
    <3> QED
      BY <1>17, <3>1 DEF ClaimSession, Lease
  <2> QED
    BY <1>0, <1>17, <2>1, <2>3, <2>5, <2>6 DEF ClaimSession
<1>18. CASE Recover
  BY <1>0, <1>18, <1>q, <1>x, SealAllFacts DEF Recover
<1>19. CASE UNCHANGED vars
  BY <1>0, <1>19, <1>q, <1>x DEF vars
<1>20. ASSUME NEW t \in Tabs, FinalFails(t)
       PROVE  Parts'
  <2>1. TxsTyped'
    BY <1>14, <1>20 DEF FinalFails
  <2>2. QueuesTyped'
    BY <1>0, <1>20 DEF FinalFails, QueuesTyped, Phases
  <2> QED
    BY <1>0, <1>20, <1>f, <2>1, <2>2 DEF FinalFails
<1> HIDE DEF Parts
<1> QED
  BY <1>1, <1>2, <1>3, <1>5, <1>6, <1>7, <1>9, <1>10, <1>11, <1>12, <1>13, <1>15,
     <1>16, <1>17, <1>18, <1>19, <1>20 DEF Next, Work

-----------------------------------------------------------------------------
(* The queues of the tabs.                                                 *)

\* What a step of one tab leaves to the others.
Same(u) ==
  /\ page'[u] = page[u] /\ queue'[u] = queue[u] /\ phase'[u] = phase[u]
  /\ last'[u] = last[u] /\ claim'[u] = claim[u] /\ active'[u] = active[u]
  /\ seen'[u] = seen[u]

TabStep(t) ==
  \/ OpenPage(t) \/ Show(t) \/ Hide(t) \/ Heartbeat(t) \/ Crash(t)
  \/ Work(t) \/ GrantLock(t)

LEMMA OthersSame ==
  ASSUME TypeOK, NEW t \in Tabs, TabStep(t), NEW u \in Tabs, u # t
  PROVE  Same(u)
<1> USE DEF TypeOK, Same, world, tracker, storage
<1>1. CASE OpenPage(t) \/ Crash(t)
  BY <1>1 DEF OpenPage, Crash
<1>2. CASE Show(t) \/ Hide(t) \/ Heartbeat(t)
  BY <1>2 DEF Show, Hide, Heartbeat, Record
<1>3. CASE DropStaleTick(t) \/ StartCheckpoint(t) \/ StopNothing(t) \/ CheckpointFails(t)
           \/ FinalFails(t) \/ RefuseClaim(t) \/ ClaimFails(t)
  BY <1>3 DEF DropStaleTick, StartCheckpoint, StopNothing, CheckpointFails, FinalFails,
              RefuseClaim, ClaimFails, Finish
<1>4. CASE StartClaim(t) \/ GrantLock(t)
  BY <1>4 DEF StartClaim, GrantLock, Acquire, ReadStart
<1>5. ASSUME NEW open \in BOOLEAN, AfterCheckpoint(t, open), UNCHANGED page
      PROVE  Same(u)
  BY <1>5 DEF AfterCheckpoint, Finish, Acquire, ReadStart
<1>6. CASE SaveCheckpoint(t)
  BY <1>5, <1>6 DEF SaveCheckpoint
<1>7. CASE LoseSession(t)
  BY <1>5, <1>7 DEF LoseSession
<1>8. ASSUME NEW s \in Sids, ClaimSession(t, s) PROVE Same(u)
  BY <1>8 DEF ClaimSession, Finish
<1> QED
  BY <1>1, <1>2, <1>3, <1>4, <1>6, <1>7, <1>8 DEF TabStep, Work

\* What the end of a job does to the queue.
LEMMA FinishFacts ==
  ASSUME TypeOK, NEW t \in Tabs, NEW m \in Moment, queue[t] # <<>>, Finish(t, m)
  PROVE  /\ queue'[t] = Tail(queue[t]) /\ queue'[t] \in Seq(Job)
         /\ Len(queue[t]) \in Nat /\ Len(queue[t]) > 0
         /\ Len(queue'[t]) = Len(queue[t]) - 1
         /\ \A i \in 1 .. Len(queue'[t]) : queue'[t][i] = queue[t][i + 1]
         /\ phase'[t] = "idle" /\ last'[t] = m /\ claim'[t] = Moment0
<1>1. queue[t] \in Seq(Job)
  BY Fields
<1>2. /\ Tail(queue[t]) \in Seq(Job) /\ Len(queue[t]) \in Nat /\ Len(queue[t]) > 0
      /\ Len(Tail(queue[t])) = Len(queue[t]) - 1
      /\ \A i \in 1 .. Len(queue[t]) - 1 : Tail(queue[t])[i] = queue[t][i + 1]
  BY <1>1, TailFacts
<1>3. /\ queue'[t] = Tail(queue[t])
      /\ phase'[t] = "idle" /\ last'[t] = m /\ claim'[t] = Moment0
  BY DEF Finish, TypeOK
<1> QED
  BY <1>2, <1>3

LEMMA FinishJobs ==
  ASSUME TypeOK, JobsWell, NEW t \in Tabs, NEW m \in Moment, queue[t] # <<>>,
         Finish(t, m), page' = page, active'[t] # NoSid => ~queue[t][1].stop
  PROVE  JobsOf(t)'
<1>1. /\ queue'[t] \in Seq(Job) /\ Len(queue[t]) \in Nat /\ Len(queue[t]) > 0
      /\ Len(queue'[t]) = Len(queue[t]) - 1
      /\ \A i \in 1 .. Len(queue'[t]) : queue'[t][i] = queue[t][i + 1]
      /\ phase'[t] = "idle"
  BY FinishFacts
<1>2. page[t] # "gone" /\ (page[t] = "hidden" => queue[t][Len(queue[t])].stop)
  BY DEF JobsWell, JobsOf
<1>3. queue'[t] # <<>> => Len(queue'[t]) > 0
  BY <1>1
<1>4. queue'[t] # <<>> /\ page[t] = "hidden" => queue'[t][Len(queue'[t])].stop
  BY <1>1, <1>2, <1>3
<1>5. ASSUME page[t] = "hidden", active'[t] # NoSid PROVE queue'[t] # <<>>
  <2>1. Len(queue[t]) # 1
    BY <1>2, <1>5
  <2>2. /\ Len(queue[t]) \in Nat /\ Len(queue[t]) > 0
        /\ Len(queue'[t]) = Len(queue[t]) - 1
    BY <1>1
  <2>3. Len(queue'[t]) # 0
    BY <2>1, <2>2
  <2> QED
    BY <2>3
<1> QED
  BY <1>1, <1>2, <1>4, <1>5 DEF JobsOf

\* The queue of a tab after record(): job follows the jobs that are left.
Recorded(t, stop, jobs, job) ==
  /\ Len(jobs) \in Nat /\ job.stop = stop /\ job.moment = ReadClock
  /\ queue'[t] \in Seq(Job) /\ Len(queue'[t]) = Len(jobs) + 1
  /\ \A i \in 1 .. Len(jobs) : queue'[t][i] = jobs[i]
  /\ queue'[t][Len(jobs) + 1] = job
  /\ claim'[t] = claim[t] /\ active'[t] = active[t]
  /\ \/ jobs = queue[t] /\ phase'[t] = phase[t] /\ last'[t] = last[t]
     \/ /\ stop /\ phase[t] = "waiting" /\ phase'[t] = "idle"
        /\ queue[t] # <<>> /\ Len(jobs) = Len(queue[t]) - 1
        /\ \A i \in 1 .. Len(jobs) : jobs[i] = queue[t][i + 1]
        /\ last'[t] = queue[t][1].moment

LEMMA RecordFacts ==
  ASSUME TypeOK, JobsWell, NEW t \in Tabs, NEW stop \in BOOLEAN, Record(t, stop)
  PROVE  \E jobs \in Seq(Job), job \in Job : Recorded(t, stop, jobs, job)
<1>1. UNCHANGED <<claim, active>>
  BY RecordTyped
<1>2. PICK jobs \in Seq(Job), job \in Job :
        /\ queue' = [queue EXCEPT ![t] = Append(jobs, job)]
        /\ Len(jobs) \in Nat
        /\ job.stop = stop /\ job.moment = ReadClock
        /\ \/ jobs = queue[t] /\ UNCHANGED <<phase, last>>
           \/ /\ stop /\ phase[t] = "waiting" /\ jobs = Tail(queue[t])
              /\ phase' = [phase EXCEPT ![t] = "idle"]
              /\ last' = [last EXCEPT ![t] = queue[t][1].moment]
  BY RecordTyped
<1>3. queue'[t] = Append(jobs, job)
  BY <1>2 DEF TypeOK
<1>4. /\ Append(jobs, job) \in Seq(Job) /\ Len(Append(jobs, job)) = Len(jobs) + 1
      /\ \A i \in 1 .. Len(jobs) : Append(jobs, job)[i] = jobs[i]
      /\ Append(jobs, job)[Len(jobs) + 1] = job
  BY AppendFacts
<1> SUFFICES Recorded(t, stop, jobs, job)
  OBVIOUS
<1>5. CASE jobs = queue[t] /\ UNCHANGED <<phase, last>>
  BY <1>1, <1>2, <1>3, <1>4, <1>5 DEF Recorded, TypeOK
<1>6. CASE /\ stop /\ phase[t] = "waiting" /\ jobs = Tail(queue[t])
           /\ phase' = [phase EXCEPT ![t] = "idle"]
           /\ last' = [last EXCEPT ![t] = queue[t][1].moment]
  <2>1. queue[t] \in Seq(Job) /\ queue[t] # <<>>
    BY <1>6, Fields DEF JobsWell, JobsOf
  <2>2. /\ Len(jobs) = Len(queue[t]) - 1
        /\ \A i \in 1 .. Len(queue[t]) - 1 : jobs[i] = queue[t][i + 1]
    BY <1>6, <2>1, TailFacts
  <2>3. phase'[t] = "idle" /\ last'[t] = queue[t][1].moment
    BY <1>6 DEF TypeOK
  <2> QED
    BY <1>1, <1>2, <1>3, <1>4, <1>6, <2>1, <2>2, <2>3 DEF Recorded
<1> QED
  BY <1>2, <1>5, <1>6

LEMMA InitJobs == Init => JobsWell /\ TxsWell
<1> SUFFICES ASSUME Init PROVE JobsWell /\ TxsWell
  OBVIOUS
<1> QED
  BY DEF Init, JobsWell, JobsOf, TxsWell, InTx

\* The phases, the queues and the trackers' sessions stay in step.
LEMMA JobsStep ==
  ASSUME TypeOK, JobsWell, TxsWell, [Next]_vars
  PROVE  JobsWell'
<1> USE DEF world, tracker, storage
<1>1. CASE UNCHANGED <<page, queue, phase, active>>
  BY <1>1 DEF JobsWell, JobsOf
<1>2. ASSUME NEW t \in Tabs, TabStep(t)
      PROVE  JobsOf(t)'
  <2> USE DEF JobsOf
  <2>0. JobsOf(t)
    BY DEF JobsWell
  <2>1. CASE OpenPage(t)
    BY <2>0, <2>1 DEF OpenPage, TypeOK
  <2>2. ASSUME NEW stop \in BOOLEAN, Record(t, stop), page[t] # "gone",
               (page'[t] = "hidden" /\ stop) \/ page'[t] = "visible"
        PROVE  JobsOf(t)'
    <3>1. PICK jobs \in Seq(Job), job \in Job : Recorded(t, stop, jobs, job)
      BY <2>2, RecordFacts
    <3>2. Len(queue'[t]) = Len(jobs) + 1 /\ Len(jobs) \in Nat
          /\ queue'[t][Len(jobs) + 1] = job /\ job.stop = stop
          /\ active'[t] = active[t]
      BY <3>1 DEF Recorded
    <3>3. queue'[t] # <<>>
      BY <3>2
    <3>4. page'[t] = "hidden" => queue'[t][Len(queue'[t])].stop
      BY <2>2, <3>2
    <3>5. /\ phase'[t] = "saving" => active'[t] # NoSid
          /\ phase'[t] \in {"waiting", "claiming"} => active'[t] = NoSid /\ ~queue'[t][1].stop
      <4>1. CASE jobs = queue[t] /\ phase'[t] = phase[t]
        <5>1. phase[t] # "idle" => Len(queue[t]) > 0
          BY <2>0, <3>2, <4>1
        <5>2. phase[t] # "idle" => queue'[t][1] = queue[t][1]
          BY <3>1, <3>2, <4>1, <5>1 DEF Recorded
        <5> QED
          BY <2>0, <3>2, <4>1, <5>2
      <4>2. CASE phase'[t] = "idle"
        BY <4>2
      <4> QED
        BY <3>1, <4>1, <4>2 DEF Recorded
    <3> QED
      BY <2>2, <3>3, <3>4, <3>5
  <2>3. CASE Show(t) \/ Hide(t) \/ Heartbeat(t)
    BY <2>2, <2>3 DEF Show, Hide, Heartbeat, TypeOK
  <2>4. CASE Crash(t)
    BY <2>4 DEF Crash, TypeOK
  <2>5. CASE DropStaleTick(t)
    <3>1. queue[t] # <<>> /\ last[t] \in Moment /\ Finish(t, last[t])
          /\ page' = page /\ active' = active
      BY <2>5, Fields DEF DropStaleTick
    <3>2. HeadJob(t) = queue[t][1]
      BY <3>1, Fields, TailFacts DEF HeadJob
    <3> QED
      BY <2>5, <3>1, <3>2, FinishJobs DEF DropStaleTick, Stale
  <2>6. CASE StartCheckpoint(t)
    BY <2>0, <2>6 DEF StartCheckpoint, TypeOK
  <2>7. CASE StartClaim(t)
    <3>1. queue[t] # <<>> /\ ~HeadJob(t).stop /\ queue' = queue /\ active' = active /\ page' = page
          /\ active[t] = NoSid /\ phase'[t] \in {"waiting", "claiming"}
      BY <2>7 DEF StartClaim, Acquire, ReadStart, TypeOK
    <3>2. HeadJob(t) = queue[t][1]
      BY <3>1, Fields, TailFacts DEF HeadJob
    <3> QED
      BY <2>0, <3>1, <3>2
  <2>8. CASE StopNothing(t)
    <3>1. queue[t] # <<>> /\ Finish(t, HeadJob(t).moment) /\ page' = page
          /\ active' = active /\ active[t] = NoSid
      BY <2>8 DEF StopNothing
    <3>2. HeadJob(t) \in Job
      BY <3>1, Fields, TailFacts DEF HeadJob
    <3>3. HeadJob(t).moment \in Moment
      BY <3>2 DEF Job
    <3> QED
      BY <3>1, <3>3, FinishJobs
  <2>9. ASSUME NEW open \in BOOLEAN, phase[t] = "saving", Runs(t), page' = page,
               queue[t][1].stop => ~open, AfterCheckpoint(t, open)
        PROVE  JobsOf(t)'
    <3>1. queue[t] # <<>> /\ queue[t][1].moment \in Moment
      BY <2>9, RunFacts
    <3>2. CASE open /\ Finish(t, queue[t][1].moment) /\ UNCHANGED active
      BY <2>9, <3>1, <3>2, FinishJobs
    <3>3. CASE Finish(t, queue[t][1].moment) /\ active' = [active EXCEPT ![t] = NoSid]
      <4>1. active'[t] = NoSid
        BY <3>3 DEF TypeOK
      <4> QED
        BY <2>9, <3>1, <3>3, <4>1, FinishJobs
    <3>4. CASE /\ ~queue[t][1].stop /\ Acquire(t, Tail(txs))
               /\ active' = [active EXCEPT ![t] = NoSid] /\ UNCHANGED queue
      <4>1. active'[t] = NoSid /\ phase'[t] \in {"waiting", "claiming"}
        BY <3>4 DEF TypeOK, Acquire, ReadStart
      <4> QED
        BY <2>0, <2>9, <3>1, <3>4, <4>1
    <3>5. \/ open /\ Finish(t, queue[t][1].moment) /\ UNCHANGED active
          \/ Finish(t, queue[t][1].moment) /\ active' = [active EXCEPT ![t] = NoSid]
          \/ /\ ~queue[t][1].stop /\ Acquire(t, Tail(txs))
             /\ active' = [active EXCEPT ![t] = NoSid] /\ UNCHANGED queue
      BY <2>9, AfterFacts
    <3> QED
      BY <3>2, <3>3, <3>4, <3>5
  <2>10. CASE SaveCheckpoint(t)
    <3>1. PICK new \in Table!Row :
            /\ AfterCheckpoint(t, new.state = "open")
            /\ Advanced(new, rows[active[t]], last[t], queue[t][1].moment, queue[t][1].stop)
      BY <2>10, SaveFacts
    <3>2. queue[t][1].stop => ~(new.state = "open")
      BY <3>1 DEF Advanced
    <3> QED
      BY <2>9, <2>10, <3>1, <3>2 DEF SaveCheckpoint
  <2>11. CASE LoseSession(t)
    BY <2>9, <2>11 DEF LoseSession
  <2>12. CASE CheckpointFails(t) \/ ClaimFails(t) \/ RefuseClaim(t)
    <3>1. PICK m \in Moment : Finish(t, m)
      BY <2>12, RunFacts, Fields DEF CheckpointFails, ClaimFails, RefuseClaim
    <3>2. queue[t] # <<>> /\ HeadJob(t) = queue[t][1] /\ page' = page /\ active' = active
      BY <2>12, RunFacts DEF CheckpointFails, ClaimFails, RefuseClaim
    <3>3. active[t] # NoSid => ~queue[t][1].stop
      BY <2>0, <2>12, <3>2 DEF CheckpointFails, ClaimFails, RefuseClaim
    <3> QED
      BY <3>1, <3>2, <3>3, FinishJobs
  <2>13. ASSUME NEW s \in Sids, ClaimSession(t, s)
         PROVE  JobsOf(t)'
    BY <2>0, <2>13, Fields, FinishJobs DEF ClaimSession
  <2>14. CASE GrantLock(t)
    BY <2>0, <2>14 DEF GrantLock, ReadStart, TypeOK
  <2>15. CASE FinalFails(t)
    BY <2>0, <2>15 DEF FinalFails, TypeOK
  <2> QED
    BY <1>2, <2>1, <2>3, <2>4, <2>5, <2>6, <2>7, <2>8, <2>10, <2>11, <2>12, <2>13, <2>14,
       <2>15 DEF TabStep, Work
<1>3. ASSUME NEW t \in Tabs, TabStep(t)
      PROVE  JobsWell'
  <2>1. ASSUME NEW u \in Tabs, u # t
        PROVE  JobsOf(u)'
    BY <1>3, <2>1, OthersSame DEF JobsWell, JobsOf, Same
  <2> QED
    BY <1>2, <1>3, <2>1 DEF JobsWell
<1>4. CASE Tick \/ Recover \/ UNCHANGED vars
           \/ \E d \in 1 .. MaxGap + 1, counted \in BOOLEAN : Suspend(d, counted)
  BY <1>1, <1>4 DEF Tick, Recover, Suspend, vars
<1> QED
  BY <1>3, <1>4 DEF Next, TabStep

-----------------------------------------------------------------------------
(* The order of the transactions.                                          *)

\* A step of a tab leaves its transaction as it is, ends it, or opens one
\* behind the others'; a claim opened now starts now.
TxsChange(t) ==
  \/ /\ txs' = txs
     /\ phase'[t] = phase[t] \/ (~InTx(t) /\ ~InTx(t)')
     /\ InTx(t) => queue'[t][1] = queue[t][1] /\ claim'[t] = claim[t]
  \/ \E q \in Seq(Tabs) :
       /\ Without(q, txs, t)
       /\ \/ txs' = q /\ ~InTx(t)'
          \/ /\ txs' = Append(q, t) /\ InTx(t)'
             /\ phase'[t] = "claiming" => claim'[t] = ReadClock

LEMMA WithoutNone ==
  ASSUME TypeOK, NEW t \in Tabs, \A i \in 1 .. Len(txs) : txs[i] # t
  PROVE  txs \in Seq(Tabs) /\ Without(txs, txs, t)
<1>1. txs \in Seq(Tabs)
  BY DEF TypeOK
<1> DEFINE h == [i \in 1 .. Len(txs) |-> i]
<1>2. h \in [1 .. Len(txs) -> 1 .. Len(txs)]
  OBVIOUS
<1> QED
  BY <1>1, <1>2 DEF Without

LEMMA WithoutFirst ==
  ASSUME TypeOK, NEW t \in Tabs, Runs(t)
  PROVE  Tail(txs) \in Seq(Tabs) /\ Without(Tail(txs), txs, t)
<1> DEFINE r == Tail(txs)
<1>1. /\ r \in Seq(Tabs) /\ Len(txs) \in Nat /\ txs[1] = t
      /\ Len(r) = Len(txs) - 1 /\ Len(txs) > 0
      /\ \A i \in 1 .. Len(r) : r[i] = txs[i + 1] /\ r[i] # t
  BY CommitFacts
<1> HIDE DEF r
<1> DEFINE h == [i \in 1 .. Len(r) |-> i + 1]
<1>2. h \in [1 .. Len(r) -> 1 .. Len(txs)]
  BY <1>1
<1>3. ASSUME NEW k \in 1 .. Len(txs), txs[k] # t
      PROVE  \E i \in 1 .. Len(r) : h[i] = k
  <2>1. k - 1 \in 1 .. Len(r) /\ h[k - 1] = k
    BY <1>1, <1>3
  <2> QED
    BY <2>1
<1>4. /\ \A i \in 1 .. Len(r) : r[i] = txs[h[i]] /\ txs[h[i]] # t
      /\ \A i, j \in 1 .. Len(r) : i < j => h[i] < h[j]
  BY <1>1
<1> HIDE DEF h
<1>5. Without(r, txs, t)
  BY <1>2, <1>3, <1>4 DEF Without
<1> QED
  BY <1>1, <1>5 DEF r

\* Acquire opens a claim, or waits for the lock outside any transaction.
LEMMA AcquireChange ==
  ASSUME TypeOK, NEW t \in Tabs, NEW q \in Seq(Tabs), Without(q, txs, t), Acquire(t, q)
  PROVE  TxsChange(t)
<1>1. CASE webLocks /\ lock # t
  BY <1>1 DEF Acquire, TxsChange, InTx, TypeOK
<1>2. CASE ~(webLocks /\ lock # t)
  BY <1>2 DEF Acquire, ReadStart, TxsChange, InTx, TypeOK
<1> QED
  BY <1>1, <1>2

LEMMA TxsChanges ==
  ASSUME TypeOK, JobsWell, TxsWell, NEW t \in Tabs, TabStep(t)
  PROVE  TxsChange(t)
<1> USE DEF world, tracker, storage
<1>1. ~InTx(t) => txs \in Seq(Tabs) /\ Without(txs, txs, t)
  BY WithoutNone DEF TxsWell
<1>2. CASE OpenPage(t)
  <2>1. ~InTx(t)
    BY <1>2 DEF OpenPage, JobsWell, JobsOf, InTx
  <2> QED
    BY <1>2, <2>1 DEF OpenPage, TxsChange
<1>3. CASE Show(t) \/ Hide(t) \/ Heartbeat(t)
  <2>1. PICK stop \in BOOLEAN : Record(t, stop)
    BY <1>3 DEF Show, Hide, Heartbeat
  <2>2. PICK jobs \in Seq(Job), job \in Job : Recorded(t, stop, jobs, job)
    BY <2>1, RecordFacts
  <2>3. txs' = txs
    BY <2>1, RecordTyped
  <2>4. InTx(t) => jobs = queue[t] /\ phase'[t] = phase[t]
    BY <2>2 DEF Recorded, InTx
  <2>5. InTx(t) => Len(queue[t]) > 0
    BY Fields DEF JobsWell, JobsOf, InTx
  <2>6. InTx(t) => queue'[t][1] = queue[t][1] /\ claim'[t] = claim[t]
    BY <2>2, <2>4, <2>5 DEF Recorded
  <2>7. phase'[t] = phase[t] \/ (~InTx(t) /\ ~InTx(t)')
    BY <2>2 DEF Recorded, InTx
  <2> QED
    BY <2>3, <2>6, <2>7 DEF TxsChange
<1>4. CASE Crash(t)
  <2>1. RemoveFirst(txs, t) \in Seq(Tabs) /\ Without(RemoveFirst(txs, t), txs, t)
    BY TypeParts, RemoveFacts DEF TxsTyped
  <2>2. ~InTx(t)'
    BY <1>4 DEF Crash, InTx, TypeOK
  <2> QED
    BY <1>4, <2>1, <2>2 DEF Crash, TxsChange
<1>5. CASE DropStaleTick(t) \/ StopNothing(t)
  <2>1. ~InTx(t) /\ ~InTx(t)' /\ txs' = txs
    BY <1>5 DEF DropStaleTick, StopNothing, Finish, InTx, TypeOK
  <2> QED
    BY <2>1 DEF TxsChange
<1>6. CASE StartCheckpoint(t)
  BY <1>1, <1>6 DEF StartCheckpoint, TxsChange, InTx, TypeOK
<1>7. CASE StartClaim(t)
  BY <1>1, <1>7, AcquireChange DEF StartClaim, InTx
<1>8. CASE GrantLock(t)
  BY <1>1, <1>8 DEF GrantLock, ReadStart, TxsChange, InTx, TypeOK
<1>9. ASSUME NEW m, Runs(t), Finish(t, m), Commit
      PROVE  TxsChange(t)
  BY <1>9, WithoutFirst DEF Commit, Finish, TxsChange, InTx, TypeOK
<1>10. ASSUME NEW open \in BOOLEAN, phase[t] = "saving", Runs(t), AfterCheckpoint(t, open)
       PROVE  TxsChange(t)
  <2>1. CASE Finish(t, queue[t][1].moment) /\ Commit
    BY <1>9, <1>10, <2>1
  <2>2. CASE Acquire(t, Tail(txs))
    BY <1>10, <2>2, WithoutFirst, AcquireChange
  <2>3. (Finish(t, queue[t][1].moment) /\ Commit) \/ Acquire(t, Tail(txs))
    BY <1>10, AfterFacts
  <2> QED
    BY <2>1, <2>2, <2>3
<1>11. CASE SaveCheckpoint(t)
  <2>1. PICK new \in Table!Row : AfterCheckpoint(t, new.state = "open")
    BY <1>11, SaveFacts
  <2> QED
    BY <1>10, <1>11, <2>1 DEF SaveCheckpoint
<1>12. CASE LoseSession(t)
  BY <1>10, <1>12 DEF LoseSession
<1>13. CASE CheckpointFails(t) \/ ClaimFails(t) \/ RefuseClaim(t)
            \/ \E s \in Sids : ClaimSession(t, s)
  BY <1>9, <1>13 DEF CheckpointFails, ClaimFails, RefuseClaim, ClaimSession
<1>14. CASE FinalFails(t)
  BY <1>14, WithoutFirst DEF FinalFails, Commit, TxsChange, InTx, TypeOK
<1> QED
  BY <1>2, <1>3, <1>4, <1>5, <1>6, <1>7, <1>8, <1>11, <1>12, <1>13, <1>14 DEF TabStep, Work

\* A tab has a transaction exactly while its phase says so.
LEMMA TxsStep ==
  ASSUME TypeOK, JobsWell, TxsWell, [Next]_vars
  PROVE  TxsWell'
<1>1. ASSUME NEW t \in Tabs, TabStep(t)
      PROVE  TxsWell'
  <2>1. \A u \in Tabs : u # t => (InTx(u)' <=> InTx(u))
    BY <1>1, OthersSame DEF Same, InTx
  <2>2. CASE txs' = txs /\ (InTx(t)' <=> InTx(t))
    BY <2>1, <2>2 DEF TxsWell
  <2>3. ASSUME NEW q \in Seq(Tabs), Without(q, txs, t),
               \/ txs' = q /\ ~InTx(t)'
               \/ txs' = Append(q, t) /\ InTx(t)'
        PROVE  TxsWell'
    <3>1. PICK h \in [1 .. Len(q) -> 1 .. Len(txs)] :
            /\ \A i \in 1 .. Len(q) : q[i] = txs[h[i]] /\ txs[h[i]] # t
            /\ \A k \in 1 .. Len(txs) : txs[k] # t => \E i \in 1 .. Len(q) : h[i] = k
      BY <2>3 DEF Without
    <3>2. ASSUME NEW u \in Tabs, u # t
          PROVE  InTx(u) <=> \E i \in 1 .. Len(q) : q[i] = u
      <4>1. ASSUME InTx(u) PROVE \E i \in 1 .. Len(q) : q[i] = u
        <5>1. PICK k \in 1 .. Len(txs) : txs[k] = u
          BY <4>1 DEF TxsWell
        <5>2. PICK i \in 1 .. Len(q) : h[i] = k
          BY <3>1, <3>2, <5>1
        <5> QED
          BY <3>1, <5>1, <5>2
      <4>2. ASSUME NEW i \in 1 .. Len(q), q[i] = u PROVE InTx(u)
        <5>1. h[i] \in 1 .. Len(txs) /\ txs[h[i]] = u
          BY <3>1, <4>2
        <5> QED
          BY <5>1 DEF TxsWell
      <4> QED
        BY <4>1, <4>2
    <3>3. \A i \in 1 .. Len(q) : q[i] # t
      BY <3>1
    <3>4. CASE txs' = q /\ ~InTx(t)'
      BY <2>1, <3>2, <3>3, <3>4 DEF TxsWell
    <3>5. CASE txs' = Append(q, t) /\ InTx(t)'
      <4>1. /\ Len(q) \in Nat /\ Len(txs') = Len(q) + 1
            /\ \A i \in 1 .. Len(q) : txs'[i] = q[i]
            /\ txs'[Len(q) + 1] = t
        BY <3>5, AppendFacts
      <4>2. ASSUME NEW u \in Tabs
            PROVE  (\E i \in 1 .. Len(txs') : txs'[i] = u)
                     <=> u = t \/ \E i \in 1 .. Len(q) : q[i] = u
        BY <4>1
      <4> QED
        BY <2>1, <3>2, <3>5, <4>2 DEF TxsWell
    <3> QED
      BY <2>3, <3>4, <3>5
  <2> QED
    BY <1>1, <2>2, <2>3, TxsChanges DEF TxsChange, InTx
<1>2. CASE UNCHANGED <<phase, txs>>
  BY <1>2 DEF TxsWell, InTx
<1>3. CASE Tick \/ Recover \/ UNCHANGED vars
           \/ \E d \in 1 .. MaxGap + 1, counted \in BOOLEAN : Suspend(d, counted)
  BY <1>2, <1>3 DEF Tick, Recover, Suspend, vars, tracker
<1> QED
  BY <1>1, <1>3 DEF Next, TabStep
-----------------------------------------------------------------------------
(* The lock, the lease and the open run.                                   *)

\* With locks, whoever has a session or is claiming one holds the lock.
LocksWell ==
  webLocks => \A t \in Tabs : active[t] # NoSid \/ phase[t] = "claiming" => lock = t

\* A tracker's session is a run of the table, and no other tracker's.
OwnRows ==
  \A t \in Tabs : active[t] # NoSid =>
    rows[active[t]].state # "none" /\ \A u \in Tabs : active[u] = active[t] => u = t

LEMMA LeaseIsNotNone == \A l \in Lease : l # NoLease
<1> SUFFICES ASSUME NEW l \in Lease, l = NoLease PROVE FALSE
  OBVIOUS
<1>1. "owner" \in DOMAIN l
  BY DEF Lease
<1>2. "owner" \notin DOMAIN NoLease
  BY DEF NoLease
<1> QED
  BY <1>1, <1>2

LEMMA InitOwned == Init => LocksWell /\ OwnRows /\ OneOpenRunLeased
<1> SUFFICES ASSUME Init PROVE LocksWell /\ OwnRows /\ OneOpenRunLeased
  OBVIOUS
<1> QED
  BY DEF Init, LocksWell, OwnRows, OneOpenRunLeased, Table!NoRow

\* How the lock and the session of a tab change together.
LEMMA LocksStep ==
  ASSUME TypeOK, JobsWell, TxsWell, LocksWell, [Next]_vars
  PROVE  LocksWell'
<1> USE DEF world, tracker, storage
<1>1. CASE UNCHANGED <<webLocks, active, phase, lock>>
  BY <1>1 DEF LocksWell
<1>2. ASSUME NEW t \in Tabs, TabStep(t)
      PROVE  LocksWell'
  <2>0. /\ webLocks' = webLocks
        /\ \A u \in Tabs : u # t => active'[u] = active[u] /\ phase'[u] = phase[u]
    <3>1. webLocks' = webLocks
      BY <1>2 DEF TabStep, Work, OpenPage, Show, Hide, Heartbeat, Crash, DropStaleTick, StartCheckpoint,
         StartClaim, StopNothing, SaveCheckpoint, LoseSession, CheckpointFails, FinalFails,
         RefuseClaim, ClaimFails, ClaimSession, GrantLock
    <3> QED
      BY <1>2, <3>1, OthersSame DEF Same
  <2>1. CASE /\ lock' = lock \/ (lock = t /\ lock' = NoTab)
             /\ active'[t] = NoSid /\ phase'[t] # "claiming"
    BY <2>0, <2>1 DEF LocksWell
  <2>2. CASE /\ lock' = lock
             /\ active'[t] # NoSid \/ phase'[t] = "claiming"
                  => active[t] # NoSid \/ phase[t] = "claiming"
    BY <2>0, <2>2 DEF LocksWell
  <2>3. CASE lock' = lock /\ (webLocks => lock = t)
    BY <2>0, <2>3 DEF LocksWell
  <2>4. CASE OpenPage(t)
    BY <2>2, <2>4 DEF OpenPage
  <2>5. CASE Show(t) \/ Hide(t) \/ Heartbeat(t)
    <3>1. PICK stop \in BOOLEAN : Record(t, stop)
      BY <2>5 DEF Show, Hide, Heartbeat
    <3>2. lock' = lock
      BY <3>1, RecordTyped
    <3>3. PICK jobs \in Seq(Job), job \in Job : Recorded(t, stop, jobs, job)
      BY <3>1, RecordFacts
    <3>4. active'[t] = active[t] /\ (phase'[t] = phase[t] \/ phase'[t] = "idle")
      BY <3>3 DEF Recorded
    <3> QED
      BY <2>2, <3>2, <3>4
  <2>6. CASE Crash(t)
    BY <2>1, <2>6 DEF Crash, TypeOK
  <2>7. CASE DropStaleTick(t) \/ StartCheckpoint(t) \/ CheckpointFails(t) \/ FinalFails(t)
             \/ ClaimFails(t)
    BY <2>2, <2>7 DEF DropStaleTick, StartCheckpoint, CheckpointFails, FinalFails, ClaimFails,
       Finish, TypeOK
  <2>8. CASE StopNothing(t)
    BY <2>1, <2>8 DEF StopNothing, Finish, Release, TypeOK
  <2>9. CASE RefuseClaim(t)
    BY <2>1, <2>9 DEF RefuseClaim, Finish, Release, TypeOK, JobsWell, JobsOf
  <2>10. ASSUME NEW q, Acquire(t, q), lock' = lock, active'[t] = NoSid
         PROVE  LocksWell'
    <3>1. CASE webLocks /\ lock # t
      BY <2>1, <2>10, <3>1 DEF Acquire, TypeOK
    <3>2. CASE ~(webLocks /\ lock # t)
      BY <2>3, <2>10, <3>2
    <3> QED
      BY <3>1, <3>2
  <2>11. CASE StartClaim(t)
    BY <2>10, <2>11 DEF StartClaim, TypeOK
  <2>12. ASSUME NEW open \in BOOLEAN, phase[t] = "saving", Runs(t), AfterCheckpoint(t, open)
         PROVE  LocksWell'
    <3>1. CASE Finish(t, queue[t][1].moment) /\ UNCHANGED <<active, lock>>
      BY <2>2, <3>1 DEF Finish, TypeOK
    <3>2. CASE /\ Finish(t, queue[t][1].moment) /\ Release(t)
               /\ active' = [active EXCEPT ![t] = NoSid]
      BY <2>1, <3>2 DEF Finish, Release, TypeOK
    <3>3. CASE /\ Acquire(t, Tail(txs)) /\ active' = [active EXCEPT ![t] = NoSid]
               /\ lock' = lock
      BY <2>10, <3>3 DEF TypeOK
    <3>4. \/ Finish(t, queue[t][1].moment) /\ UNCHANGED <<active, lock>>
          \/ /\ Finish(t, queue[t][1].moment) /\ Release(t)
             /\ active' = [active EXCEPT ![t] = NoSid]
          \/ /\ Acquire(t, Tail(txs)) /\ active' = [active EXCEPT ![t] = NoSid]
             /\ lock' = lock
      BY <2>12, AfterFacts
    <3> QED
      BY <3>1, <3>2, <3>3, <3>4
  <2>13. CASE SaveCheckpoint(t)
    <3>1. PICK new \in Table!Row : AfterCheckpoint(t, new.state = "open")
      BY <2>13, SaveFacts
    <3> QED
      BY <2>12, <2>13, <3>1 DEF SaveCheckpoint
  <2>14. CASE LoseSession(t)
    BY <2>12, <2>14 DEF LoseSession
  <2>15. CASE \E s \in Sids : ClaimSession(t, s)
    BY <2>3, <2>15 DEF ClaimSession, LocksWell
  <2>16. CASE GrantLock(t)
    <3>1. webLocks => \A u \in Tabs : active[u] = NoSid /\ phase[u] # "claiming"
      BY <2>16, TrackerAssumption DEF GrantLock, LocksWell
    <3>2. lock' = t
      BY <2>16 DEF GrantLock
    <3> QED
      BY <2>0, <3>1, <3>2 DEF LocksWell
  <2> QED
    BY <1>2, <2>4, <2>5, <2>6, <2>7, <2>8, <2>9, <2>11, <2>13, <2>14, <2>15, <2>16
       DEF TabStep, Work
<1>3. CASE Tick \/ Recover \/ UNCHANGED vars
           \/ \E d \in 1 .. MaxGap + 1, counted \in BOOLEAN : Suspend(d, counted)
  BY <1>1, <1>3 DEF Tick, Recover, Suspend, vars
<1> QED
  BY <1>2, <1>3 DEF Next, TabStep

\* Only three actions write the sessions table; every other step at most takes
\* a session away from its tracker.
LEMMA TableUntouched ==
  ASSUME TypeOK, JobsWell, TxsWell, [Next]_vars,
         ~ \E t \in Tabs : SaveCheckpoint(t) \/ \E s \in Sids : ClaimSession(t, s),
         ~ Recover
  PROVE  /\ rows' = rows /\ lease' = lease
         /\ \A t \in Tabs : active'[t] = active[t] \/ active'[t] = NoSid
<1> USE DEF world, tracker, storage
<1>1. ASSUME NEW t \in Tabs, TabStep(t)
      PROVE  /\ rows' = rows /\ lease' = lease
             /\ active'[t] = active[t] \/ active'[t] = NoSid
  <2>1. CASE LoseSession(t)
    BY <2>1 DEF LoseSession, AfterCheckpoint, TypeOK
  <2>2. CASE Show(t) \/ Hide(t) \/ Heartbeat(t) \/ OpenPage(t)
    BY <2>2 DEF Show, Hide, Heartbeat, OpenPage, Record
  <2> QED
    BY <1>1, <2>1, <2>2 DEF TabStep, Work, Crash, DropStaleTick,
       StartCheckpoint, StartClaim, StopNothing, CheckpointFails, FinalFails, RefuseClaim,
       ClaimFails, GrantLock, TypeOK
<1>2. ASSUME NEW t \in Tabs, TabStep(t)
      PROVE  /\ rows' = rows /\ lease' = lease
             /\ \A u \in Tabs : active'[u] = active[u] \/ active'[u] = NoSid
  BY <1>1, <1>2, OthersSame DEF Same
<1>3. CASE Tick \/ UNCHANGED vars
           \/ \E d \in 1 .. MaxGap + 1, counted \in BOOLEAN : Suspend(d, counted)
  BY <1>3 DEF Tick, Suspend, vars
<1> QED
  BY <1>2, <1>3 DEF Next, TabStep

\* The sessions of the trackers after a checkpoint, and after a claim.
LEMMA ActiveAfterSave ==
  ASSUME TypeOK, JobsWell, TxsWell, NEW t \in Tabs, SaveCheckpoint(t)
  PROVE  \A u \in Tabs : active'[u] = active[u] \/ active'[u] = NoSid
<1>1. PICK new \in Table!Row : AfterCheckpoint(t, new.state = "open")
  BY SaveFacts
<1> QED
  BY <1>1 DEF AfterCheckpoint, TypeOK

LEMMA OwnRowsStep ==
  ASSUME TypeOK, JobsWell, TxsWell, OwnRows, [Next]_vars
  PROVE  OwnRows'
<1>1. ASSUME \A t \in Tabs : active'[t] = active[t] \/ active'[t] = NoSid,
             \A s \in Sids : rows[s].state # "none" => rows'[s].state # "none"
      PROVE  OwnRows'
  <2>1. ASSUME NEW t \in Tabs, active'[t] # NoSid
        PROVE  /\ rows'[active'[t]].state # "none"
               /\ \A u \in Tabs : active'[u] = active'[t] => u = t
    <3>1. active'[t] = active[t] /\ active[t] \in Sids
      BY <1>1, <2>1 DEF TypeOK
    <3> QED
      BY <1>1, <2>1, <3>1 DEF OwnRows
  <2> QED
    BY <2>1 DEF OwnRows
<1>2. ASSUME NEW t \in Tabs, SaveCheckpoint(t)
      PROVE  OwnRows'
  <2>1. PICK new \in Table!Row :
          /\ Advanced(new, rows[active[t]], last[t], queue[t][1].moment, queue[t][1].stop)
          /\ rows' = [rows EXCEPT ![active[t]] = new]
    BY <1>2, SaveFacts
  <2>2. new.state # "none"
    BY <2>1 DEF Advanced
  <2>3. \A s \in Sids : rows[s].state # "none" => rows'[s].state # "none"
    BY <2>1, <2>2 DEF TypeOK
  <2> QED
    BY <1>1, <1>2, <2>3, ActiveAfterSave
<1>3. ASSUME NEW t \in Tabs, NEW s \in Sids, ClaimSession(t, s)
      PROVE  OwnRows'
  <2>1. claim[t].wall \in Nat
    BY Fields, MomentFields
  <2>2. /\ rows' = [Table!SealAll(rows) EXCEPT ![s] = Table!NewRow(claim[t].wall)]
        /\ rows[s].state = "none" /\ active' = [active EXCEPT ![t] = s]
    BY <1>3 DEF ClaimSession
  <2>3. \A r \in Sids : rows[r].state # "none" \/ r = s => rows'[r].state # "none"
    BY <2>1, <2>2, SealAllFacts, NewRowFacts DEF TypeOK
  <2>4. \A u \in Tabs : active[u] # s
    BY <2>2, TrackerAssumption DEF OwnRows
  <2>5. \A u \in Tabs : active'[u] = IF u = t THEN s ELSE active[u]
    BY <2>2 DEF TypeOK
  <2> QED
    BY <2>3, <2>4, <2>5 DEF OwnRows, TypeOK
<1>4. CASE Recover
  BY <1>1, <1>4, SealAllFacts DEF Recover, tracker, TypeOK
<1>5. CASE ~ (\E t \in Tabs : SaveCheckpoint(t) \/ \E s \in Sids : ClaimSession(t, s))
           /\ ~ Recover
  BY <1>1, <1>5, TableUntouched
<1> QED
  BY <1>2, <1>3, <1>4, <1>5

LEMMA LeaseStep ==
  ASSUME TypeOK, JobsWell, TxsWell, OneOpenRunLeased, [Next]_vars
  PROVE  OneOpenRunLeased'
<1>1. ASSUME NEW t \in Tabs, SaveCheckpoint(t)
      PROVE  OneOpenRunLeased'
  <2>1. active[t] \in Sids /\ lease.sid = active[t]
    BY <1>1, SaveFacts
  <2>2. PICK new \in Table!Row :
          /\ rows' = [rows EXCEPT ![active[t]] = new]
          /\ IF new.state = "open"
               THEN lease' \in Lease /\ lease'.sid = active[t] ELSE lease' = NoLease
    BY <1>1, SaveFacts
  <2>3. ASSUME NEW s \in Sids, rows'[s].state = "open"
        PROVE  lease' # NoLease /\ lease'.sid = s
    <3>1. s = active[t] /\ new.state = "open"
      BY <2>1, <2>2, <2>3 DEF OneOpenRunLeased, TypeOK
    <3> QED
      BY <2>2, <3>1, LeaseIsNotNone
  <2> QED
    BY <2>3 DEF OneOpenRunLeased
<1>2. ASSUME NEW t \in Tabs, NEW s \in Sids, ClaimSession(t, s)
      PROVE  OneOpenRunLeased'
  <2>1. claim[t].wall \in Nat /\ claim[t].wall + MaxGap \in Nat
    BY Fields, MomentFields, TrackerAssumption
  <2>2. /\ rows' = [Table!SealAll(rows) EXCEPT ![s] = Table!NewRow(claim[t].wall)]
        /\ lease' = [owner |-> t, sid |-> s, expires |-> claim[t].wall + MaxGap]
    BY <1>2 DEF ClaimSession
  <2>3. lease' \in Lease /\ lease'.sid = s
    BY <2>1, <2>2 DEF Lease
  <2>4. \A r \in Sids : rows'[r].state = "open" => r = s
    BY <2>2, SealAllFacts DEF TypeOK
  <2> QED
    BY <2>3, <2>4, LeaseIsNotNone DEF OneOpenRunLeased
<1>3. CASE Recover
  BY <1>3, SealAllFacts DEF Recover, OneOpenRunLeased, TypeOK
<1>4. CASE ~ (\E t \in Tabs : SaveCheckpoint(t) \/ \E s \in Sids : ClaimSession(t, s))
           /\ ~ Recover
  BY <1>4, TableUntouched DEF OneOpenRunLeased
<1> QED
  BY <1>1, <1>2, <1>3, <1>4

-----------------------------------------------------------------------------
(* The clocks.                                                             *)

LEMMA MomentsTyped ==
  ASSUME TypeOK, NEW t \in Tabs
  PROVE  /\ Moments(t) \subseteq Moment /\ last[t] \in Moments(t)
         /\ claim[t] \in Moments(t)
         /\ \A i \in 1 .. Len(queue[t]) : queue[t][i].moment \in Moments(t)
  BY Fields DEF Moments

\* A tab only ever holds what it held, what it reads now, or nothing.
MomentsKept(t) == \A a \in (Moments(t))' : a \in Moments(t) \cup {ReadClock, Moment0}

LEMMA KeptBy ==
  ASSUME NEW t \in Tabs,
         last'[t] \in Moments(t) \cup {ReadClock, Moment0},
         claim'[t] \in Moments(t) \cup {ReadClock, Moment0},
         \A i \in 1 .. Len(queue'[t]) :
           queue'[t][i].moment \in Moments(t) \cup {ReadClock, Moment0}
  PROVE  MomentsKept(t)
<1> DEFINE All == Moments(t) \cup {ReadClock, Moment0}
<1> HIDE DEF All
<1>1. /\ last'[t] \in All /\ claim'[t] \in All
      /\ \A i \in 1 .. Len(queue'[t]) : queue'[t][i].moment \in All
  BY DEF All
<1>2. \A a \in {last'[t], claim'[t]} \cup {queue'[t][i].moment : i \in 1 .. Len(queue'[t])} :
        a \in All
  BY <1>1
<1> QED
  BY <1>2 DEF MomentsKept, Moments, All

LEMMA FinishMoments ==
  ASSUME TypeOK, NEW t \in Tabs, NEW m \in Moments(t), queue[t] # <<>>, Finish(t, m)
  PROVE  MomentsKept(t)
<1>1. m \in Moment
  BY MomentsTyped
<1>2. /\ Len(queue[t]) \in Nat /\ Len(queue'[t]) = Len(queue[t]) - 1
      /\ \A i \in 1 .. Len(queue'[t]) : queue'[t][i] = queue[t][i + 1]
      /\ last'[t] = m /\ claim'[t] = Moment0
  BY <1>1, FinishFacts
<1>3. ASSUME NEW i \in 1 .. Len(queue'[t])
      PROVE  queue'[t][i].moment \in Moments(t)
  <2>1. i + 1 \in 1 .. Len(queue[t])
    BY <1>2
  <2> QED
    BY <1>2, <2>1, MomentsTyped
<1> QED
  BY <1>2, <1>3 DEF MomentsKept, Moments

LEMMA RecordMoments ==
  ASSUME TypeOK, JobsWell, NEW t \in Tabs, NEW stop \in BOOLEAN, Record(t, stop)
  PROVE  MomentsKept(t)
<1>1. PICK jobs \in Seq(Job), job \in Job : Recorded(t, stop, jobs, job)
  BY RecordFacts
<1>2. /\ Len(jobs) \in Nat /\ job.moment = ReadClock
      /\ Len(queue'[t]) = Len(jobs) + 1
      /\ \A i \in 1 .. Len(jobs) : queue'[t][i] = jobs[i]
      /\ queue'[t][Len(jobs) + 1] = job /\ claim'[t] = claim[t]
  BY <1>1 DEF Recorded
<1>3. Len(queue[t]) \in Nat
  BY Fields
<1>4. /\ last'[t] \in Moments(t)
      /\ \A i \in 1 .. Len(jobs) : jobs[i].moment \in Moments(t)
  <2>1. CASE jobs = queue[t] /\ last'[t] = last[t]
    BY <2>1, MomentsTyped
  <2>2. CASE /\ queue[t] # <<>> /\ Len(jobs) = Len(queue[t]) - 1
             /\ \A i \in 1 .. Len(jobs) : jobs[i] = queue[t][i + 1]
             /\ last'[t] = queue[t][1].moment
    <3>1. \A i \in 1 .. Len(jobs) : i + 1 \in 1 .. Len(queue[t])
      BY <1>2, <1>3, <2>2
    <3>2. 1 \in 1 .. Len(queue[t])
      BY <1>2, <1>3, <2>2
    <3> QED
      BY <2>2, <3>1, <3>2, MomentsTyped
  <2> QED
    BY <1>1, <2>1, <2>2 DEF Recorded
<1>5. ASSUME NEW i \in 1 .. Len(queue'[t])
      PROVE  queue'[t][i].moment \in Moments(t) \cup {ReadClock}
  <2>1. CASE i \in 1 .. Len(jobs)
    BY <1>2, <1>4, <2>1
  <2>2. CASE i = Len(jobs) + 1
    BY <1>2, <2>2
  <2> QED
    BY <1>2, <2>1, <2>2
<1> QED
  BY <1>2, <1>4, <1>5, MomentsTyped DEF MomentsKept, Moments

LEMMA AcquireMoments ==
  ASSUME TypeOK, NEW t \in Tabs, NEW q, Acquire(t, q), UNCHANGED <<queue, last>>
  PROVE  MomentsKept(t)
<1>1. claim'[t] = claim[t] \/ claim'[t] = ReadClock
  BY DEF Acquire, ReadStart, TypeOK
<1> QED
  BY <1>1 DEF MomentsKept, Moments

LEMMA MomentsStep ==
  ASSUME TypeOK, JobsWell, TxsWell, NEW t \in Tabs, TabStep(t)
  PROVE  MomentsKept(t) /\ now' = now /\ slept' = slept
<1> USE DEF world, tracker, storage
<1>0. now' = now /\ slept' = slept
  BY DEF TabStep, Work, OpenPage, Show, Hide, Heartbeat, Crash, DropStaleTick, StartCheckpoint,
     StartClaim, StopNothing, SaveCheckpoint, LoseSession, CheckpointFails, FinalFails,
     RefuseClaim, ClaimFails, ClaimSession, GrantLock
<1>1. CASE OpenPage(t)
  <2>1. /\ queue'[t] = <<[stop |-> FALSE, moment |-> ReadClock]>>
        /\ last'[t] = ReadClock /\ claim'[t] = claim[t]
    BY <1>1 DEF OpenPage, TypeOK
  <2>2. \A i \in 1 .. Len(queue'[t]) : queue'[t][i].moment = ReadClock
    BY <2>1
  <2>3. last'[t] \in Moments(t) \cup {ReadClock, Moment0}
    BY <2>1
  <2>4. claim'[t] \in Moments(t) \cup {ReadClock, Moment0}
    BY <2>1, MomentsTyped
  <2>5. \A i \in 1 .. Len(queue'[t]) :
          queue'[t][i].moment \in Moments(t) \cup {ReadClock, Moment0}
    BY <2>2
  <2>6. MomentsKept(t)
    BY <2>3, <2>4, <2>5, KeptBy
  <2> QED
    BY <1>0, <2>6
<1>2. CASE Show(t) \/ Hide(t) \/ Heartbeat(t)
  BY <1>2, RecordMoments DEF Show, Hide, Heartbeat
<1>3. CASE Crash(t)
  BY <1>3 DEF Crash, TypeOK, MomentsKept, Moments
<1>4. CASE StartCheckpoint(t) \/ FinalFails(t)
  BY <1>4 DEF StartCheckpoint, FinalFails, MomentsKept, Moments
<1>5. CASE StartClaim(t)
  BY <1>5, AcquireMoments DEF StartClaim
<1>6. CASE GrantLock(t)
  <2>1. claim'[t] = ReadClock /\ queue' = queue /\ last' = last
    BY <1>6 DEF GrantLock, ReadStart, TypeOK
  <2>2. last'[t] \in Moments(t) \cup {ReadClock, Moment0}
    BY <2>1, MomentsTyped
  <2>3. claim'[t] \in Moments(t) \cup {ReadClock, Moment0}
    BY <2>1
  <2>4. \A i \in 1 .. Len(queue'[t]) :
          queue'[t][i].moment \in Moments(t) \cup {ReadClock, Moment0}
    BY <2>1, MomentsTyped
  <2>5. MomentsKept(t)
    BY <2>2, <2>3, <2>4, KeptBy
  <2> QED
    BY <1>0, <2>5
<1>7. queue[t] # <<>> => HeadJob(t).moment \in Moments(t)
  <2>1. ASSUME queue[t] # <<>>
        PROVE  HeadJob(t) = queue[t][1] /\ 1 \in 1 .. Len(queue[t])
    <3>1. queue[t] \in Seq(Job)
      BY Fields
    <3> QED
      BY <2>1, <3>1, TailFacts DEF HeadJob
  <2> QED
    BY <2>1, MomentsTyped
<1>8. last[t] \in Moments(t) /\ claim[t] \in Moments(t)
  BY MomentsTyped
<1>9. CASE DropStaleTick(t) \/ StopNothing(t)
  BY <1>7, <1>8, <1>9, FinishMoments DEF DropStaleTick, StopNothing
<1>10. CASE CheckpointFails(t) \/ RefuseClaim(t) \/ ClaimFails(t)
            \/ \E s \in Sids : ClaimSession(t, s)
  <2>1. queue[t] # <<>>
    BY <1>10, RunFacts DEF CheckpointFails, RefuseClaim, ClaimFails, ClaimSession
  <2> QED
    BY <1>7, <1>8, <1>10, <2>1, FinishMoments
       DEF CheckpointFails, RefuseClaim, ClaimFails, ClaimSession
<1>11. ASSUME NEW open \in BOOLEAN, phase[t] = "saving", Runs(t), AfterCheckpoint(t, open)
       PROVE  MomentsKept(t)
  <2>1. queue[t] # <<>> /\ HeadJob(t) = queue[t][1]
    BY <1>11, RunFacts
  <2>2. \/ Finish(t, queue[t][1].moment)
        \/ Acquire(t, Tail(txs)) /\ UNCHANGED <<queue, last>>
    BY <1>11, AfterFacts
  <2> QED
    BY <1>7, <2>1, <2>2, FinishMoments, AcquireMoments
<1>12. CASE SaveCheckpoint(t)
  <2>1. PICK new \in Table!Row : AfterCheckpoint(t, new.state = "open")
    BY <1>12, SaveFacts
  <2> QED
    BY <1>11, <1>12, <2>1 DEF SaveCheckpoint
<1>13. CASE LoseSession(t)
  BY <1>11, <1>13 DEF LoseSession
<1> QED
  BY <1>0, <1>1, <1>2, <1>3, <1>4, <1>5, <1>6, <1>9, <1>10, <1>12, <1>13 DEF TabStep, Work

LEMMA InitClocks == Init => ClocksWell
<1> SUFFICES ASSUME Init, NEW t \in Tabs
             PROVE  \A a \in Moments(t) :
                      /\ Before(Moment0, a) /\ Before(a, ReadClock)
                      /\ \A b \in Moments(t) : Before(a, b) \/ Before(b, a)
  BY DEF ClocksWell
<1>1. Moments(t) = {Moment0}
  BY DEF Init, Moments
<1>2. ReadClock = [wall |-> 0, mono |-> 0]
  BY DEF Init, ReadClock
<1> QED
  BY <1>1, <1>2 DEF Before, Moment0

\* The clocks only move forward, so what a tab holds stays in the past, in order.
LEMMA ClocksStep ==
  ASSUME TypeOK, JobsWell, TxsWell, ClocksWell, [Next]_vars
  PROVE  ClocksWell'
<1> USE DEF world, tracker, storage
<1>0. /\ now \in Nat /\ slept \in Nat /\ slept <= now /\ ReadClock \in Moment
      /\ ReadClock.wall = now /\ ReadClock.mono = now - slept
  BY ClockTyped
<1>1. ASSUME NEW d \in Nat, now' = now + d, slept' = slept \/ slept' = slept + d,
             UNCHANGED <<queue, last, claim>>
      PROVE  ClocksWell'
  <2>1. ASSUME NEW t \in Tabs, NEW a \in Moments(t)
        PROVE  Before(a, ReadClock)'
    <3>1. a.wall \in Nat /\ a.mono \in Nat
      BY MomentsTyped, MomentFields
    <3>2. a.mono <= now - slept /\ a.wall + (now - slept) <= now + a.mono
      BY <1>0 DEF ClocksWell, Before
    <3>3. a.mono <= now' - slept' /\ a.wall + (now' - slept') <= now' + a.mono
      BY <1>0, <1>1, <3>1, <3>2
    <3> QED
      BY <3>3 DEF Before, ReadClock
  <2>2. \A t \in Tabs : (Moments(t))' = Moments(t)
    BY <1>1 DEF Moments
  <2> QED
    BY <2>1, <2>2 DEF ClocksWell
<1>2. ASSUME NEW t \in Tabs, TabStep(t)
      PROVE  ClocksWell'
  <2>1. MomentsKept(t) /\ now' = now /\ slept' = slept
    BY <1>2, MomentsStep
  <2>2. ReadClock' = ReadClock
    BY <2>1 DEF ReadClock
  <2>3. \A u \in Tabs : u # t => (Moments(u))' = Moments(u)
    BY <1>2, OthersSame DEF Same, Moments
  <2>4. /\ Before(Moment0, ReadClock) /\ Before(ReadClock, ReadClock)
        /\ Before(Moment0, Moment0)
    BY <1>0 DEF Before, Moment0
  <2> DEFINE All == Moments(t) \cup {ReadClock, Moment0}
  <2>5. \A a \in All : Before(Moment0, a) /\ Before(a, ReadClock)
    BY <2>4 DEF ClocksWell
  <2>6. \A a, b \in All : Before(a, b) \/ Before(b, a)
    BY <2>5 DEF ClocksWell
  <2> HIDE DEF All
  <2>7. \A a \in (Moments(t))' : a \in All
    BY <2>1 DEF MomentsKept, All
  <2>8. \A a \in (Moments(t))' :
          /\ Before(Moment0, a) /\ Before(a, ReadClock)
          /\ \A b \in (Moments(t))' : Before(a, b) \/ Before(b, a)
    BY <2>5, <2>6, <2>7
  <2>9. ASSUME NEW u \in Tabs
        PROVE  \A a \in (Moments(u))' :
                 /\ Before(Moment0, a) /\ Before(a, ReadClock)
                 /\ \A b \in (Moments(u))' : Before(a, b) \/ Before(b, a)
    BY <2>3, <2>8 DEF ClocksWell
  <2> QED
    BY <2>2, <2>9 DEF ClocksWell, Before
<1>3. CASE Tick
  BY <1>1, <1>3 DEF Tick
<1>4. ASSUME NEW d \in 1 .. MaxGap + 1, NEW counted \in BOOLEAN, Suspend(d, counted)
      PROVE  ClocksWell'
  <2>1. d \in Nat
    BY TrackerAssumption
  <2> QED
    BY <1>1, <1>4, <2>1 DEF Suspend
<1>5. CASE Recover \/ UNCHANGED vars
  <2>1. now' = now + 0 /\ slept' = slept /\ UNCHANGED <<queue, last, claim>>
    BY <1>0, <1>5 DEF Recover, vars
  <2> QED
    BY <1>1, <2>1
<1> QED
  BY <1>2, <1>3, <1>4, <1>5 DEF Next, TabStep

-----------------------------------------------------------------------------
(* Where the runs end.                                                     *)

\* The moment a transaction writes.
TxMoment(u) == IF phase[u] = "saving" THEN queue[u][1].moment ELSE claim[u]

\* A claim was read no earlier than what any transaction ahead of it writes.
TxsInOrder ==
  \A i, j \in 1 .. Len(txs) :
    i < j /\ phase[txs[j]] = "claiming" => TxMoment(txs[i]).wall <= claim[txs[j]].wall

\* No run ends in the future, a tab's run ends by its lastMoment, and whoever
\* is about to begin a run begins it after every other has ended.
EndsWell ==
  /\ \A s \in Sids : rows[s].beat <= now
  /\ \A t \in Tabs : active[t] # NoSid => rows[active[t]].beat <= last[t].wall
  /\ \A t \in Tabs : phase[t] = "claiming" =>
       \A s \in Sids : rows[s].beat <= claim[t].wall

LEMMA MomentPast ==
  ASSUME TypeOK, ClocksWell, NEW t \in Tabs, NEW a \in Moments(t)
  PROVE  /\ a \in Moment /\ a.wall \in Nat /\ a.mono \in Nat
         /\ a.wall <= now /\ a.mono <= now - slept
<1>1. a \in Moment /\ a.wall \in Nat /\ a.mono \in Nat
  BY MomentsTyped, MomentFields
<1>2. a.mono <= now - slept /\ a.wall + (now - slept) <= now + a.mono
  BY ClockTyped DEF ClocksWell, Before
<1> QED
  BY <1>1, <1>2, ClockTyped

LEMMA TxMoments ==
  ASSUME TypeOK, JobsWell, NEW u \in Tabs
  PROVE  TxMoment(u) \in Moments(u)
<1>1. phase[u] = "saving" => 1 \in 1 .. Len(queue[u])
  BY Fields DEF JobsWell, JobsOf
<1> QED
  BY <1>1, MomentsTyped DEF TxMoment

LEMMA OrderStep ==
  ASSUME TypeOK, JobsWell, TxsWell, ClocksWell, TxsInOrder, [Next]_vars
  PROVE  TxsInOrder'
<1>1. ASSUME NEW t \in Tabs, TabStep(t)
      PROVE  TxsInOrder'
  <2> DEFINE M(u) == IF phase'[u] = "saving" THEN queue'[u][1].moment ELSE claim'[u]
             Kept(u) == M(u) = TxMoment(u) /\ phase'[u] = phase[u] /\ claim'[u] = claim[u]
  <2>1. ASSUME NEW u \in Tabs, u # t
        PROVE  Kept(u)
    BY <1>1, <2>1, OthersSame DEF Same, TxMoment
  <2>2. txs \in Seq(Tabs) /\ \A i \in 1 .. Len(txs) : txs[i] \in Tabs
    BY DEF TypeOK
  <2>3. CASE /\ txs' = txs
             /\ phase'[t] = phase[t] \/ (~InTx(t) /\ ~InTx(t)')
             /\ InTx(t) => queue'[t][1] = queue[t][1] /\ claim'[t] = claim[t]
    <3>1. InTx(t) => Kept(t)
      BY <2>3 DEF TxMoment
    <3>2. \A u \in Tabs : InTx(u) => Kept(u)
      BY <2>1, <3>1
    <3> HIDE DEF Kept
    <3>3. ASSUME NEW i \in 1 .. Len(txs)
          PROVE  Kept(txs[i])
      BY <2>2, <3>2 DEF TxsWell
    <3>4. \A i \in 1 .. Len(txs) :
            /\ M(txs[i]) = TxMoment(txs[i])
            /\ phase'[txs[i]] = phase[txs[i]] /\ claim'[txs[i]] = claim[txs[i]]
      BY <3>3 DEF Kept
    <3>5. \A i, j \in 1 .. Len(txs) :
            i < j /\ phase'[txs[j]] = "claiming" => M(txs[i]).wall <= claim'[txs[j]].wall
      BY <3>4 DEF TxsInOrder
    <3> QED
      BY <2>3, <3>5 DEF TxsInOrder, TxMoment
  <2>4. ASSUME NEW q \in Seq(Tabs), Without(q, txs, t),
               \/ txs' = q /\ ~InTx(t)'
               \/ /\ txs' = Append(q, t) /\ InTx(t)'
                  /\ phase'[t] = "claiming" => claim'[t] = ReadClock
        PROVE  TxsInOrder'
    <3>1. PICK h \in [1 .. Len(q) -> 1 .. Len(txs)] :
            /\ \A i \in 1 .. Len(q) : q[i] = txs[h[i]] /\ txs[h[i]] # t
            /\ \A i, j \in 1 .. Len(q) : i < j => h[i] < h[j]
      BY <2>4 DEF Without
    <3>2. ASSUME NEW i \in 1 .. Len(q)
          PROVE  /\ q[i] \in Tabs /\ q[i] # t /\ h[i] \in 1 .. Len(txs)
                 /\ q[i] = txs[h[i]]
      BY <2>2, <3>1
    <3>3. ASSUME NEW i \in 1 .. Len(q), NEW j \in 1 .. Len(q), i < j,
                 phase'[q[j]] = "claiming"
          PROVE  M(q[i]).wall <= claim'[q[j]].wall
      <4>1. M(q[i]) = TxMoment(q[i]) /\ claim'[q[j]] = claim[q[j]]
            /\ phase[q[j]] = "claiming"
        BY <2>1, <3>2, <3>3 DEF TxMoment
      <4>2. h[i] \in 1 .. Len(txs) /\ h[j] \in 1 .. Len(txs) /\ h[i] < h[j]
        BY <3>1, <3>2, <3>3
      <4>3. TxMoment(txs[h[i]]).wall <= claim[txs[h[j]]].wall
        BY <3>2, <4>1, <4>2 DEF TxsInOrder
      <4> QED
        BY <3>2, <4>1, <4>3
    <3>4. CASE txs' = q
      BY <3>3, <3>4 DEF TxsInOrder, TxMoment
    <3>5. CASE txs' = Append(q, t) /\ (phase'[t] = "claiming" => claim'[t] = ReadClock)
      <4>1. /\ Len(q) \in Nat /\ Len(txs') = Len(q) + 1
            /\ \A i \in 1 .. Len(q) : txs'[i] = q[i]
            /\ txs'[Len(q) + 1] = t
        BY <3>5, AppendFacts
      <4>2. ASSUME NEW i \in 1 .. Len(q), phase'[t] = "claiming"
            PROVE  M(q[i]).wall <= claim'[t].wall
        <5>1. q[i] \in Tabs /\ M(q[i]) = TxMoment(q[i])
          BY <2>1, <3>2 DEF TxMoment
        <5>2. TxMoment(q[i]) \in Moments(q[i])
          BY <5>1, TxMoments
        <5>3. TxMoment(q[i]).wall <= now
          BY <5>1, <5>2, MomentPast
        <5> QED
          BY <3>5, <4>2, <5>1, <5>3, ClockTyped
      <4>3. ASSUME NEW i \in 1 .. Len(txs'), NEW j \in 1 .. Len(txs'), i < j,
                   phase'[txs'[j]] = "claiming"
            PROVE  M(txs'[i]).wall <= claim'[txs'[j]].wall
        <5>1. i \in 1 .. Len(q) /\ txs'[i] = q[i]
          BY <4>1, <4>3
        <5>2. CASE j \in 1 .. Len(q)
          BY <3>3, <4>1, <4>3, <5>1, <5>2
        <5>3. CASE j = Len(q) + 1
          BY <4>1, <4>2, <4>3, <5>1, <5>3
        <5> QED
          BY <4>1, <5>2, <5>3
      <4> QED
        BY <4>3 DEF TxsInOrder, TxMoment
    <3> QED
      BY <2>4, <3>4, <3>5
  <2> QED
    BY <1>1, <2>3, <2>4, TxsChanges DEF TxsChange
<1>2. CASE UNCHANGED <<queue, phase, claim, txs>>
  BY <1>2 DEF TxsInOrder, TxMoment
<1>3. CASE Tick \/ Recover \/ UNCHANGED vars
           \/ \E d \in 1 .. MaxGap + 1, counted \in BOOLEAN : Suspend(d, counted)
  BY <1>2, <1>3 DEF Tick, Recover, Suspend, vars, tracker
<1> QED
  BY <1>1, <1>3 DEF Next, TabStep

\* What a step that writes no row leaves of a tab's run and of its claim.
Quiet(t) ==
  /\ active'[t] # NoSid => active'[t] = active[t] /\ last'[t] = last[t]
  /\ phase'[t] = "claiming" =>
       \/ claim'[t] = ReadClock
       \/ phase[t] = "claiming" /\ claim'[t] = claim[t]

LEMMA AcquireQuiet ==
  ASSUME TypeOK, NEW t \in Tabs, NEW q, Acquire(t, q)
  PROVE  phase'[t] = "claiming" => claim'[t] = ReadClock
  BY DEF Acquire, ReadStart, TypeOK

LEMMA AfterQuiet ==
  ASSUME TypeOK, JobsWell, TxsWell, NEW t \in Tabs, NEW open \in BOOLEAN,
         phase[t] = "saving", Runs(t), AfterCheckpoint(t, open)
  PROVE  /\ phase'[t] = "claiming" => claim'[t] = ReadClock
         /\ active'[t] # NoSid => /\ open /\ active'[t] = active[t]
                                  /\ last'[t] = queue[t][1].moment
<1>1. CASE open /\ Finish(t, queue[t][1].moment) /\ UNCHANGED active
  BY <1>1 DEF Finish, TypeOK
<1>2. CASE Finish(t, queue[t][1].moment) /\ active' = [active EXCEPT ![t] = NoSid]
  BY <1>2 DEF Finish, TypeOK
<1>3. CASE Acquire(t, Tail(txs)) /\ active' = [active EXCEPT ![t] = NoSid]
  BY <1>3, AcquireQuiet DEF TypeOK
<1> QED
  BY <1>1, <1>2, <1>3, AfterFacts

LEMMA QuietSteps ==
  ASSUME TypeOK, JobsWell, TxsWell, NEW t \in Tabs, TabStep(t),
         ~SaveCheckpoint(t), ~ \E s \in Sids : ClaimSession(t, s)
  PROVE  Quiet(t)
<1> USE DEF world, tracker, storage
<1>1. CASE OpenPage(t)
  BY <1>1 DEF OpenPage, Quiet, JobsWell, JobsOf
<1>2. CASE Show(t) \/ Hide(t) \/ Heartbeat(t)
  <2>1. PICK stop \in BOOLEAN : Record(t, stop)
    BY <1>2 DEF Show, Hide, Heartbeat
  <2>2. PICK jobs \in Seq(Job), job \in Job : Recorded(t, stop, jobs, job)
    BY <2>1, RecordFacts
  <2>3. phase[t] = "waiting" => active[t] = NoSid
    BY DEF JobsWell, JobsOf
  <2> QED
    BY <2>2, <2>3 DEF Recorded, Quiet
<1>3. CASE Crash(t) \/ DropStaleTick(t) \/ StartCheckpoint(t) \/ StopNothing(t)
           \/ CheckpointFails(t) \/ FinalFails(t) \/ RefuseClaim(t) \/ ClaimFails(t)
  BY <1>3 DEF Crash, DropStaleTick, StartCheckpoint, StopNothing, CheckpointFails, FinalFails,
     RefuseClaim, ClaimFails, Finish, Quiet, TypeOK, JobsWell, JobsOf
<1>4. CASE StartClaim(t)
  BY <1>4, AcquireQuiet DEF StartClaim, Quiet
<1>5. CASE GrantLock(t)
  BY <1>5 DEF GrantLock, ReadStart, Quiet, TypeOK
<1>6. CASE LoseSession(t)
  BY <1>6, AfterQuiet DEF LoseSession, Quiet
<1> QED
  BY <1>1, <1>2, <1>3, <1>4, <1>5, <1>6 DEF TabStep, Work

LEMMA RowFields ==
  ASSUME TypeOK, NEW s \in Sids
  PROVE  /\ rows[s] \in Table!Row /\ rows[s].beat \in Nat /\ rows[s].start \in Nat
         /\ rows[s].rev \in Nat
  BY DEF TypeOK, Table!Row

\* A checkpoint saves no time beyond the moment it was taken at.
LEMMA SavedEnd ==
  ASSUME TypeOK, JobsWell, TxsWell, ClocksWell, EndsWell, NEW t \in Tabs, SaveCheckpoint(t),
         NEW new \in Table!Row,
         Advanced(new, rows[active[t]], last[t], queue[t][1].moment, queue[t][1].stop)
  PROVE  /\ new.beat \in Nat /\ new.beat <= now
         /\ rows[active[t]].beat <= new.beat
         /\ new.state = "open" => new.beat <= queue[t][1].moment.wall
         /\ new.beat = rows[active[t]].beat \/ new.beat <= queue[t][1].moment.wall
<1> DEFINE row == rows[active[t]]
           a == last[t]
           b == queue[t][1].moment
<1>1. active[t] \in Sids /\ 1 \in 1 .. Len(queue[t]) /\ active[t] # NoSid
  BY SaveFacts, RunFacts, Fields, TrackerAssumption DEF SaveCheckpoint
<1>2. row.beat \in Nat /\ row.beat <= now /\ row.beat <= a.wall
  BY <1>1, RowFields DEF EndsWell
<1>3. a \in Moments(t) /\ b \in Moments(t)
  BY <1>1, MomentsTyped
<1>4. a.wall \in Nat /\ a.mono \in Nat /\ b.wall \in Nat /\ b.mono \in Nat /\ b.wall <= now
  BY <1>3, MomentPast
<1>5. \/ a.mono <= b.mono /\ a.wall + b.mono <= b.wall + a.mono
      \/ b.mono <= a.mono /\ b.wall + a.mono <= a.wall + b.mono
  BY <1>3 DEF ClocksWell, Before
<1>6. new.beat \in Nat
  BY DEF Table!Row
<1> HIDE DEF row, a, b
<1>7. /\ new.beat >= row.beat
      /\ \/ new.beat = row.beat /\ new.state = "closed"
         \/ /\ a.mono <= b.mono /\ a.wall <= b.wall
            /\ new.beat = row.beat + (b.mono - a.mono)
  BY DEF Advanced, row, a, b
<1>8. CASE new.beat = row.beat /\ new.state = "closed"
  BY <1>2, <1>6, <1>8 DEF row, b
<1>9. CASE /\ a.mono <= b.mono /\ a.wall <= b.wall
           /\ new.beat = row.beat + (b.mono - a.mono)
  <2>1. new.beat <= b.wall
    BY <1>2, <1>4, <1>5, <1>9
  <2>2. new.beat <= now
    BY <1>4, <1>6, <2>1, ClockTyped
  <2> QED
    BY <1>6, <1>7, <2>1, <2>2 DEF row, b
<1> QED
  BY <1>7, <1>8, <1>9

LEMMA InitEnds == Init => EndsWell /\ TxsInOrder
<1> SUFFICES ASSUME Init PROVE EndsWell /\ TxsInOrder
  OBVIOUS
<1>1. EndsWell
  BY DEF Init, EndsWell, Table!NoRow
<1>2. Len(txs) = 0
  BY DEF Init
<1> QED
  BY <1>1, <1>2 DEF TxsInOrder

LEMMA EndsStep ==
  ASSUME TypeOK, JobsWell, TxsWell, ClocksWell, OwnRows, TxsInOrder, EndsWell, [Next]_vars
  PROVE  EndsWell'
<1> USE DEF world, tracker, storage
<1>0. \A s \in Sids : rows[s].beat \in Nat /\ rows[s].beat <= now
  BY RowFields DEF EndsWell
<1>1. ASSUME NEW t \in Tabs, SaveCheckpoint(t)
      PROVE  EndsWell'
  <2>1. PICK new \in Table!Row :
          /\ Advanced(new, rows[active[t]], last[t], queue[t][1].moment, queue[t][1].stop)
          /\ rows' = [rows EXCEPT ![active[t]] = new]
          /\ AfterCheckpoint(t, new.state = "open")
    BY <1>1, SaveFacts
  <2>2. active[t] \in Sids /\ active[t] # NoSid /\ phase[t] = "saving" /\ Runs(t)
    BY <1>1, SaveFacts, TrackerAssumption DEF SaveCheckpoint
  <2>3. /\ new.beat \in Nat /\ new.beat <= now
        /\ new.state = "open" => new.beat <= queue[t][1].moment.wall
        /\ new.beat = rows[active[t]].beat \/ new.beat <= queue[t][1].moment.wall
    BY <1>1, <2>1, SavedEnd
  <2>4. /\ phase'[t] = "claiming" => claim'[t] = ReadClock
        /\ active'[t] # NoSid => /\ new.state = "open" /\ active'[t] = active[t]
                                 /\ last'[t] = queue[t][1].moment
    BY <2>1, <2>2, AfterQuiet
  <2>5. \A s \in Sids : rows'[s] = IF s = active[t] THEN new ELSE rows[s]
    BY <2>1 DEF TypeOK
  <2>6. now' = now /\ \A s \in Sids : rows'[s].beat <= now
    BY <1>0, <1>1, <2>3, <2>5 DEF SaveCheckpoint
  <2>7. ASSUME NEW u \in Tabs, u # t
        PROVE  /\ active'[u] = active[u] /\ last'[u] = last[u]
               /\ phase'[u] = phase[u] /\ claim'[u] = claim[u]
    BY <1>1, <2>7, OthersSame DEF TabStep, Work, Same
  <2>8. ASSUME NEW u \in Tabs, active'[u] # NoSid
        PROVE  rows'[active'[u]].beat <= last'[u].wall
    <3>1. CASE u = t
      BY <2>2, <2>3, <2>4, <2>5, <2>8, <3>1
    <3>2. CASE u # t
      <4>1. active[u] # active[t] /\ active[u] \in Sids
        BY <2>2, <2>7, <2>8, <3>2 DEF OwnRows, TypeOK
      <4> QED
        BY <2>5, <2>7, <2>8, <3>2, <4>1 DEF EndsWell
    <3> QED
      BY <3>1, <3>2
  <2>9. ASSUME NEW u \in Tabs, phase'[u] = "claiming", NEW s \in Sids
        PROVE  rows'[s].beat <= claim'[u].wall
    <3>1. CASE u = t
      BY <2>4, <2>6, <2>9, <3>1, ClockTyped
    <3>2. CASE u # t
      <4>1. phase[u] = "claiming" /\ claim'[u] = claim[u]
        BY <2>7, <2>9, <3>2
      <4>2. PICK j \in 1 .. Len(txs) : txs[j] = u
        BY <4>1 DEF TxsWell, InTx
      <4>3. txs[1] = t /\ Len(txs) \in Nat
        BY <2>2, CommitFacts
      <4>4. 1 < j /\ 1 \in 1 .. Len(txs)
        BY <3>2, <4>2, <4>3
      <4>5. TxMoment(t).wall <= claim[u].wall
        BY <4>1, <4>2, <4>3, <4>4 DEF TxsInOrder
      <4>6. queue[t][1].moment.wall <= claim[u].wall
        BY <2>2, <4>5 DEF TxMoment
      <4>7. rows[s].beat <= claim[u].wall /\ rows[active[t]].beat <= claim[u].wall
        BY <2>2, <4>1 DEF EndsWell
      <4>8. queue[t][1].moment.wall \in Nat /\ claim[u].wall \in Nat
        BY <2>2, RunFacts, Fields, MomentFields
      <4> QED
        BY <2>3, <2>5, <4>1, <4>6, <4>7, <4>8
    <3> QED
      BY <3>1, <3>2
  <2> QED
    BY <2>6, <2>8, <2>9 DEF EndsWell
<1>2. ASSUME NEW t \in Tabs, NEW r \in Sids, ClaimSession(t, r)
      PROVE  EndsWell'
  <2> DEFINE m == claim[t]
  <2>1. m \in Moment /\ m.wall \in Nat /\ m.wall <= now
    BY MomentsTyped, MomentPast
  <2>2. /\ phase[t] = "claiming" /\ Runs(t) /\ now' = now
        /\ rows' = [Table!SealAll(rows) EXCEPT ![r] = Table!NewRow(m.wall)]
        /\ active' = [active EXCEPT ![t] = r] /\ Finish(t, m)
    BY <1>2 DEF ClaimSession
  <2>3. \A s \in Sids : rows'[s].beat = IF s = r THEN m.wall ELSE rows[s].beat
    BY <2>1, <2>2, SealAllFacts, NewRowFacts DEF TypeOK
  <2>4. active'[t] = r /\ last'[t] = m /\ phase'[t] = "idle"
    BY <2>2 DEF Finish, TypeOK
  <2>5. ASSUME NEW u \in Tabs, u # t
        PROVE  /\ active'[u] = active[u] /\ last'[u] = last[u]
               /\ phase'[u] = phase[u] /\ claim'[u] = claim[u]
    BY <1>2, <2>5, OthersSame DEF TabStep, Work, Same
  <2>6. \A s \in Sids : rows'[s].beat <= now
    BY <1>0, <2>1, <2>3
  <2>7. ASSUME NEW u \in Tabs, active'[u] # NoSid
        PROVE  rows'[active'[u]].beat <= last'[u].wall
    <3>1. CASE u = t
      BY <2>1, <2>3, <2>4, <3>1
    <3>2. CASE u # t
      <4>1. active[u] \in Sids /\ active[u] # r
        BY <1>2, <2>5, <2>7, <3>2 DEF OwnRows, TypeOK, ClaimSession
      <4> QED
        BY <2>3, <2>5, <2>7, <3>2, <4>1 DEF EndsWell
    <3> QED
      BY <3>1, <3>2
  <2>8. ASSUME NEW u \in Tabs, phase'[u] = "claiming", NEW s \in Sids
        PROVE  rows'[s].beat <= claim'[u].wall
    <3>1. u # t
      BY <2>4, <2>8
    <3>2. phase[u] = "claiming" /\ claim'[u] = claim[u]
      BY <2>5, <2>8, <3>1
    <3>3. PICK j \in 1 .. Len(txs) : txs[j] = u
      BY <3>2 DEF TxsWell, InTx
    <3>4. txs[1] = t /\ Len(txs) \in Nat
      BY <2>2, CommitFacts
    <3>5. 1 < j /\ 1 \in 1 .. Len(txs)
      BY <3>1, <3>3, <3>4
    <3>6. TxMoment(t).wall <= claim[u].wall
      BY <3>2, <3>3, <3>4, <3>5 DEF TxsInOrder
    <3>7. m.wall <= claim[u].wall
      BY <2>2, <3>6 DEF TxMoment
    <3> QED
      BY <2>3, <3>2, <3>7 DEF EndsWell
  <2> QED
    BY <2>2, <2>6, <2>7, <2>8 DEF EndsWell
<1>3. ASSUME NEW t \in Tabs, TabStep(t), rows' = rows, now' = now, Quiet(t)
      PROVE  EndsWell'
  <2>1. ASSUME NEW u \in Tabs
        PROVE  /\ active'[u] # NoSid => active'[u] = active[u] /\ last'[u] = last[u]
               /\ phase'[u] = "claiming" =>
                    \/ claim'[u] = ReadClock
                    \/ phase[u] = "claiming" /\ claim'[u] = claim[u]
    BY <1>3, OthersSame DEF Same, Quiet
  <2>2. \A u \in Tabs : phase'[u] = "claiming" =>
          \A s \in Sids : rows[s].beat <= claim'[u].wall
    BY <1>0, <2>1, ClockTyped DEF EndsWell
  <2> QED
    BY <1>0, <1>3, <2>1, <2>2 DEF EndsWell
<1>4. ASSUME now' \in Nat, now' >= now, UNCHANGED <<active, last, phase, claim>>,
             \A s \in Sids : rows'[s].beat = rows[s].beat
      PROVE  EndsWell'
  <2>1. \A s \in Sids : rows'[s].beat <= now'
    BY <1>0, <1>4, ClockTyped
  <2>2. \A u \in Tabs : active[u] # NoSid => active[u] \in Sids
    BY DEF TypeOK
  <2> QED
    BY <1>4, <2>1, <2>2 DEF EndsWell
<1>5. CASE Tick \/ UNCHANGED vars
  BY <1>4, <1>5, ClockTyped DEF Tick, vars
<1>6. CASE Recover
  BY <1>4, <1>6, ClockTyped, SealAllFacts DEF Recover, TypeOK
<1>7. ASSUME NEW d \in 1 .. MaxGap + 1, NEW counted \in BOOLEAN, Suspend(d, counted)
      PROVE  EndsWell'
  <2>1. d \in Nat
    BY TrackerAssumption
  <2> QED
    BY <1>4, <1>7, <2>1, ClockTyped DEF Suspend
<1>8. ASSUME NEW t \in Tabs, TabStep(t), ~SaveCheckpoint(t),
             ~ \E s \in Sids : ClaimSession(t, s)
      PROVE  EndsWell'
  <2>1. rows' = rows
    BY <1>8 DEF TabStep, Work, OpenPage, Show, Hide, Heartbeat, Crash, DropStaleTick,
       StartCheckpoint, StartClaim, StopNothing, LoseSession, CheckpointFails, FinalFails,
       RefuseClaim, ClaimFails, GrantLock
  <2> QED
    BY <1>3, <1>8, <2>1, MomentsStep, QuietSteps
<1> QED
  BY <1>1, <1>2, <1>5, <1>6, <1>7, <1>8 DEF Next, TabStep

-----------------------------------------------------------------------------
(* The time credited.                                                      *)

HasRun(t) == active[t] # NoSid \/ phase[t] = "claiming"

\* Where the time of a tab's run is measured from next.
Base(t) == IF phase[t] = "claiming" THEN claim[t].mono ELSE last[t].mono

\* The jobs that are still to count for this run: the job of a claim does not,
\* nor does anything behind a stop.
Ahead(t) ==
  {i \in 1 .. Len(queue[t]) :
     (phase[t] = "claiming" => i > 1) /\ \A k \in 1 .. i - 1 : ~queue[t][k].stop}

NoStop(t) == \A i \in 1 .. Len(queue[t]) : ~queue[t][i].stop

\* The monotonic times the run is or will be measured between; the present is
\* one of them until a stop is queued.
Mark(t, m) ==
  \/ m = Base(t)
  \/ \E i \in Ahead(t) : m = queue[t][i].moment.mono
  \/ NoStop(t) /\ m = now - slept

\* f gives the foreground time of the run at each of these times: no more than
\* there was, and at least the time between two of them that are no gap.
Counts(t, f) ==
  /\ \A b \in Nat : Mark(t, b) => f[b] <= seen[t]
  /\ \A a, b \in Nat : Mark(t, a) /\ Mark(t, b) /\ a <= b /\ b - a <= MaxGap
                         => f[b] - f[a] >= b - a

\* The run, or the one being claimed, has been credited with no more.
CreditedBy(t, f) ==
  IF phase[t] = "claiming"
    THEN f[claim[t].mono] >= 0
    ELSE rows[active[t]].beat <= rows[active[t]].start + f[last[t].mono]

Credited ==
  \A t \in Tabs : HasRun(t) => \E f \in [Nat -> Int] : Counts(t, f) /\ CreditedBy(t, f)

LEMMA MarksPast ==
  ASSUME TypeOK, ClocksWell, NEW t \in Tabs, NEW m, Mark(t, m)
  PROVE  m \in Nat /\ m <= now - slept
<1>1. CASE m = Base(t)
  BY <1>1, MomentsTyped, MomentPast DEF Base
<1>2. CASE \E i \in Ahead(t) : m = queue[t][i].moment.mono
  <2>1. PICK i \in 1 .. Len(queue[t]) : m = queue[t][i].moment.mono
    BY <1>2 DEF Ahead
  <2>2. queue[t][i].moment \in Moments(t)
    BY MomentsTyped
  <2> QED
    BY <2>1, <2>2, MomentPast
<1>3. CASE m = now - slept
  BY <1>3, ClockTyped
<1> QED
  BY <1>1, <1>2, <1>3 DEF Mark

\* While the marks only get fewer, the same count serves.
LEMMA CountsKept ==
  ASSUME NEW t \in Tabs, NEW f \in [Nat -> Int], Counts(t, f), seen'[t] = seen[t],
         \A m \in Nat : Mark(t, m)' => Mark(t, m)
  PROVE  Counts(t, f)'
<1>1. \A b \in Nat : Mark(t, b)' => f[b] <= seen'[t]
  BY DEF Counts
<1>2. \A a, b \in Nat : Mark(t, a)' /\ Mark(t, b)' /\ a <= b /\ b - a <= MaxGap
                          => f[b] - f[a] >= b - a
  BY DEF Counts
<1> QED
  BY <1>1, <1>2 DEF Counts

\* A job that is no stop ends at a time that was counted to.
LEMMA MarksFinish ==
  ASSUME TypeOK, NEW t \in Tabs, NEW m \in Moment, queue[t] # <<>>, Finish(t, m),
         ~queue[t][1].stop, Mark(t, m.mono), now' = now, slept' = slept
  PROVE  \A b \in Nat : Mark(t, b)' => Mark(t, b)
<1>1. /\ Len(queue[t]) \in Nat /\ Len(queue[t]) > 0
      /\ Len(queue'[t]) = Len(queue[t]) - 1
      /\ \A i \in 1 .. Len(queue'[t]) : queue'[t][i] = queue[t][i + 1]
      /\ phase'[t] = "idle" /\ last'[t] = m
  BY FinishFacts
<1> SUFFICES ASSUME NEW b \in Nat, Mark(t, b)' PROVE Mark(t, b)
  OBVIOUS
<1>2. CASE b = Base(t)'
  BY <1>1, <1>2 DEF Base
<1>3. ASSUME NEW i \in 1 .. Len(queue'[t]), b = queue'[t][i].moment.mono,
             \A k \in 1 .. i - 1 : ~queue'[t][k].stop
      PROVE  Mark(t, b)
  <2>1. i + 1 \in 1 .. Len(queue[t]) /\ queue'[t][i] = queue[t][i + 1] /\ i + 1 > 1
    BY <1>1
  <2>2. ASSUME NEW k \in 1 .. (i + 1) - 1 PROVE ~queue[t][k].stop
    <3>1. CASE k = 1
      BY <3>1
    <3>2. CASE k # 1
      <4>0. k \in Nat /\ i \in Nat /\ 1 <= k /\ k <= i /\ i <= Len(queue'[t])
            /\ Len(queue'[t]) \in Nat
        BY <1>1
      <4>1. k - 1 \in 1 .. i - 1 /\ k - 1 \in 1 .. Len(queue'[t]) /\ (k - 1) + 1 = k
        BY <3>2, <4>0
      <4>2. queue'[t][k - 1] = queue[t][k]
        BY <1>1, <4>1
      <4> QED
        BY <1>3, <4>1, <4>2
    <3> QED
      BY <3>1, <3>2
  <2>3. i + 1 \in Ahead(t)
    BY <2>1, <2>2 DEF Ahead
  <2> QED
    BY <1>3, <2>1, <2>3 DEF Mark
<1>4. CASE NoStop(t)' /\ b = now' - slept'
  <2>1. ASSUME NEW k \in 1 .. Len(queue[t]) PROVE ~queue[t][k].stop
    <3>1. CASE k = 1
      BY <3>1
    <3>2. CASE k # 1
      <4>1. k - 1 \in 1 .. Len(queue'[t]) /\ (k - 1) + 1 = k
        BY <1>1, <3>2
      <4>2. queue'[t][k - 1] = queue[t][k]
        BY <1>1, <4>1
      <4> QED
        BY <1>4, <4>1, <4>2 DEF NoStop
    <3> QED
      BY <3>1, <3>2
  <2> QED
    BY <1>4, <2>1 DEF Mark, NoStop
<1> QED
  BY <1>2, <1>3, <1>4 DEF Mark, Ahead

\* record() reads the present, which was a time to count to unless a stop is
\* in the queue.
LEMMA MarksRecord ==
  ASSUME TypeOK, JobsWell, NEW t \in Tabs, NEW stop \in BOOLEAN, NEW jobs \in Seq(Job),
         NEW job \in Job, Recorded(t, stop, jobs, job), HasRun(t)',
         now' = now, slept' = slept
  PROVE  /\ HasRun(t) /\ phase'[t] = phase[t] /\ last'[t] = last[t]
         /\ claim'[t] = claim[t] /\ active'[t] = active[t]
         /\ \A b \in Nat : Mark(t, b)' => Mark(t, b)
<1>1. /\ Len(jobs) \in Nat /\ job.stop = stop /\ job.moment = ReadClock
      /\ Len(queue'[t]) = Len(jobs) + 1
      /\ \A i \in 1 .. Len(jobs) : queue'[t][i] = jobs[i]
      /\ queue'[t][Len(jobs) + 1] = job
      /\ claim'[t] = claim[t] /\ active'[t] = active[t]
  BY DEF Recorded
<1>2. phase[t] = "waiting" => active[t] = NoSid
  BY DEF JobsWell, JobsOf
<1>3. jobs = queue[t] /\ phase'[t] = phase[t] /\ last'[t] = last[t]
  BY <1>1, <1>2 DEF Recorded, HasRun
<1>4. ReadClock.mono = now - slept
  BY ClockTyped
<1>5. ASSUME NEW b \in Nat, Mark(t, b)' PROVE Mark(t, b)
  <2>1. CASE b = Base(t)'
    BY <1>1, <1>3, <2>1 DEF Mark, Base
  <2>2. ASSUME NEW i \in 1 .. Len(queue'[t]), b = queue'[t][i].moment.mono,
               phase'[t] = "claiming" => i > 1,
               \A k \in 1 .. i - 1 : ~queue'[t][k].stop
        PROVE  Mark(t, b)
    <3>1. \A k \in 1 .. Len(queue[t]) : k <= i - 1 => ~queue[t][k].stop
      BY <1>1, <1>3, <2>2
    <3>2. CASE i \in 1 .. Len(queue[t])
      <4>1. i \in Ahead(t)
        BY <1>3, <2>2, <3>1, <3>2 DEF Ahead
      <4> QED
        BY <1>1, <1>3, <2>2, <3>2, <4>1 DEF Mark
    <3>3. CASE i = Len(queue[t]) + 1
      <4>1. NoStop(t)
        BY <1>1, <1>3, <3>1, <3>3 DEF NoStop
      <4>2. b = now - slept
        BY <1>1, <1>3, <1>4, <2>2, <3>3
      <4> QED
        BY <4>1, <4>2 DEF Mark
    <3> QED
      BY <1>1, <1>3, <3>2, <3>3
  <2>3. CASE NoStop(t)' /\ b = now' - slept'
    BY <1>1, <1>3, <2>3 DEF Mark, NoStop
  <2> QED
    BY <1>5, <2>1, <2>2, <2>3 DEF Mark, Ahead
<1> QED
  BY <1>1, <1>3, <1>5 DEF HasRun

\* A run that starts now has no time yet.
LEMMA ReadStartCredited ==
  ASSUME TypeOK, ClocksWell, NEW t \in Tabs, claim' = [claim EXCEPT ![t] = ReadClock],
         phase'[t] = "claiming", seen'[t] = 0,
         queue'[t] = queue[t], now' = now, slept' = slept
  PROVE  \E f \in [Nat -> Int] : Counts(t, f)' /\ CreditedBy(t, f)'
<1>1. /\ now - slept \in Nat /\ ReadClock.mono = now - slept
      /\ claim'[t] = ReadClock
  BY ClockTyped DEF TypeOK
<1> DEFINE F(c) == [m \in Nat |-> m - c]
<1>2. \A c \in Nat : F(c) \in [Nat -> Int] /\ \A m \in Nat : F(c)[m] = m - c
  OBVIOUS
<1> HIDE DEF F
<1>f. PICK f \in [Nat -> Int] : \A m \in Nat : f[m] = m - (now - slept)
  BY <1>1, <1>2
<1>3. ASSUME NEW b \in Nat, Mark(t, b)' PROVE b <= now - slept
  <2>1. CASE b = Base(t)'
    BY <1>1, <2>1 DEF Base
  <2>2. CASE \E i \in 1 .. Len(queue'[t]) : b = queue'[t][i].moment.mono
    <3>1. PICK i \in 1 .. Len(queue[t]) : b = queue[t][i].moment.mono
      BY <2>2
    <3> QED
      BY <3>1, MomentsTyped, MomentPast
  <2>3. CASE b = now' - slept'
    BY <1>1, <2>3
  <2> QED
    BY <1>3, <2>1, <2>2, <2>3 DEF Mark, Ahead
<1>4. \A b \in Nat : Mark(t, b)' => f[b] <= seen'[t]
  BY <1>1, <1>3, <1>f
<1>5. \A a, b \in Nat : f[b] - f[a] >= b - a
  BY <1>1, <1>f
<1>6. f[claim'[t].mono] >= 0
  BY <1>1, <1>f
<1>7. Counts(t, f)'
  BY <1>4, <1>5 DEF Counts
<1>8. CreditedBy(t, f)'
  BY <1>6 DEF CreditedBy
<1> QED
  BY <1>7, <1>8

\* The clock moves on: what the run gains is what its tab sees, and nothing
\* across a gap.
LEMMA ClockCredited ==
  ASSUME TypeOK, JobsWell, ClocksWell, NEW t \in Tabs, HasRun(t),
         NEW f \in [Nat -> Int], Counts(t, f), CreditedBy(t, f),
         NEW d \in Nat, NEW e \in Nat, d <= MaxGap => e = d,
         UNCHANGED <<page, queue, phase, last, claim, active, rows>>,
         now' - slept' = (now - slept) + d,
         seen'[t] = IF page[t] = "visible" THEN seen[t] + e ELSE seen[t]
  PROVE  \E g \in [Nat -> Int] : Counts(t, g)' /\ CreditedBy(t, g)'
<1>1. seen[t] \in Nat /\ now - slept \in Nat
  BY Fields, ClockTyped
<1>2. CASE d = 0 \/ ~NoStop(t)
  <2>1. ASSUME NEW b \in Nat, Mark(t, b)' PROVE Mark(t, b)
    BY <1>1, <1>2, <2>1 DEF Mark, Base, Ahead, NoStop
  <2>2. seen'[t] >= seen[t] /\ seen'[t] \in Nat
    BY <1>1
  <2>3. \A b \in Nat : Mark(t, b)' => f[b] <= seen'[t]
    <3>1. ASSUME NEW b \in Nat, Mark(t, b)' PROVE f[b] <= seen'[t]
      <4>1. f[b] \in Int /\ f[b] <= seen[t]
        BY <2>1, <3>1 DEF Counts
      <4> QED
        BY <1>1, <2>2, <4>1
    <3> QED
      BY <3>1
  <2>4. \A a, b \in Nat : Mark(t, a)' /\ Mark(t, b)' /\ a <= b /\ b - a <= MaxGap
                            => f[b] - f[a] >= b - a
    BY <2>1 DEF Counts
  <2>5. Counts(t, f)' /\ CreditedBy(t, f)'
    BY <2>3, <2>4 DEF Counts, CreditedBy
  <2> QED
    BY <2>5
<1>3. CASE d # 0 /\ NoStop(t)
  <2>1. page[t] = "visible"
    <3>0. queue[t] \in Seq(Job)
      BY Fields
    <3>1. queue[t] # <<>> => Len(queue[t]) \in 1 .. Len(queue[t])
      BY <3>0
    <3> QED
      BY <1>3, <3>1 DEF JobsWell, JobsOf, HasRun, NoStop, TypeOK
  <2>2. seen'[t] = seen[t] + e
    BY <2>1
  <2>3. Mark(t, now - slept)
    BY <1>3 DEF Mark
  <2>4. PICK n \in Nat : n = (now - slept) + d
    BY <1>1
  <2>5. PICK g \in [Nat -> Int] :
          \A b \in Nat : g[b] = IF b = n THEN f[now - slept] + e ELSE f[b]
    <3> DEFINE G == [b \in Nat |-> IF b = n THEN f[now - slept] + e ELSE f[b]]
    <3>1. G \in [Nat -> Int] /\ \A b \in Nat : G[b] = IF b = n THEN f[now - slept] + e ELSE f[b]
      BY <1>1
    <3> QED
      BY <3>1
  <2>6. ASSUME NEW b \in Nat, Mark(t, b)' PROVE b = n \/ (b < n /\ Mark(t, b))
    <3>1. CASE b = now' - slept'
      BY <2>4, <3>1
    <3>2. CASE Mark(t, b)
      <4>1. b <= now - slept
        BY <3>2, MarksPast
      <4> QED
        BY <1>1, <1>3, <2>4, <3>2, <4>1
    <3> QED
      BY <2>6, <3>1, <3>2 DEF Mark, Base, Ahead, NoStop
  <2>7. f[now - slept] \in Int /\ f[now - slept] <= seen[t]
        /\ g[n] = f[now - slept] + e
    BY <1>1, <2>3, <2>4, <2>5 DEF Counts
  <2>8. ASSUME NEW b \in Nat, Mark(t, b)' PROVE g[b] <= seen'[t]
    <3>1. CASE b = n
      BY <1>1, <2>2, <2>7, <3>1
    <3>2. CASE b < n /\ Mark(t, b)
      <4>1. g[b] = f[b] /\ f[b] \in Int /\ f[b] <= seen[t]
        BY <2>5, <3>2 DEF Counts
      <4> QED
        BY <1>1, <2>2, <4>1
    <3> QED
      BY <2>6, <2>8, <3>1, <3>2
  <2>9. ASSUME NEW a \in Nat, NEW b \in Nat, Mark(t, a)', Mark(t, b)', a <= b, b - a <= MaxGap
        PROVE  g[b] - g[a] >= b - a
    <3>1. CASE b < n
      <4>1. g[b] = f[b] /\ g[a] = f[a] /\ Mark(t, a) /\ Mark(t, b)
        BY <2>5, <2>6, <2>9, <3>1
      <4> QED
        BY <2>9, <4>1 DEF Counts
    <3>2. CASE b = n /\ a = n
      BY <2>7, <3>2
    <3>3. CASE b = n /\ a < n
      <4>1. g[a] = f[a] /\ f[a] \in Int /\ Mark(t, a)
        BY <2>5, <2>6, <2>9, <3>3
      <4>2. a <= now - slept
        BY <4>1, MarksPast
      <4>3. (now - slept) - a <= MaxGap /\ d <= MaxGap
        BY <1>1, <2>4, <2>9, <3>3, <4>2, TrackerAssumption
      <4>4. f[now - slept] - f[a] >= (now - slept) - a
        BY <1>1, <2>3, <4>1, <4>2, <4>3 DEF Counts
      <4> QED
        BY <1>1, <2>4, <2>7, <3>3, <4>1, <4>3, <4>4
    <3> QED
      BY <2>6, <2>9, <3>1, <3>2, <3>3
  <2>10. Counts(t, g)'
    BY <2>8, <2>9 DEF Counts
  <2>11. Base(t) \in Nat /\ Base(t) # n
    <3>1. Mark(t, Base(t))
      BY DEF Mark
    <3>2. Base(t) \in Nat /\ Base(t) <= now - slept
      BY <3>1, MarksPast
    <3> QED
      BY <1>1, <1>3, <2>4, <3>2
  <2>12. g[Base(t)] = f[Base(t)]
    BY <2>5, <2>11
  <2>13. CreditedBy(t, g)'
    BY <2>12 DEF CreditedBy, Base
  <2> QED
    BY <2>10, <2>13
<1> QED
  BY <1>2, <1>3

\* No step of another tab touches the time of a tab's run, nor recovery.
LEMMA RunsKept ==
  ASSUME TypeOK, JobsWell, TxsWell, OwnRows, [Next]_vars, NEW u \in Tabs, active[u] # NoSid,
         ~SaveCheckpoint(u)
  PROVE  rows'[active[u]].beat = rows[active[u]].beat
         /\ rows'[active[u]].start = rows[active[u]].start
<1> DEFINE r == active[u]
<1>0. r \in Sids /\ rows[r].state # "none"
  BY DEF TypeOK, OwnRows
<1>1. ASSUME NEW t \in Tabs, SaveCheckpoint(t)
      PROVE  rows'[r].beat = rows[r].beat /\ rows'[r].start = rows[r].start
  <2>1. t # u /\ active[t] # r
    BY <1>1 DEF OwnRows
  <2>2. \A s \in Sids : s # active[t] => rows'[s] = rows[s]
    BY <1>1 DEF SaveCheckpoint, TypeOK
  <2> QED
    BY <1>0, <2>1, <2>2
<1>2. ASSUME NEW t \in Tabs, NEW s \in Sids, ClaimSession(t, s)
      PROVE  rows'[r].beat = rows[r].beat /\ rows'[r].start = rows[r].start
  <2>1. /\ rows' = [Table!SealAll(rows) EXCEPT ![s] = Table!NewRow(claim[t].wall)]
        /\ rows[s].state = "none"
    BY <1>2 DEF ClaimSession
  <2>2. r # s
    BY <1>0, <2>1
  <2>3. rows'[r] = Table!SealAll(rows)[r]
    BY <1>0, <2>1, <2>2, SealAllFacts DEF TypeOK
  <2> QED
    BY <1>0, <2>3, SealAllFacts DEF TypeOK
<1>3. CASE Recover
  BY <1>0, <1>3, SealAllFacts DEF Recover, TypeOK
<1> QED
  BY <1>1, <1>2, <1>3, TableUntouched

\* A checkpoint credits the time to its own moment, which was to be counted.
LEMMA SaveCredited ==
  ASSUME TypeOK, JobsWell, TxsWell, ClocksWell, NEW t \in Tabs, SaveCheckpoint(t),
         NEW f \in [Nat -> Int], Counts(t, f), CreditedBy(t, f), NEW new \in Table!Row,
         Advanced(new, rows[active[t]], last[t], queue[t][1].moment, queue[t][1].stop)
  PROVE  /\ new.start = rows[active[t]].start
         /\ Mark(t, queue[t][1].moment.mono)
         /\ new.beat <= new.start + seen[t]
         /\ new.state = "open" => new.beat <= new.start + f[queue[t][1].moment.mono]
<1> DEFINE row == rows[active[t]]
           a == last[t].mono
           b == queue[t][1].moment.mono
<1>1. /\ active[t] \in Sids /\ phase[t] = "saving" /\ 1 \in 1 .. Len(queue[t])
      /\ queue[t][1].moment \in Moment
  BY SaveFacts, RunFacts, Fields DEF SaveCheckpoint
<1>2. /\ a \in Nat /\ b \in Nat /\ row.beat \in Nat /\ row.start \in Nat
      /\ new.beat \in Nat /\ seen[t] \in Nat
  BY <1>1, Fields, MomentFields, RowFields DEF Table!Row
<1>3. Mark(t, a)
  BY <1>1 DEF Mark, Base
<1>4. Mark(t, b)
  <2>1. 1 \in Ahead(t)
    BY <1>1 DEF Ahead
  <2> QED
    BY <2>1 DEF Mark
<1>5. f[a] \in Int /\ f[b] \in Int /\ f[a] <= seen[t] /\ f[b] <= seen[t]
      /\ row.beat <= row.start + f[a]
  BY <1>1, <1>2, <1>3, <1>4 DEF Counts, CreditedBy
<1>6. a <= b /\ b - a <= MaxGap => f[b] - f[a] >= b - a
  BY <1>2, <1>3, <1>4 DEF Counts
<1>7. /\ new.start = row.start
      /\ \/ new.beat = row.beat /\ new.state = "closed"
         \/ a <= b /\ b <= a + MaxGap /\ new.beat = row.beat + (b - a)
  BY DEF Advanced
<1> HIDE DEF row, a, b
<1>8. CASE new.beat = row.beat /\ new.state = "closed"
  <2>1. new.beat <= new.start + seen[t]
    BY <1>2, <1>5, <1>7, <1>8
  <2> QED
    BY <1>4, <1>7, <1>8, <2>1 DEF row, b
<1>9. CASE a <= b /\ b <= a + MaxGap /\ new.beat = row.beat + (b - a)
  <2>1. f[b] - f[a] >= b - a
    BY <1>2, <1>6, <1>9, TrackerAssumption
  <2>2. new.beat <= new.start + f[b]
    BY <1>2, <1>5, <1>7, <1>9, <2>1
  <2>3. new.beat <= new.start + seen[t]
    BY <1>2, <1>5, <1>7, <2>2
  <2> QED
    BY <1>4, <1>7, <2>2, <2>3 DEF row, b
<1> QED
  BY <1>7, <1>8, <1>9

LEMMA InitCredited == Init => Credited
<1> SUFFICES ASSUME Init, NEW t \in Tabs PROVE ~HasRun(t)
  BY DEF Credited
<1> QED
  BY DEF Init, HasRun

\* One step of a tab keeps its own run credited.
LEMMA OwnCredited ==
  ASSUME TypeOK, JobsWell, TxsWell, ClocksWell, OwnRows, Credited,
         NEW t \in Tabs, TabStep(t), HasRun(t)'
  PROVE  \E f \in [Nat -> Int] : Counts(t, f)' /\ CreditedBy(t, f)'
<1> USE DEF world, tracker, storage
<1>0. now' = now /\ slept' = slept
  BY MomentsStep
<1>1. HasRun(t) => \E f \in [Nat -> Int] : Counts(t, f) /\ CreditedBy(t, f)
  BY DEF Credited
<1>2. Next
  BY DEF TabStep, Next
<1>3. active[t] # NoSid /\ ~SaveCheckpoint(t) =>
        /\ rows'[active[t]].beat = rows[active[t]].beat
        /\ rows'[active[t]].start = rows[active[t]].start
  BY <1>2, RunsKept
\* The run is as it was, and its marks got no more.
<1>4. ASSUME HasRun(t), ~SaveCheckpoint(t), seen'[t] = seen[t], active'[t] = active[t],
             active[t] # NoSid \/ phase'[t] = "claiming",
             (phase'[t] = "claiming") <=> (phase[t] = "claiming"), (Base(t))' = Base(t),
             \A b \in Nat : Mark(t, b)' => Mark(t, b)
      PROVE  \E f \in [Nat -> Int] : Counts(t, f)' /\ CreditedBy(t, f)'
  <2>1. PICK f \in [Nat -> Int] : Counts(t, f) /\ CreditedBy(t, f)
    BY <1>1, <1>4
  <2>2. Counts(t, f)'
    BY <1>4, <2>1, CountsKept
  <2>3. CASE phase[t] = "claiming"
    <3>1. claim'[t].mono = claim[t].mono
      BY <1>4, <2>3 DEF Base
    <3>2. CreditedBy(t, f)'
      BY <1>4, <2>1, <2>3, <3>1 DEF CreditedBy
    <3> QED
      BY <2>2, <3>2
  <2>4. CASE phase[t] # "claiming"
    <3>1. last'[t].mono = last[t].mono /\ active[t] # NoSid
      BY <1>4, <2>4 DEF Base
    <3>2. CreditedBy(t, f)'
      BY <1>3, <1>4, <2>1, <2>4, <3>1 DEF CreditedBy
    <3> QED
      BY <2>2, <3>2
  <2> QED
    BY <2>3, <2>4
<1>5. ASSUME NEW q, Acquire(t, q), active'[t] = NoSid, queue' = queue
      PROVE  \E f \in [Nat -> Int] : Counts(t, f)' /\ CreditedBy(t, f)'
  <2>1. ~(webLocks /\ lock # t)
    BY <1>5 DEF Acquire, HasRun, TypeOK
  <2>2. /\ claim' = [claim EXCEPT ![t] = ReadClock] /\ phase'[t] = "claiming"
        /\ seen'[t] = 0
    BY <1>5, <2>1 DEF Acquire, ReadStart, TypeOK
  <2>3. queue'[t] = queue[t]
    BY <1>5
  <2> QED
    BY <1>0, <2>2, <2>3, ReadStartCredited
<1>6. CASE OpenPage(t)
  BY <1>6 DEF OpenPage, HasRun, JobsWell, JobsOf
<1>7. CASE Show(t) \/ Hide(t) \/ Heartbeat(t)
  <2>1. PICK stop \in BOOLEAN : Record(t, stop)
    BY <1>7 DEF Show, Hide, Heartbeat
  <2>2. PICK jobs \in Seq(Job), job \in Job : Recorded(t, stop, jobs, job)
    BY <2>1, RecordFacts
  <2>3. /\ HasRun(t) /\ phase'[t] = phase[t] /\ last'[t] = last[t]
        /\ claim'[t] = claim[t] /\ active'[t] = active[t]
        /\ \A b \in Nat : Mark(t, b)' => Mark(t, b)
    BY <1>0, <2>2, MarksRecord
  <2>4. seen'[t] = seen[t] /\ rows' = rows
    BY <1>7 DEF Show, Hide, Heartbeat
  <2>5. PICK f \in [Nat -> Int] : Counts(t, f) /\ CreditedBy(t, f)
    BY <1>1, <2>3
  <2>6. Counts(t, f)'
    BY <2>3, <2>4, <2>5, CountsKept
  <2>7. CreditedBy(t, f)'
    BY <2>3, <2>4, <2>5 DEF CreditedBy
  <2> QED
    BY <2>6, <2>7
<1>8. CASE Crash(t)
  BY <1>8 DEF Crash, HasRun, TypeOK
<1>9. ASSUME phase[t] # "claiming", Finish(t, last[t]), UNCHANGED <<active, seen>>,
             queue[t] # <<>>, ~queue[t][1].stop, ~SaveCheckpoint(t)
      PROVE  \E f \in [Nat -> Int] : Counts(t, f)' /\ CreditedBy(t, f)'
  <2>1. phase'[t] = "idle" /\ last'[t] = last[t]
    BY <1>9 DEF Finish, TypeOK
  <2>2. HasRun(t) /\ active[t] # NoSid
    BY <1>9, <2>1 DEF HasRun
  <2>3. last[t] \in Moment
    BY Fields
  <2>4. Mark(t, last[t].mono)
    BY <1>9 DEF Mark, Base
  <2>5. \A b \in Nat : Mark(t, b)' => Mark(t, b)
    BY <1>0, <1>9, <2>3, <2>4, MarksFinish
  <2>6. (Base(t))' = Base(t)
    BY <1>9, <2>1 DEF Base
  <2> QED
    BY <1>4, <1>9, <2>1, <2>2, <2>5, <2>6
<1>10. CASE DropStaleTick(t)
  <2>1. /\ queue[t] # <<>> /\ ~HeadJob(t).stop /\ phase[t] = "idle"
        /\ Finish(t, last[t]) /\ UNCHANGED <<active, seen>>
    BY <1>10 DEF DropStaleTick, Stale
  <2>2. HeadJob(t) = queue[t][1]
    BY <2>1, Fields, TailFacts DEF HeadJob
  <2>3. ~SaveCheckpoint(t)
    BY <2>1 DEF SaveCheckpoint
  <2> QED
    BY <1>9, <2>1, <2>2, <2>3
<1>11. CASE CheckpointFails(t)
  <2>1. /\ queue[t] # <<>> /\ ~queue[t][1].stop /\ phase[t] = "saving"
        /\ Finish(t, last[t]) /\ UNCHANGED <<active, seen>>
    BY <1>11, RunFacts DEF CheckpointFails
  <2>2. active'[t] # NoSid
    BY <2>1 DEF HasRun, Finish, TypeOK
  <2>3. phase'[t] = "idle"
    BY <2>1 DEF Finish, TypeOK
  <2>4. ~SaveCheckpoint(t)
    <3>1. ASSUME SaveCheckpoint(t) PROVE FALSE
      <4>1. faults' = faults /\ faults' = faults + 1 /\ faults \in Nat
        BY <1>11, <3>1, TrackerAssumption DEF SaveCheckpoint, CheckpointFails, Fault, TypeOK
      <4> QED
        BY <4>1
    <3> QED
      BY <3>1
  <2> QED
    BY <1>9, <2>1, <2>4
<1>12. CASE StartCheckpoint(t)
  <2>1. /\ phase[t] = "idle" /\ phase'[t] = "saving" /\ active[t] # NoSid
        /\ UNCHANGED <<queue, last, claim, active, seen>>
    BY <1>12 DEF StartCheckpoint, TypeOK
  <2>2. \A b \in Nat : Mark(t, b)' => Mark(t, b)
    BY <1>0, <2>1 DEF Mark, Base, Ahead, NoStop
  <2>3. ~SaveCheckpoint(t)
    BY <2>1 DEF SaveCheckpoint
  <2>4. (Base(t))' = Base(t)
    BY <2>1 DEF Base
  <2> QED
    BY <1>4, <2>1, <2>2, <2>3, <2>4 DEF HasRun
<1>20. CASE FinalFails(t)
  <2>1. /\ phase[t] = "saving" /\ phase'[t] = "idle" /\ active[t] # NoSid
        /\ UNCHANGED <<queue, last, claim, active, seen>>
    BY <1>20 DEF FinalFails, TypeOK, JobsWell, JobsOf
  <2>2. \A b \in Nat : Mark(t, b)' => Mark(t, b)
    BY <1>0, <2>1 DEF Mark, Base, Ahead, NoStop
  <2>3. ~SaveCheckpoint(t)
    <3>1. ASSUME SaveCheckpoint(t) PROVE FALSE
      <4>1. faults' = faults /\ faults' = faults + 1 /\ faults \in Nat
        BY <1>20, <3>1, TrackerAssumption DEF SaveCheckpoint, FinalFails, Fault, TypeOK
      <4> QED
        BY <4>1
    <3> QED
      BY <3>1
  <2>4. (Base(t))' = Base(t)
    BY <2>1 DEF Base
  <2> QED
    BY <1>4, <2>1, <2>2, <2>3, <2>4 DEF HasRun
<1>13. CASE StartClaim(t)
  BY <1>5, <1>13 DEF StartClaim
<1>14. CASE GrantLock(t)
  <2>1. /\ claim' = [claim EXCEPT ![t] = ReadClock] /\ phase'[t] = "claiming"
        /\ seen'[t] = 0 /\ queue'[t] = queue[t]
    BY <1>14 DEF GrantLock, ReadStart, TypeOK
  <2> QED
    BY <1>0, <2>1, ReadStartCredited
<1>15. CASE StopNothing(t) \/ RefuseClaim(t) \/ ClaimFails(t)
  BY <1>15 DEF StopNothing, RefuseClaim, ClaimFails, Finish, HasRun, TypeOK, JobsWell, JobsOf
<1>16. ASSUME NEW open \in BOOLEAN, phase[t] = "saving", Runs(t), AfterCheckpoint(t, open), ~open
       PROVE  \E f \in [Nat -> Int] : Counts(t, f)' /\ CreditedBy(t, f)'
  <2>1. CASE Finish(t, queue[t][1].moment) /\ active' = [active EXCEPT ![t] = NoSid]
    BY <2>1 DEF Finish, HasRun, TypeOK
  <2>2. CASE /\ Acquire(t, Tail(txs)) /\ active' = [active EXCEPT ![t] = NoSid]
             /\ queue' = queue
    <3>1. active'[t] = NoSid
      BY <2>2 DEF TypeOK
    <3> QED
      BY <1>5, <2>2, <3>1
  <2> QED
    BY <1>16, <2>1, <2>2, AfterFacts
<1>17. CASE LoseSession(t)
  BY <1>16, <1>17 DEF LoseSession
<1>18. CASE SaveCheckpoint(t)
  <2>1. PICK new \in Table!Row :
          /\ Advanced(new, rows[active[t]], last[t], queue[t][1].moment, queue[t][1].stop)
          /\ rows' = [rows EXCEPT ![active[t]] = new]
          /\ AfterCheckpoint(t, new.state = "open")
    BY <1>18, SaveFacts
  <2>2. /\ active[t] \in Sids /\ active[t] # NoSid /\ phase[t] = "saving" /\ Runs(t)
        /\ queue[t] # <<>> /\ queue[t][1].moment \in Moment
    BY <1>18, SaveFacts, RunFacts, TrackerAssumption DEF SaveCheckpoint
  <2>3. CASE new.state # "open"
    BY <1>16, <2>1, <2>2, <2>3
  <2>4. CASE new.state = "open"
    <3>1. Finish(t, queue[t][1].moment) /\ UNCHANGED <<active, seen>>
      BY <2>1, <2>2, <2>4, AfterFacts
    <3>2. ~queue[t][1].stop
      BY <2>1, <2>4 DEF Advanced
    <3>3. PICK f \in [Nat -> Int] : Counts(t, f) /\ CreditedBy(t, f)
      BY <1>1, <2>2 DEF HasRun
    <3>4. /\ new.start = rows[active[t]].start
          /\ Mark(t, queue[t][1].moment.mono)
          /\ new.beat <= new.start + f[queue[t][1].moment.mono]
      BY <1>18, <2>1, <2>4, <3>3, SaveCredited
    <3>5. \A b \in Nat : Mark(t, b)' => Mark(t, b)
      BY <1>0, <2>2, <3>1, <3>2, <3>4, MarksFinish
    <3>6. Counts(t, f)'
      BY <3>1, <3>3, <3>5, CountsKept
    <3>7. /\ phase'[t] = "idle" /\ last'[t] = queue[t][1].moment /\ active'[t] = active[t]
          /\ rows'[active[t]] = new
      BY <2>1, <2>2, <3>1 DEF Finish, TypeOK
    <3>8. CreditedBy(t, f)'
      BY <3>4, <3>7 DEF CreditedBy
    <3> QED
      BY <3>6, <3>8
  <2> QED
    BY <2>3, <2>4
<1>19. ASSUME NEW s \in Sids, ClaimSession(t, s)
       PROVE  \E f \in [Nat -> Int] : Counts(t, f)' /\ CreditedBy(t, f)'
  <2> DEFINE m == claim[t]
  <2>1. /\ phase[t] = "claiming" /\ Runs(t) /\ Finish(t, m) /\ seen' = seen
        /\ rows' = [Table!SealAll(rows) EXCEPT ![s] = Table!NewRow(m.wall)]
        /\ active' = [active EXCEPT ![t] = s]
    BY <1>19 DEF ClaimSession
  <2>2. m \in Moment /\ m.wall \in Nat /\ m.mono \in Nat
    BY Fields, MomentFields
  <2>3. queue[t] # <<>> /\ ~queue[t][1].stop
    BY <2>1 DEF JobsWell, JobsOf
  <2>4. Mark(t, m.mono)
    BY <2>1 DEF Mark, Base
  <2>5. \A b \in Nat : Mark(t, b)' => Mark(t, b)
    BY <1>0, <2>1, <2>2, <2>3, <2>4, MarksFinish
  <2>6. PICK f \in [Nat -> Int] : Counts(t, f) /\ CreditedBy(t, f)
    BY <1>1, <2>1 DEF HasRun
  <2>7. Counts(t, f)'
    BY <2>1, <2>5, <2>6, CountsKept
  <2>8. f[m.mono] \in Int /\ f[m.mono] >= 0
    BY <2>1, <2>2, <2>6 DEF CreditedBy
  <2>9. phase'[t] = "idle" /\ last'[t] = m /\ active'[t] = s
    BY <2>1 DEF Finish, TypeOK
  <2>10. rows'[s].beat = m.wall /\ rows'[s].start = m.wall
    BY <2>1, <2>2, SealAllFacts, NewRowFacts DEF TypeOK
  <2>11. rows'[s].beat <= rows'[s].start + f[m.mono]
    BY <2>2, <2>8, <2>10
  <2>12. CreditedBy(t, f)'
    BY <2>9, <2>11 DEF CreditedBy
  <2> QED
    BY <2>7, <2>12
<1> QED
  BY <1>6, <1>7, <1>8, <1>10, <1>11, <1>12, <1>13, <1>14, <1>15, <1>17, <1>18, <1>19, <1>20
     DEF TabStep, Work

\* Every step keeps every tab's run credited with time its tab had.
LEMMA CreditedStep ==
  ASSUME TypeOK, JobsWell, TxsWell, ClocksWell, OwnRows, Credited, [Next]_vars
  PROVE  Credited'
<1> USE DEF world, tracker, storage
<1>1. ASSUME NEW t \in Tabs, TabStep(t), NEW u \in Tabs, u # t, HasRun(u)'
      PROVE  \E f \in [Nat -> Int] : Counts(u, f)' /\ CreditedBy(u, f)'
  <2>1. Same(u)
    BY <1>1, OthersSame
  <2>2. now' = now /\ slept' = slept
    BY <1>1, MomentsStep
  <2>3. PICK f \in [Nat -> Int] : Counts(u, f) /\ CreditedBy(u, f)
    BY <1>1, <2>1 DEF Same, HasRun, Credited
  <2>4. \A b \in Nat : Mark(u, b)' => Mark(u, b)
    BY <2>1, <2>2 DEF Same, Mark, Base, Ahead, NoStop
  <2>5. Counts(u, f)'
    BY <2>1, <2>3, <2>4, CountsKept DEF Same
  <2>6. active[u] # NoSid => ~SaveCheckpoint(u) \/ rows'[active[u]] = rows[active[u]]
    <3>1. ASSUME active[u] # NoSid, SaveCheckpoint(u), active'[u] = active[u],
                 queue'[u] = queue[u], phase'[u] = phase[u]
          PROVE  FALSE
      <4>1. phase[u] = "saving" /\ Runs(u)
        BY <3>1 DEF SaveCheckpoint
      <4>2. PICK open \in BOOLEAN : AfterCheckpoint(u, open)
        BY <3>1, SaveFacts
      <4>3. queue[u] # <<>>
        BY <4>1, RunFacts
      <4>4. \/ Finish(u, queue[u][1].moment)
            \/ active' = [active EXCEPT ![u] = NoSid]
        BY <4>1, <4>2, AfterFacts
      <4>5. ~Finish(u, queue[u][1].moment)
        BY <3>1, <4>1 DEF Finish, TypeOK
      <4> QED
        BY <3>1, <4>4, <4>5 DEF TypeOK
    <3> QED
      BY <2>1, <3>1 DEF Same
  <2>7. Next
    BY <1>1 DEF TabStep, Next
  <2>8. active[u] # NoSid => /\ rows'[active[u]].beat = rows[active[u]].beat
                             /\ rows'[active[u]].start = rows[active[u]].start
    BY <2>6, <2>7, RunsKept
  <2>9. CreditedBy(u, f)'
    BY <1>1, <2>1, <2>3, <2>8 DEF Same, CreditedBy, HasRun
  <2> QED
    BY <2>5, <2>9
<1>2. ASSUME NEW t \in Tabs, TabStep(t)
      PROVE  Credited'
  BY <1>1, <1>2, OwnCredited DEF Credited
<1>3. ASSUME NEW d \in Nat, NEW e \in Nat, d <= MaxGap => e = d,
             UNCHANGED <<page, queue, phase, last, claim, active, rows>>,
             now' - slept' = (now - slept) + d,
             \A t \in Tabs : seen'[t] = IF Recording(t) THEN seen[t] + e ELSE seen[t]
      PROVE  Credited'
  <2>1. ASSUME NEW t \in Tabs, HasRun(t)'
        PROVE  \E f \in [Nat -> Int] : Counts(t, f)' /\ CreditedBy(t, f)'
    <3>1. HasRun(t)
      BY <1>3, <2>1 DEF HasRun
    <3>2. PICK f \in [Nat -> Int] : Counts(t, f) /\ CreditedBy(t, f)
      BY <3>1 DEF Credited
    <3>3. seen'[t] = IF page[t] = "visible" THEN seen[t] + e ELSE seen[t]
      BY <1>3, <3>1 DEF Recording, HasRun
    <3> QED
      BY <1>3, <3>1, <3>2, <3>3, ClockCredited
  <2> QED
    BY <2>1 DEF Credited
<1>4. CASE Tick
  <2>1. now' - slept' = (now - slept) + 1
    BY <1>4, ClockTyped DEF Tick
  <2>2. UNCHANGED <<page, queue, phase, last, claim, active, rows>>
    BY <1>4 DEF Tick
  <2>3. \A t \in Tabs : seen'[t] = IF Recording(t) THEN seen[t] + 1 ELSE seen[t]
    BY <1>4 DEF Tick
  <2> QED
    BY <1>3, <2>1, <2>2, <2>3
<1>5. ASSUME NEW d \in 1 .. MaxGap + 1, NEW counted \in BOOLEAN, Suspend(d, counted)
      PROVE  Credited'
  <2>1. d \in Nat /\ now \in Nat /\ slept \in Nat /\ 0 \in Nat
    BY ClockTyped, TrackerAssumption
  <2>2. UNCHANGED <<page, queue, phase, last, claim, active, rows>>
    BY <1>5 DEF Suspend
  <2>3. CASE counted /\ d <= MaxGap
    <3>1. now' - slept' = (now - slept) + d
      BY <1>5, <2>1, <2>3 DEF Suspend
    <3>2. \A t \in Tabs : seen'[t] = IF Recording(t) THEN seen[t] + d ELSE seen[t]
      BY <1>5, <2>3 DEF Suspend
    <3> QED
      BY <1>3, <2>1, <2>2, <2>3, <3>1, <3>2
  <2>4. CASE counted /\ ~(d <= MaxGap)
    <3>1. now' - slept' = (now - slept) + d
      BY <1>5, <2>1, <2>4 DEF Suspend
    <3>2. \A t \in Tabs : seen'[t] = IF Recording(t) THEN seen[t] + 0 ELSE seen[t]
      BY <1>5, <2>4, Fields DEF Suspend, TypeOK
    <3> QED
      BY <1>3, <2>1, <2>2, <2>4, <3>1, <3>2
  <2>5. CASE ~counted
    <3>1. now' - slept' = (now - slept) + 0
      BY <1>5, <2>1, <2>5 DEF Suspend
    <3>2. \A t \in Tabs : seen'[t] = IF Recording(t) THEN seen[t] + 0 ELSE seen[t]
      BY <1>5, <2>5, Fields DEF Suspend, TypeOK
    <3> QED
      BY <1>3, <2>1, <2>2, <3>1, <3>2
  <2> QED
    BY <2>3, <2>4, <2>5
<1>6. CASE Recover \/ UNCHANGED vars
  <2>1. ASSUME NEW t \in Tabs, HasRun(t)'
        PROVE  \E f \in [Nat -> Int] : Counts(t, f)' /\ CreditedBy(t, f)'
    <3>1. UNCHANGED <<now, slept, queue, phase, last, claim, active, seen>>
      BY <1>6 DEF Recover, vars
    <3>2. PICK f \in [Nat -> Int] : Counts(t, f) /\ CreditedBy(t, f)
      BY <2>1, <3>1 DEF HasRun, Credited
    <3>3. \A b \in Nat : Mark(t, b)' => Mark(t, b)
      BY <3>1 DEF Mark, Base, Ahead, NoStop
    <3>4. Counts(t, f)'
      BY <3>1, <3>2, <3>3, CountsKept
    <3>5. active[t] # NoSid => /\ rows'[active[t]].beat = rows[active[t]].beat
                               /\ rows'[active[t]].start = rows[active[t]].start
      BY <1>6, SealAllFacts DEF Recover, vars, TypeOK
    <3>6. CreditedBy(t, f)'
      BY <2>1, <3>1, <3>2, <3>5 DEF CreditedBy, HasRun
    <3> QED
      BY <3>4, <3>6
  <2> QED
    BY <2>1 DEF Credited
<1> QED
  BY <1>2, <1>4, <1>5, <1>6 DEF Next, TabStep

-----------------------------------------------------------------------------
(* What the tracker promises.                                              *)

IInv ==
  /\ TypeOK /\ JobsWell /\ TxsWell
  /\ LocksWell /\ OwnRows /\ OneOpenRunLeased
  /\ ClocksWell /\ TxsInOrder /\ EndsWell /\ Credited

\* The inductive invariant: from the first state on, and kept by every call of
\* record(), transaction, grant, crash, suspension and recovery.
THEOREM TrackerInvariant == Spec => []IInv
<1>1. Init => IInv
  BY InitTyped, InitJobs, InitOwned, InitClocks, InitEnds, InitCredited DEF IInv
<1>2. IInv /\ [Next]_vars => IInv'
  <2> SUFFICES ASSUME IInv, [Next]_vars PROVE IInv'
    OBVIOUS
  <2> USE DEF IInv
  <2>1. TypeOK' /\ JobsWell' /\ TxsWell'
    BY TypeStep, JobsStep, TxsStep
  <2>2. LocksWell' /\ OwnRows' /\ OneOpenRunLeased'
    BY LocksStep, OwnRowsStep, LeaseStep
  <2>3. ClocksWell' /\ TxsInOrder' /\ EndsWell'
    BY ClocksStep, OrderStep, EndsStep
  <2>4. Credited'
    BY CreditedStep
  <2> QED
    BY <2>1, <2>2, <2>3, <2>4
<1> QED
  BY <1>1, <1>2, PTL DEF Spec

\* Every variable keeps its type: the queues of record() never outgrow their
\* bound, no tab has two transactions and the clock that sleep stops never
\* runs ahead of the wall clock.
THEOREM TrackerTyped == Spec => []TypeOK
<1>1. IInv => TypeOK
  BY DEF IInv
<1> QED
  BY <1>1, TrackerInvariant, PTL

\* At most one run of the profile is open, the one its lease names, whatever
\* tabs claim, crash, take over and recover, with Web Locks or without.
THEOREM OneOpenRun == Spec => []OneOpenRunLeased
<1>1. IInv => OneOpenRunLeased
  BY DEF IInv
<1> QED
  BY <1>1, TrackerInvariant, PTL

\* With Web Locks a tab that has a session holds the lock: the recovery of an
\* upload that finds the lock free ends nobody's live run.
THEOREM LockHolderOnly == Spec => []ActiveHoldsLock
<1>1. IInv => ActiveHoldsLock
  BY DEF IInv, LocksWell, ActiveHoldsLock
<1> QED
  BY <1>1, TrackerInvariant, PTL

LEMMA CreditStep ==
  ASSUME IInv, [Next]_vars, NEW t \in Tabs, NEW s \in {active[t]} \cap Sids,
         rows'[s] # rows[s]
  PROVE  rows'[s].beat <= rows[s].start + seen[t]
<1> USE DEF IInv
<1>1. s \in Sids /\ active[t] = s /\ active[t] # NoSid
  BY TrackerAssumption
<1>2. PICK f \in [Nat -> Int] : Counts(t, f) /\ CreditedBy(t, f)
  BY <1>1 DEF Credited, HasRun
<1>3. /\ rows[s].beat \in Nat /\ rows[s].start \in Nat /\ seen[t] \in Nat
      /\ last[t].mono \in Nat
  BY <1>1, RowFields, Fields, MomentFields
<1>4. CASE SaveCheckpoint(t)
  <2>1. PICK new \in Table!Row :
          /\ Advanced(new, rows[active[t]], last[t], queue[t][1].moment, queue[t][1].stop)
          /\ rows' = [rows EXCEPT ![active[t]] = new]
    BY <1>4, SaveFacts
  <2>2. new.start = rows[active[t]].start /\ new.beat <= new.start + seen[t]
    BY <1>2, <1>4, <2>1, SaveCredited
  <2>3. rows'[s] = new
    BY <1>1, <2>1 DEF TypeOK
  <2> QED
    BY <1>1, <2>2, <2>3
<1>5. CASE ~SaveCheckpoint(t)
  <2>1. rows'[s].beat = rows[s].beat
    BY <1>1, <1>5, RunsKept
  <2>2. phase[t] # "claiming"
    BY <1>1 DEF JobsWell, JobsOf
  <2>3. f[last[t].mono] \in Int /\ f[last[t].mono] <= seen[t]
        /\ rows[s].beat <= rows[s].start + f[last[t].mono]
    BY <1>1, <1>2, <1>3, <2>2 DEF Counts, CreditedBy, Mark, Base
  <2> QED
    BY <1>3, <2>1, <2>3
<1> QED
  BY <1>4, <1>5

\* No checkpoint leaves a run with more time than its tab was in the foreground
\* since the run began: not hidden time, not a suspension of either kind, not
\* the wait for a lock, a transaction or a retry, however the clocks drift.
THEOREM ForegroundOnly == Spec => OnlyForegroundCredited
<1>1. IInv /\ [Next]_vars =>
        [\A t \in Tabs : \A s \in {active[t]} \cap Sids :
           rows'[s] # rows[s] => rows'[s].beat <= rows[s].start + seen[t]]_vars
  BY CreditStep
<1> QED
  BY <1>1, TrackerInvariant, PTL DEF Spec, OnlyForegroundCredited

-----------------------------------------------------------------------------
(* The tracker implements SessionRows.                                     *)

LEMMA SaveGrows ==
  ASSUME IInv, NEW t \in Tabs, SaveCheckpoint(t)
  PROVE  Table!Next
<1> USE DEF IInv
<1>1. PICK new \in Table!Row :
        /\ Advanced(new, rows[active[t]], last[t], queue[t][1].moment, queue[t][1].stop)
        /\ rows' = [rows EXCEPT ![active[t]] = new]
  BY SaveFacts
<1>2. active[t] \in Sids /\ rows[active[t]].state = "open"
  BY SaveFacts
<1>3. new.beat \in Nat /\ new.beat <= now /\ rows[active[t]].beat <= new.beat
  BY <1>1, SavedEnd
<1>4. new.beat \in 0 .. MaxTime
  BY <1>3, ClockTyped, TrackerAssumption
<1>5. new \in {Table!Seal(rows[active[t]], new.beat),
               [rows[active[t]] EXCEPT !.beat = new.beat, !.rev = rows[active[t]].rev + 1]}
  BY <1>1 DEF Advanced
<1>6. Table!Grow(active[t], new.beat)
  BY <1>1, <1>2, <1>3, <1>5 DEF Table!Grow
<1> QED
  BY <1>2, <1>4, <1>6 DEF Table!Next

LEMMA ClaimBegins ==
  ASSUME IInv, NEW t \in Tabs, NEW s \in Sids, ClaimSession(t, s)
  PROVE  Table!Next
<1> USE DEF IInv
<1>1. claim[t].wall \in Nat /\ claim[t].wall <= now
  BY MomentsTyped, MomentPast
<1>2. claim[t].wall \in 0 .. MaxTime
  BY <1>1, ClockTyped, TrackerAssumption
<1>3. \A r \in Sids : rows[r].beat <= claim[t].wall
  BY DEF ClaimSession, EndsWell
<1>4. Table!Begin(s, claim[t].wall)
  BY <1>3 DEF ClaimSession, Table!Begin, Table!Used
<1> QED
  BY <1>2, <1>4 DEF Table!Next

LEMMA RecoverAbandons ==
  ASSUME IInv, Recover
  PROVE  Table!Next \/ rows' = rows
<1>1. rows' = Table!SealAll(rows)
  BY DEF Recover
<1>2. CASE Table!Open = {}
  <2>1. \A s \in Sids : rows[s].state # "open"
    BY <1>2 DEF Table!Open
  <2>2. rows = [s \in Sids |-> rows[s]]
    BY DEF IInv, TypeOK
  <2>3. Table!SealAll(rows) = rows
    BY <2>1, <2>2 DEF Table!SealAll
  <2> QED
    BY <1>1, <2>3
<1>3. CASE Table!Open # {}
  BY <1>1, <1>3 DEF Table!Next, Table!Abandon
<1> QED
  BY <1>2, <1>3

\* The tracker, with its queues, locks, leases and clocks, implements the
\* sessions table: claims begin runs after every other run's end, checkpoints
\* make the open run grow, and recovery ends what was abandoned.
THEOREM TrackerRefinesTable == Spec => TableSpec
<1>1. Init => Table!Init
  BY DEF Init, Table!Init
<1>2. IInv /\ [Next]_vars => [Table!Next]_rows
  <2> SUFFICES ASSUME IInv, [Next]_vars PROVE Table!Next \/ rows' = rows
    OBVIOUS
  <2>1. CASE \E t \in Tabs : SaveCheckpoint(t) \/ \E s \in Sids : ClaimSession(t, s)
    BY <2>1, SaveGrows, ClaimBegins
  <2>2. CASE Recover
    BY <2>2, RecoverAbandons
  <2>3. CASE ~ (\E t \in Tabs : SaveCheckpoint(t) \/ \E s \in Sids : ClaimSession(t, s))
             /\ ~ Recover
    BY <2>3, TableUntouched DEF IInv
  <2> QED
    BY <2>1, <2>2, <2>3
<1> QED
  BY <1>1, <1>2, TrackerInvariant, PTL DEF Spec, TableSpec, Table!Spec

Rows == INSTANCE SessionRowsProofs WITH Instants <- 0 .. MaxTime

\* So no two runs of the profile share a moment of time, whichever tabs recorded
\* them: what SessionRows promises holds of the tracker's table.
THEOREM TrackerRunsApart == Spec => []Table!DisjointRuns
<1>1. 0 .. MaxTime \subseteq Nat
  OBVIOUS
<1>2. Rows!Spec => []Rows!DisjointRuns
  BY <1>1, Rows!RunsApart
<1>3. Table!Spec => Rows!Spec
  BY DEF Table!Spec, Rows!Spec, Table!Init, Rows!Init, Table!Next, Rows!Next, Table!Begin, Rows!Begin,
     Table!Grow, Rows!Grow, Table!Abandon, Rows!Abandon, Table!NoRow, Rows!NoRow, Table!NewRow,
     Rows!NewRow, Table!Seal, Rows!Seal, Table!SealAll, Rows!SealAll, Table!Open, Rows!Open,
     Table!Used, Rows!Used
<1>4. Rows!DisjointRuns => Table!DisjointRuns
  BY DEF Table!DisjointRuns, Rows!DisjointRuns, Table!Used, Rows!Used
<1> QED
  BY <1>2, <1>3, <1>4, TrackerRefinesTable, PTL DEF TableSpec
=============================================================================
