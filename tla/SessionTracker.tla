--------------------------- MODULE SessionTracker ---------------------------
(***************************************************************************)
(* How the tabs of one browser profile share the recording of reading      *)
(* time (apps/web/features/offline/buckets/sessions): the tracker of each  *)
(* open book, its serialized queue of checkpoints, the Web Lock or, in     *)
(* browsers without one, the lease, and the sessions table they write.     *)
(*                                                                         *)
(* A call of record() and each IndexedDB transaction is one step; between  *)
(* the steps of one call the other tabs, the clock, visibility events, a   *)
(* recovery and a crash may come.  Time is in whole ticks of the clock.    *)
(***************************************************************************)
EXTENDS Naturals, SequencesExt

CONSTANTS Tabs,        \* documents that open the reader in one profile
          Sids,        \* client session ids that can be drawn
          NoTab,       \* the lock is free
          NoSid,       \* a tracker with no active session
          Browsers,    \* the browsers: with navigator.locks (TRUE) or without it
          MaxGap,      \* SESSION_MAX_GAP_MS
          MaxDuration, \* SESSION_MAX_DURATION_MS
          Tolerance,   \* SESSION_CLOCK_TOLERANCE_MS
          MaxTime,     \* bound: the clock stops here
          MaxQueue,    \* bound: calls of record() a tab has outstanding
          MaxFaults    \* bound: crashes, suspensions and failed transactions

ASSUME TrackerAssumption ==
  /\ NoTab \notin Tabs /\ NoSid \notin Sids
  /\ Browsers \subseteq BOOLEAN
  /\ {MaxGap, MaxDuration, Tolerance, MaxTime, MaxFaults} \subseteq Nat
  /\ MaxQueue \in Nat \ {0} /\ MaxGap < MaxDuration

VARIABLES
  webLocks, \* navigator.locks exists in this browser
  now,      \* wall clock (Date.now)
  slept,    \* wall time the monotonic clock did not count (performance.now)
  page,     \* [Tabs -> "gone" | "visible" | "hidden"]: the document
  queue,    \* [Tabs -> Seq(Job)]: the tracker's `pending' chain
  phase,    \* [Tabs -> where the head job of the queue is]
  last,     \* [Tabs -> Moment]: lastMoment
  claim,    \* [Tabs -> Moment]: the `at' of a claim under way
  active,   \* [Tabs -> Sids \cup {NoSid}]
  lock,     \* the tab that holds the Web Lock, or NoTab
  txs,      \* tabs with an open transaction, in the order they opened it
  lease,    \* the lease row of the meta table, or NoLease
  rows,     \* the sessions table
  faults,   \* crashes, suspensions and failed transactions so far
  seen      \* history: foreground time of each tab since its run began

world   == <<webLocks, now, slept>>
tracker == <<queue, phase, last, claim, active, lock, txs>>
storage == <<lease, rows>>
vars    == <<world, page, tracker, storage, faults, seen>>

Table == INSTANCE SessionRows WITH Instants <- 0 .. MaxTime

Moment  == [wall : Nat, mono : Nat]
Job     == [stop : BOOLEAN, moment : Moment]
Lease   == [owner : Tabs, sid : Sids, expires : Nat]
NoLease == [expires |-> 0]

\* The head job is about to start, is inside checkpointSession's transaction,
\* waits for the lock, or is inside claimSession's transaction.
Phases  == {"idle", "saving", "waiting", "claiming"}

Moment0   == [wall |-> 0, mono |-> 0]
ReadClock == [wall |-> now, mono |-> now - slept]

Init ==
  /\ webLocks \in Browsers
  /\ now = 0 /\ slept = 0
  /\ page = [t \in Tabs |-> "gone"]
  /\ queue = [t \in Tabs |-> <<>>]
  /\ phase = [t \in Tabs |-> "idle"]
  /\ last = [t \in Tabs |-> Moment0]
  /\ claim = [t \in Tabs |-> Moment0]
  /\ active = [t \in Tabs |-> NoSid]
  /\ lock = NoTab
  /\ txs = <<>>
  /\ lease = NoLease
  /\ rows = [s \in Sids |-> Table!NoRow]
  /\ faults = 0
  /\ seen = [t \in Tabs |-> 0]

-----------------------------------------------------------------------------
(* The clock.                                                              *)

\* Bounds what goes wrong: a crash, a suspension, a transaction that fails.
Fault ==
  /\ faults < MaxFaults
  /\ faults' = faults + 1

\* Foreground time of a tab with a run counts from the start of that run.
Recording(t) == page[t] = "visible" /\ (active[t] # NoSid \/ phase[t] = "claiming")

\* A document runs its promise chain as far as it goes before the next event,
\* and no measurable time passes meanwhile.
Settled(t) == queue[t] # <<>> => phase[t] # "idle"

Tick ==
  /\ now < MaxTime /\ \A t \in Tabs : Settled(t)
  /\ now' = now + 1
  /\ seen' = [t \in Tabs |-> IF Recording(t) THEN seen[t] + 1 ELSE seen[t]]
  /\ UNCHANGED <<webLocks, slept, page, tracker, storage, faults>>

\* The machine suspends for d ticks.  Some platforms count them on the
\* monotonic clock and some do not; what looks like a short gap on both
\* clocks cannot be told from reading, every other suspension can.
Suspend(d, counted) ==
  /\ now + d <= MaxTime /\ \A t \in Tabs : Settled(t)
  /\ now' = now + d
  /\ slept' = IF counted THEN slept ELSE slept + d
  /\ seen' = [t \in Tabs |-> IF Recording(t) /\ counted /\ d <= MaxGap
                               THEN seen[t] + d ELSE seen[t]]
  /\ Fault
  /\ UNCHANGED <<webLocks, page, tracker, storage>>

-----------------------------------------------------------------------------
(* record(): freeze the moment and chain a job behind the pending ones.    *)

\* A stop also aborts the lock request an earlier job is waiting on: that job
\* ends at once with no session and its own moment for lastMoment.
Record(t, stop) ==
  LET aborts == stop /\ phase[t] = "waiting"
      jobs   == IF aborts THEN Tail(queue[t]) ELSE queue[t]
  IN  /\ Settled(t) /\ Len(jobs) < MaxQueue
      /\ queue' = [queue EXCEPT ![t] = Append(jobs, [stop |-> stop, moment |-> ReadClock])]
      /\ phase' = IF aborts THEN [phase EXCEPT ![t] = "idle"] ELSE phase
      /\ last' = IF aborts THEN [last EXCEPT ![t] = queue[t][1].moment] ELSE last
      /\ UNCHANGED <<claim, active, lock, txs>>

\* Mounting the reader creates a tracker and starts it.
OpenPage(t) ==
  /\ page[t] = "gone"
  /\ page' = [page EXCEPT ![t] = "visible"]
  /\ last' = [last EXCEPT ![t] = ReadClock]
  /\ queue' = [queue EXCEPT ![t] = <<[stop |-> FALSE, moment |-> ReadClock]>>]
  /\ UNCHANGED <<world, phase, claim, active, lock, txs, storage, faults, seen>>

\* visibilitychange, pageshow and pagehide; leaving the reader stops it too.
Show(t) ==
  /\ page[t] = "hidden"
  /\ page' = [page EXCEPT ![t] = "visible"]
  /\ Record(t, FALSE)
  /\ UNCHANGED <<world, storage, faults, seen>>

Hide(t) ==
  /\ page[t] = "visible"
  /\ page' = [page EXCEPT ![t] = "hidden"]
  /\ Record(t, TRUE)
  /\ UNCHANGED <<world, storage, faults, seen>>

\* The 30 second timer of a visible tab, or its watch on the lease: once an
\* instant is enough.  (The timer of a hidden tab repeats a stop already made.)
Heartbeat(t) ==
  /\ page[t] = "visible"
  /\ \A i \in 1 .. Len(queue[t]) : queue[t][i].moment # ReadClock
  /\ last[t] # ReadClock \/ (now = MaxTime /\ active[t] = NoSid)
  /\ Record(t, FALSE)
  /\ UNCHANGED <<world, page, storage, faults, seen>>

\* (Mutant of Crash: the transactions of a destroyed document are not aborted.)
CrashKeepsTransaction(t) ==
  /\ page[t] # "gone"
  /\ Fault
  /\ page' = [page EXCEPT ![t] = "gone"]
  /\ queue' = [queue EXCEPT ![t] = <<>>]
  /\ phase' = [phase EXCEPT ![t] = "idle"]
  /\ active' = [active EXCEPT ![t] = NoSid]
  /\ lock' = IF lock = t THEN NoTab ELSE lock
  /\ UNCHANGED <<world, last, claim, txs, storage, seen>>

\* The document is destroyed: its memory and its locks go, storage stays.
Crash(t) ==
  /\ page[t] # "gone"
  /\ Fault
  /\ page' = [page EXCEPT ![t] = "gone"]
  /\ queue' = [queue EXCEPT ![t] = <<>>]
  /\ phase' = [phase EXCEPT ![t] = "idle"]
  /\ active' = [active EXCEPT ![t] = NoSid]
  /\ lock' = IF lock = t THEN NoTab ELSE lock
  /\ txs' = RemoveFirst(txs, t)
  /\ last' = [last EXCEPT ![t] = Moment0]
  /\ claim' = [claim EXCEPT ![t] = Moment0]
  /\ UNCHANGED <<world, storage, seen>>

-----------------------------------------------------------------------------
(* persist(): run the head of the queue.                                   *)

HeadJob(t) == Head(queue[t])

\* The job is over: the queue moves on and lastMoment becomes `moment'.
Finish(t, moment) ==
  /\ queue' = [queue EXCEPT ![t] = Tail(@)]
  /\ phase' = [phase EXCEPT ![t] = "idle"]
  /\ last' = [last EXCEPT ![t] = moment]
  /\ claim' = [claim EXCEPT ![t] = Moment0]

\* Transactions over the same tables run in the order they were opened.
Runs(t) == txs # <<>> /\ Head(txs) = t

Commit == txs' = Tail(txs)

\* release(): give the lock back.
Release(t) == lock' = IF lock = t THEN NoTab ELSE lock

\* A later stop() has moved the generation on, or a claim has moved
\* lastMoment past this tick.
Stale(t) ==
  /\ ~HeadJob(t).stop
  /\ \/ \E i \in 2 .. Len(queue[t]) : queue[t][i].stop
     \/ HeadJob(t).moment.mono < last[t].mono

DropStaleTick(t) ==
  /\ phase[t] = "idle" /\ queue[t] # <<>>
  /\ Stale(t)
  /\ Finish(t, last[t])
  /\ UNCHANGED <<world, page, active, lock, txs, storage, faults, seen>>

\* checkpointSession opens its transaction.
StartCheckpoint(t) ==
  /\ phase[t] = "idle" /\ queue[t] # <<>>
  /\ ~Stale(t)
  /\ active[t] # NoSid
  /\ phase' = [phase EXCEPT ![t] = "saving"]
  /\ txs' = Append(txs, t)
  /\ UNCHANGED <<world, page, queue, last, claim, active, lock, storage, faults, seen>>

\* The run to be claimed starts at the moment the ownership is there.
ReadStart(t, others) ==
  /\ txs' = Append(others, t)
  /\ phase' = [phase EXCEPT ![t] = "claiming"]
  /\ claim' = [claim EXCEPT ![t] = ReadClock]
  /\ seen' = [seen EXCEPT ![t] = 0]

\* (Mutant of Acquire: the lock is not asked for.)
AcquireWithoutLock(t, others) == ReadStart(t, others)

\* acquireSessionOwnership: at once if this tab still owns the recording or
\* the browser has no locks, otherwise the request joins the lock's queue.
Acquire(t, others) ==
  IF webLocks /\ lock # t
    THEN /\ phase' = [phase EXCEPT ![t] = "waiting"]
         /\ txs' = others
         /\ UNCHANGED <<claim, seen>>
    ELSE ReadStart(t, others)

StartClaim(t) ==
  /\ phase[t] = "idle" /\ queue[t] # <<>>
  /\ ~Stale(t) /\ ~HeadJob(t).stop
  /\ active[t] = NoSid
  /\ Acquire(t, txs)
  /\ UNCHANGED <<world, page, queue, last, active, lock, storage, faults>>

\* stop() of a tracker with no session only gives up the lock.
StopNothing(t) ==
  /\ phase[t] = "idle" /\ queue[t] # <<>>
  /\ HeadJob(t).stop /\ active[t] = NoSid
  /\ Finish(t, HeadJob(t).moment)
  /\ Release(t)
  /\ UNCHANGED <<world, page, active, txs, storage, faults, seen>>

\* (Mutant of Interrupted: only a clock that runs backwards is noticed.)
InterruptedBackwards(before, after) ==
  after.mono < before.mono \/ after.wall < before.wall

\* measureReadingTick: a gap no reading explains.
Interrupted(before, after) ==
  \/ after.mono < before.mono \/ after.wall < before.wall
  \/ after.mono > before.mono + MaxGap \/ after.wall > before.wall + MaxGap
  \/ after.wall + before.mono > after.mono + before.wall + Tolerance
  \/ after.mono + before.wall > after.wall + before.mono + Tolerance

\* advanceSession: an interrupted run ends at its last durable checkpoint;
\* any other grows by the time counted, and ends on stop or near 24 hours.
Advance(row, before, after, stop) ==
  LET broken == Interrupted(before, after)
      at     == IF broken THEN row.beat ELSE row.beat + (after.mono - before.mono)
      close  == stop \/ broken \/ at >= row.start + MaxDuration - MaxGap
  IN  IF close THEN Table!Seal(row, at)
               ELSE [row EXCEPT !.beat = at, !.rev = row.rev + 1]

\* (Mutant of OwnsOpenRow: the transaction trusts the tracker's memory.)
OwnsAnyRow(t) == rows[active[t]].state # "none"

\* The transaction finds its own lease and its own row open.
OwnsOpenRow(t) ==
  /\ lease # NoLease /\ lease.owner = t /\ lease.sid = active[t]
  /\ rows[active[t]].state = "open"

\* After the transaction: a session still open ends the job; a tick that
\* closed or lost its session claims the next one; a stop releases.
AfterCheckpoint(t, open) ==
  IF open
    THEN Finish(t, HeadJob(t).moment) /\ Commit /\ UNCHANGED <<active, lock, seen>>
    ELSE /\ active' = [active EXCEPT ![t] = NoSid]
         /\ IF HeadJob(t).stop
              THEN Finish(t, HeadJob(t).moment) /\ Release(t) /\ Commit /\ UNCHANGED seen
              ELSE Acquire(t, Tail(txs)) /\ UNCHANGED <<queue, last, lock>>

SaveCheckpoint(t) ==
  /\ phase[t] = "saving" /\ Runs(t) /\ OwnsOpenRow(t)
  /\ LET job == HeadJob(t)
         row == Advance(rows[active[t]], last[t], job.moment, job.stop)
     IN /\ rows' = [rows EXCEPT ![active[t]] = row]
        /\ lease' = IF row.state = "open"
                      THEN [lease EXCEPT !.expires = job.moment.wall + MaxGap]
                      ELSE NoLease
        /\ AfterCheckpoint(t, row.state = "open")
  /\ UNCHANGED <<world, page, faults>>

\* The lease or the row belongs to another tab by now.
LoseSession(t) ==
  /\ phase[t] = "saving" /\ Runs(t) /\ ~OwnsOpenRow(t)
  /\ AfterCheckpoint(t, FALSE)
  /\ UNCHANGED <<world, page, faults, storage>>

\* The transaction of a tick fails: the next tick measures from the last
\* durable moment.
CheckpointFails(t) ==
  /\ phase[t] = "saving" /\ Runs(t) /\ ~HeadJob(t).stop
  /\ Finish(t, last[t])
  /\ Commit
  /\ Fault
  /\ UNCHANGED <<world, page, active, lock, storage, seen>>

\* retryFinalCheckpoint: a stop keeps its frozen moment, its run and the lock,
\* and opens another transaction behind those opened meanwhile.  (The retry's
\* wait is time spent before the failure, which nothing can tell from it.)
FinalFails(t) ==
  /\ phase[t] = "saving" /\ Runs(t) /\ HeadJob(t).stop
  /\ phase' = [phase EXCEPT ![t] = "idle"]
  /\ Commit
  /\ Fault
  /\ UNCHANGED <<world, page, queue, last, claim, active, lock, storage, seen>>

-----------------------------------------------------------------------------
(* claimNextSession().                                                     *)

\* The browser grants the lock; the start of the run is read at that moment.
GrantLock(t) ==
  /\ phase[t] = "waiting" /\ lock = NoTab
  /\ lock' = t
  /\ ReadStart(t, txs)
  /\ UNCHANGED <<world, page, queue, last, active, storage, faults>>

\* Without the lock, an unexpired lease keeps the recording where it is.
Refused(t) == ~webLocks /\ lease # NoLease /\ lease.expires > claim[t].wall

ClaimSession(t, s) ==
  /\ phase[t] = "claiming" /\ Runs(t) /\ ~Refused(t)
  /\ rows[s].state = "none"
  /\ rows' = [Table!SealAll(rows) EXCEPT ![s] = Table!NewRow(claim[t].wall)]
  /\ lease' = [owner |-> t, sid |-> s, expires |-> claim[t].wall + MaxGap]
  /\ active' = [active EXCEPT ![t] = s]
  /\ Finish(t, claim[t])
  /\ Commit
  /\ UNCHANGED <<world, page, lock, faults, seen>>

RefuseClaim(t) ==
  /\ phase[t] = "claiming" /\ Runs(t) /\ Refused(t)
  /\ Finish(t, HeadJob(t).moment)
  /\ Commit
  /\ Release(t)
  /\ UNCHANGED <<world, page, active, storage, faults, seen>>

\* The transaction fails: the job is given up, and a lock it got is kept.
ClaimFails(t) ==
  /\ phase[t] = "claiming" /\ Runs(t)
  /\ Finish(t, last[t])
  /\ Commit
  /\ Fault
  /\ UNCHANGED <<world, page, active, lock, storage, seen>>

-----------------------------------------------------------------------------
\* A lease runs out with the clock.  The bounded clock stands still at MaxTime,
\* where every lease counts as run out.
LeaseExpired == lease.expires <= now \/ now = MaxTime

\* (Mutants of Recover: the lease goes and the open run stays; and a lease that
\* has run out still keeps its run from recovery.)
RecoverLeaseOnly ==
  /\ webLocks => lock = NoTab
  /\ LeaseExpired
  /\ lease' = NoLease
  /\ UNCHANGED <<world, page, tracker, rows, faults, seen>>

RecoverUnleased ==
  /\ webLocks => lock = NoTab
  /\ lease = NoLease
  /\ rows' = Table!SealAll(rows)
  /\ UNCHANGED <<world, page, tracker, lease, faults, seen>>

\* recoverSessions, before each upload: with locks only if the lock is free,
\* and only once no lease is live.
Recover ==
  /\ webLocks => lock = NoTab
  /\ LeaseExpired
  /\ rows' = Table!SealAll(rows)
  /\ lease' = NoLease
  /\ UNCHANGED <<world, page, tracker, faults, seen>>

\* The head job of a tab's queue moves on.
Work(t) ==
  \/ DropStaleTick(t) \/ StartCheckpoint(t) \/ StartClaim(t) \/ StopNothing(t)
  \/ SaveCheckpoint(t) \/ LoseSession(t) \/ CheckpointFails(t) \/ FinalFails(t)
  \/ RefuseClaim(t) \/ ClaimFails(t)
  \/ \E s \in Sids : ClaimSession(t, s)

Next ==
  \/ Tick
  \/ \E d \in 1 .. MaxGap + 1, counted \in BOOLEAN : Suspend(d, counted)
  \/ \E t \in Tabs :
       \/ OpenPage(t) \/ Show(t) \/ Hide(t) \/ Heartbeat(t) \/ Crash(t)
       \/ Work(t) \/ GrantLock(t)
  \/ Recover

Spec == Init /\ [][Next]_vars

\* Time passes without end; a promise chain, a transaction and its retries go on until they
\* are done; the browser hands a free lock to a tab that waits for it; the
\* timer of a visible tab fires; and the app's upload runs again and recovers.
Fairness ==
  /\ <>[](now = MaxTime) /\ WF_vars(Recover)
  /\ \A t \in Tabs : WF_vars(Work(t)) /\ SF_vars(GrantLock(t)) /\ WF_vars(Heartbeat(t))

FairSpec == Spec /\ Fairness

-----------------------------------------------------------------------------
(* Properties.                                                             *)

TypeOK ==
  /\ webLocks \in Browsers
  /\ now \in 0 .. MaxTime /\ slept \in 0 .. now
  /\ page \in [Tabs -> {"gone", "visible", "hidden"}]
  /\ queue \in [Tabs -> Seq(Job)] /\ \A t \in Tabs : Len(queue[t]) <= MaxQueue
  /\ phase \in [Tabs -> Phases]
  /\ last \in [Tabs -> Moment] /\ claim \in [Tabs -> Moment]
  /\ active \in [Tabs -> Sids \cup {NoSid}]
  /\ lock \in Tabs \cup {NoTab}
  /\ txs \in Seq(Tabs) /\ \A i, j \in DOMAIN txs : txs[i] = txs[j] => i = j
  /\ lease \in Lease \cup {NoLease}
  /\ rows \in [Sids -> Table!Row]
  /\ faults \in 0 .. MaxFaults
  /\ seen \in [Tabs -> Nat]

\* The meta table and the sessions table agree: at most one run is open, and
\* it is the one the lease names, after any crash, takeover or recovery
\* (claim-session.ts:9, "The lease and session share one transaction").
OneOpenRunLeased ==
  \A s \in Sids : rows[s].state = "open" => lease # NoLease /\ lease.sid = s

\* With locks only the tab that holds the lock ever has a session, so a
\* recovery that finds the lock free seals nobody's live run.
ActiveHoldsLock == webLocks => \A t \in Tabs : active[t] # NoSid => lock = t

\* A checkpoint never leaves a run with more time than its own tab spent in
\* the foreground since the run began: hidden time, suspensions, and waiting
\* for a lock, a transaction or the retry of a final save are never credited.
OnlyForegroundCredited ==
  [][\A t \in Tabs : \A s \in {active[t]} \cap Sids :
       rows'[s] # rows[s] => rows'[s].beat <= rows[s].start + seen[t]]_vars

\* A run whose tab is hidden, crashed or has lost it is closed in the end, so
\* its time can be uploaded as final; unless the bound leaves no fresh id to
\* the tab that has taken the recording over.
RunsEnd ==
  \A s \in Sids :
    (/\ rows[s].state = "open"
     /\ \A t \in Tabs : active[t] = s => page[t] # "visible")
      ~> (rows[s].state = "closed" \/ Table!Used = Sids)

\* The tracker implements the promise of the sessions table.
TableSpec == Table!Spec
=============================================================================
