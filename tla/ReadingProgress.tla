-------------------------- MODULE ReadingProgress --------------------------
(***************************************************************************)
(* The reading position of one book on several devices of one account      *)
(* (apps/web/features/offline/buckets/progress, features/reader/resume.ts, *)
(* the reader's progress-sync hooks, apps/api/src/reader/progress).        *)
(*                                                                         *)
(* Every device keeps a durable row that the open reader marks dirty; the  *)
(* open reader and a background runner upload it, each with its own        *)
(* requests, until the server has answered for exactly that row.  The      *)
(* server keeps the most recent reading by the client's clock.  Requests   *)
(* are lost, answered late and handled out of order.                       *)
(*                                                                         *)
(* `since' is history: the stamp of the reader's last real change of       *)
(* position, which a row, its upload and the server record carry along.    *)
(***************************************************************************)
EXTENDS Integers, FiniteSets

CONSTANTS Devices,
          Positions,   \* locators of the book
          NoPosition,  \* a null locator
          Opening,     \* where chapter 1 starts
          Percent,     \* [Positions -> 0 .. 100]: computeProgressMetricsFromIndex
          Overlap,     \* whether the server works on two writes of the book at once
          MaxTime,     \* bound: the clock and the stamps of the rows
          MaxRequests, \* bound: uploads under way
          MaxFaults    \* bound: requests lost or given up, pages destroyed

ASSUME ProgressAssumption ==
  /\ NoPosition \notin Positions /\ Opening \in Positions
  /\ Percent \in [Positions -> 0 .. 100]
  /\ Overlap \in BOOLEAN
  /\ MaxTime \in Nat \ {0} /\ {MaxRequests, MaxFaults} \subseteq Nat

VARIABLES
  now,      \* Date.now() of every device
  row,      \* [Devices -> Row]: db.progress
  resume,   \* [Devices -> Resume]: the localStorage snapshot
  reader,   \* [Devices -> Reader]: the open reader's state and refs
  requests, \* the PATCH requests under way
  gets,     \* [Devices -> Get]: the primer's GET
  server,   \* ReadingProgress of the library item
  faults,
  latest,   \* history: the stamp of the last reading of each device
  judged    \* history: whether the server has compared that reading with its own

device  == <<row, resume, reader, gets>>
history == <<latest, judged>>
vars    == <<now, device, requests, server, faults, history>>

Places == Positions \cup {NoPosition}
Stamps == 0 .. MaxTime   \* 0 is a null timestamp

Row    == [locator : Places, percent : 0 .. 100, read : Stamps, at : Stamps,
           dirty : BOOLEAN, since : Stamps]
Resume == [locator : Places, at : Stamps]
Reader == [open : BOOLEAN, visible : Places, shown : 0 .. 100, acked : Places,
           pending : Places, due : BOOLEAN, since : Stamps]
Write  == [locator : Positions, at : Stamps, since : Stamps]
Stored == [locator : Places, percent : 0 .. 100, at : Stamps, since : Stamps]
Request == [dev : Devices, from : {"runner", "reader", "left"}, write : Write,
            stage : {"sent", "loaded", "answered"}, stored : Stored, waiting : BOOLEAN]
Get    == [stage : {"none", "sent", "answered"}, stored : Stored]

NoStored == [locator |-> NoPosition, percent |-> 0, at |-> 0, since |-> 0]
NoRow    == [locator |-> NoPosition, percent |-> 0, read |-> 0, at |-> 0,
             dirty |-> FALSE, since |-> 0]
Closed   == [open |-> FALSE, visible |-> NoPosition, shown |-> 0, acked |-> NoPosition,
             pending |-> NoPosition, due |-> FALSE, since |-> 0]
NoGet    == [stage |-> "none", stored |-> NoStored]

Init ==
  /\ now = 1
  /\ row = [d \in Devices |-> NoRow]
  /\ resume = [d \in Devices |-> [locator |-> NoPosition, at |-> 0]]
  /\ reader = [d \in Devices |-> Closed]
  /\ requests = {}
  /\ gets = [d \in Devices |-> NoGet]
  /\ server = NoStored
  /\ faults = 0
  /\ latest = [d \in Devices |-> 0]
  /\ judged = [d \in Devices |-> TRUE]

-----------------------------------------------------------------------------
(* The row and the reader that writes it.                                  *)

\* Time only matters when something is stamped; some may have passed by then.
Passes(t) == t \in now .. MaxTime /\ now' = t

\* The row's own clock: consecutive writes of one millisecond still differ.
Stamp(d, t) == IF t > row[d].at THEN t ELSE row[d].at + 1

\* (Mutant of Fence: a response requested before is still admitted.)
NoFence(d) == gets' = gets

\* bumpCompletionRevision: writeProgress will not admit the response to a request
\* made before this, which is forgotten here.
Fence(d) == gets' = [gets EXCEPT ![d] = NoGet]

\* useLocalProgressSnapshot: the position shown by `r' goes to localStorage and,
\* dirty, to the row; it waits for its own upload unless it is acknowledged.
Snapshot(d, r, t) ==
  /\ Stamp(d, t) <= MaxTime /\ Passes(t)
  /\ resume' = [resume EXCEPT ![d] = [locator |-> r.visible, at |-> t]]
  /\ row' = [row EXCEPT ![d] = [locator |-> r.visible, percent |-> r.shown,
                                read |-> row[d].read, at |-> Stamp(d, t),
                                dirty |-> TRUE, since |-> r.since]]
  /\ Fence(d)
  /\ reader' = [reader EXCEPT ![d] =
       [r EXCEPT !.pending = IF r.visible = r.acked THEN NoPosition ELSE r.visible,
                 !.due = FALSE]]
  /\ latest' = [latest EXCEPT ![d] = Stamp(d, t)]
  /\ judged' = [judged EXCEPT ![d] = FALSE]
  /\ UNCHANGED <<requests, server, faults>>

\* What a payload says of the position: from the cached row, or from the server.
RowProgress(d) == [locator |-> row[d].locator, percent |-> row[d].percent,
                   at |-> row[d].read]
ServerProgress == [locator |-> server.locator, percent |-> server.percent,
                   at |-> server.at]

\* selectPreferredReaderResumeSnapshot: the newer one, the local one on a tie.
Resumed(d, progress) ==
  IF resume[d].locator # NoPosition
     /\ (progress.locator = NoPosition \/ resume[d].at >= progress.at)
  THEN resume[d].locator
  ELSE IF progress.locator # NoPosition THEN progress.locator ELSE Opening

\* The book is opened and the resume position applied, which is itself a reading.
Open(d, t) ==
  /\ ~reader[d].open
  /\ \E progress \in {RowProgress(d), ServerProgress} :
       Snapshot(d, [open |-> TRUE, visible |-> Resumed(d, progress),
                    shown |-> progress.percent, acked |-> progress.locator,
                    pending |-> NoPosition, due |-> FALSE, since |-> Stamp(d, t)], t)

\* The reader turns to another position.
Move(d, p, t) ==
  /\ reader[d].open /\ reader[d].visible # p
  /\ Snapshot(d, [reader[d] EXCEPT !.visible = p, !.since = Stamp(d, t)], t)

\* The effect names the payload's percentage among its dependencies: it runs
\* again when an acknowledgment changes that, with the position still shown.
Restamp(d, t) ==
  /\ reader[d].open /\ reader[d].due
  /\ Snapshot(d, reader[d], t)

\* The reader is left; its requests go on without it.
Left(d, q) == IF q.dev = d /\ q.from = "reader" THEN [q EXCEPT !.from = "left"] ELSE q

\* (Mutant of Close: the refs outlive the reader.)
CloseKeepsRefs(d) ==
  /\ reader[d].open
  /\ reader' = [reader EXCEPT ![d].open = FALSE]
  /\ requests' = {Left(d, q) : q \in requests}
  /\ UNCHANGED <<now, row, resume, gets, server, faults, history>>

Close(d) ==
  /\ reader[d].open
  /\ reader' = [reader EXCEPT ![d] = Closed]
  /\ requests' = {Left(d, q) : q \in requests}
  /\ UNCHANGED <<now, row, resume, gets, server, faults, history>>

-----------------------------------------------------------------------------
(* Uploading: syncProgressRow, from the reader and from the runner.        *)

Upload(d, from) ==
  LET q == [dev |-> d, from |-> from, stage |-> "sent", stored |-> NoStored,
            waiting |-> TRUE,
            write |-> [locator |-> row[d].locator, at |-> row[d].at,
                       since |-> row[d].since]]
  IN  /\ row[d].dirty /\ row[d].locator # NoPosition
      /\ Cardinality(requests) < MaxRequests
      /\ q \notin requests
      /\ requests' = requests \cup {q}
      /\ UNCHANGED <<now, device, server, faults, history>>

\* (Mutant of RunnerUpload: only an open book is uploaded.)
RunnerWhileReading(d) ==
  /\ reader[d].open
  /\ \A q \in requests : ~(q.dev = d /\ q.from = "runner" /\ q.waiting)
  /\ Upload(d, "runner")

\* flushDirtyProgress: one flush at a time.
RunnerUpload(d) ==
  /\ \A q \in requests : ~(q.dev = d /\ q.from = "runner" /\ q.waiting)
  /\ Upload(d, "runner")

\* persistPendingProgress, from the debounce timer or when the page is hidden.
ReaderUpload(d) ==
  /\ reader[d].open
  /\ reader[d].pending \notin {NoPosition, reader[d].acked}
  /\ Upload(d, "reader")

\* updateReadingProgress reads the stored position with the library item ...
Load(q) ==
  /\ q.stage = "sent"
  /\ Overlap \/ \A other \in requests : other.stage # "loaded"
  /\ requests' = (requests \ {q}) \cup {[q EXCEPT !.stage = "loaded", !.stored = server]}
  /\ UNCHANGED <<now, device, server, faults, history>>

Written(w) == [locator |-> w.locator, percent |-> Percent[w.locator], at |-> w.at,
               since |-> w.since]

\* (Mutant of Older: any write wins.)
NeverOlder(w, stored) == FALSE

\* A reading strictly older than the stored one loses.
Older(w, stored) == stored.at # 0 /\ w.at < stored.at

Finish(q, answer) ==
  requests' = (requests \ {q}) \cup
    (IF q.waiting THEN {[q EXCEPT !.stage = "answered", !.stored = answer]} ELSE {})

\* ... and compares that one, and writes, later.
Save(q) ==
  /\ q.stage = "loaded"
  /\ IF Older(q.write, q.stored)
     THEN Finish(q, q.stored) /\ UNCHANGED server
     ELSE Finish(q, Written(q.write)) /\ server' = Written(q.write)
  /\ judged' = [judged EXCEPT ![q.dev] = @ \/ q.write.at = latest[q.dev]]
  /\ UNCHANGED <<now, device, faults, latest>>

\* (Mutant of SameWrite: the fence without the time.)
SamePlace(r, w) == r.locator = w.locator

\* The fence of an acknowledgment: the row is the one that was sent.
SameWrite(r, w) == r.at = w.at /\ r.locator = w.locator

Adopted(r, stored) == [r EXCEPT !.locator = stored.locator, !.percent = stored.percent,
                                !.read = stored.at, !.dirty = FALSE,
                                !.since = stored.since]

\* The refs and the payload of the reader that waited for the answer.
Answered(r, stored) ==
  [r EXCEPT !.acked = stored.locator,
            !.pending = IF r.pending = stored.locator THEN NoPosition ELSE r.pending,
            !.shown = stored.percent,
            !.due = r.due \/ stored.percent # r.shown]

\* markProgressSyncedIfUnchanged, then the reader that waited for it.
Acknowledge(q) ==
  /\ q.stage = "answered" /\ q.waiting
  /\ requests' = requests \ {q}
  /\ LET d == q.dev
     IN  IF row[d].at # 0 /\ SameWrite(row[d], q.write)
         THEN /\ row' = [row EXCEPT ![d] = Adopted(row[d], q.stored)]
              /\ Fence(d)
              /\ reader' = IF q.from # "reader" THEN reader
                           ELSE [reader EXCEPT ![d] = Answered(reader[d], q.stored)]
         ELSE UNCHANGED <<row, gets, reader>>
  /\ UNCHANGED <<now, resume, server, faults, history>>

-----------------------------------------------------------------------------
(* revalidateProgress, run by the primer.                                  *)

StartGet(d) ==
  /\ gets[d].stage = "none" /\ ~row[d].dirty
  /\ gets' = [gets EXCEPT ![d] = [NoGet EXCEPT !.stage = "sent"]]
  /\ UNCHANGED <<now, row, resume, reader, requests, server, faults, history>>

ServeGet(d) ==
  /\ gets[d].stage = "sent"
  /\ gets' = [gets EXCEPT ![d] = [stage |-> "answered", stored |-> server]]
  /\ UNCHANGED <<now, row, resume, reader, requests, server, faults, history>>

\* writeProgress admits a response if nothing happened since it was requested.
ApplyGet(d, t) ==
  /\ gets[d].stage = "answered" /\ ~row[d].dirty
  /\ Stamp(d, t) <= MaxTime /\ Passes(t)
  /\ gets' = [gets EXCEPT ![d] = NoGet]
  /\ row' = [row EXCEPT ![d] = [locator |-> gets[d].stored.locator,
                                percent |-> gets[d].stored.percent,
                                read |-> gets[d].stored.at, at |-> Stamp(d, t),
                                dirty |-> FALSE, since |-> gets[d].stored.since]]
  /\ UNCHANGED <<resume, reader, requests, server, faults, history>>

-----------------------------------------------------------------------------
(* What goes wrong on the way.                                             *)

Fault == faults < MaxFaults /\ faults' = faults + 1

\* The request never gets there, or is refused, or the database fails it.
Lose(q) ==
  /\ q.stage # "answered" /\ Fault
  /\ requests' = requests \ {q}
  /\ UNCHANGED <<now, device, server, history>>

Abandon(sent) == {[q EXCEPT !.waiting = FALSE] : q \in {q \in sent : q.stage # "answered"}}

\* withDeadline: the caller gives up, the request may still arrive.
GiveUp(q) ==
  /\ q.waiting /\ Fault
  /\ requests' = (requests \ {q}) \cup Abandon({q})
  /\ UNCHANGED <<now, device, server, history>>

\* The page is destroyed: what is durable stays.
Crash(d) ==
  /\ Fault
  /\ LET own == {q \in requests : q.dev = d}
     IN  requests' = (requests \ own) \cup Abandon(own)
  /\ reader' = [reader EXCEPT ![d] = Closed]
  /\ gets' = [gets EXCEPT ![d] = NoGet]
  /\ UNCHANGED <<now, row, resume, server, history>>

-----------------------------------------------------------------------------
Next ==
  \/ \E d \in Devices :
       \/ \E t \in 1 .. MaxTime :
            \/ Open(d, t) \/ Restamp(d, t) \/ ApplyGet(d, t)
            \/ \E p \in Positions : Move(d, p, t)
       \/ Close(d) \/ Crash(d) \/ RunnerUpload(d) \/ ReaderUpload(d)
       \/ StartGet(d) \/ ServeGet(d)
  \/ \E q \in requests : Load(q) \/ Save(q) \/ Acknowledge(q) \/ Lose(q) \/ GiveUp(q)

Spec == Init /\ [][Next]_vars

\* The runner tries again for as long as a row is dirty, the server works off
\* what reaches it, and what is answered is delivered; faults are finitely many.
FairSpec ==
  /\ Spec
  /\ \A d \in Devices : WF_vars(RunnerUpload(d))
  /\ WF_vars(\E q \in requests : Load(q))
  /\ WF_vars(\E q \in requests : Save(q))
  /\ WF_vars(\E q \in requests : Acknowledge(q))

-----------------------------------------------------------------------------
(* Properties.                                                             *)

\* Every variable keeps its type, and a reader that is not open shows nothing
\* (reading progress, `db.progress' and the reader's refs).
TypeOK ==
  /\ now \in 1 .. MaxTime
  /\ row \in [Devices -> Row]
  /\ resume \in [Devices -> Resume]
  /\ reader \in [Devices -> Reader]
  /\ requests \subseteq Request
  /\ gets \in [Devices -> Get]
  /\ server \in Stored
  /\ faults \in 0 .. MaxFaults
  /\ latest \in [Devices -> Stamps] /\ judged \in [Devices -> BOOLEAN]
  /\ \A d \in Devices : ~reader[d].open => reader[d] = Closed

\* A row counts as saved only when the server has compared the device's last
\* reading with its own: no acknowledgment and no response clears a reading that
\* came after what it answers.
NoReadingForgotten == \A d \in Devices : row[d].dirty \/ judged[d]

\* Most recent reading wins: once the last reading of a device was compared, the
\* server holds it or a later one, in whatever order the uploads arrive.
NewestWins == \A d \in Devices : judged[d] => server.at >= latest[d]

\* A device whose row is clean shows its own last reading or a later one.
CleanIsCurrent == \A d \in Devices : row[d].dirty \/ row[d].read >= latest[d]

\* Once the position is no longer being changed, a dirty row is settled with the
\* server, however many of its requests got lost.
Settles == \A d \in Devices : row[d].dirty ~> ~row[d].dirty

\* "A stale offline progress sync never rewinds a position advanced on another
\* device" (docs/specs/6-reading-sessions-progress.md:109): the server's position
\* gives way only to one the reader turned to later.
NoStaleRewind ==
  [][server'.locator # server.locator => server'.since >= server.since]_vars

=============================================================================
