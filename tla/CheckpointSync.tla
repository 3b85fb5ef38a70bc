--------------------------- MODULE CheckpointSync ---------------------------
(***************************************************************************)
(* The life of recorded reading time from the sessions table of a browser  *)
(* profile to the server's credited totals and back to the total a reader  *)
(* sees (apps/web/features/offline/{buckets/sessions,stats,buckets/home}   *)
(* and apps/api/src/reader/sessions).                                      *)
(*                                                                         *)
(* The tabs of the profile upload the rows that need it, each with its own *)
(* single-flight loop over a list it read earlier; requests and responses  *)
(* are lost, delayed past their deadline and handled out of order; the     *)
(* server credits cumulative checkpoints; home snapshots come back in any  *)
(* order.  How the rows grow is an assumption here: Claim, Checkpoint and  *)
(* Recover are the steps of SessionRows, which SessionTracker implements.  *)
(* Times are milliseconds, credits are seconds.                            *)
(***************************************************************************)
EXTENDS Integers, FiniteSets, FiniteSetsExt

CONSTANTS Tabs,       \* contexts of one profile that run the upload
          Readers,    \* contexts of the profile that fetch the home snapshot
          Sids,       \* client session ids that can be drawn
          Instants,   \* the instants, in milliseconds, a checkpoint can show
          MaxSeconds, \* MAX_SESSION_SECONDS
          NoCopy,     \* no request in flight
          NoHome,     \* no home response in flight
          MaxRevision, \* bound: revisions of one row
          MaxStray,    \* bound: requests given up and still under way
          MaxRemote    \* bound: seconds other devices contribute

ASSUME SyncAssumption ==
  /\ Instants \subseteq Nat /\ IsFiniteSet(Sids)
  /\ MaxSeconds \in Nat /\ {MaxRevision, MaxStray, MaxRemote} \subseteq Nat

VARIABLES
  rows,     \* [Sids -> Row]: the sessions table of the profile
  batch,    \* [Tabs -> set of copies]: the pending list an upload still holds
  flight,   \* [Tabs -> a copy or NoCopy]: the request it waits for
  reply,    \* [Tabs -> Reply]: the server's answer on its way
  stray,    \* requests given up by their sender that may still arrive
  item,     \* the library item: "present", "deleted" or "gone"
  sessions, \* [Sids -> ServerSession]: ReadingSession
  total,    \* seconds summed over ReadingSessionSegment
  revision, \* User.readingRevision
  remote,   \* history: seconds credited by other devices
  home,     \* the cached home reading snapshot
  gets      \* [Readers -> a snapshot or NoHome]: home responses on their way

client == <<rows, batch, flight>>
server == <<item, sessions, total, revision, remote>>
shown  == <<home, gets>>
vars   == <<client, reply, stray, server, shown>>

Row == [state : {"none", "open", "closed"}, start : Nat, beat : Nat, rev : Nat,
        ack : Nat, dropped : BOOLEAN]
Copy == [sid : Sids, state : {"open", "closed"}, start : Nat, beat : Nat, rev : Nat]
Reply == [kind : {"none", "ok", "retry", "drop"}, rev : Nat]
ServerSession == [state : {"none", "open", "closed"}, start : Nat, beat : Nat,
                  rev : Nat, seconds : Nat]
Snapshot == [revision : Nat, total : Int, covered : [Sids -> Nat]]

NoRow     == [state |-> "none", start |-> 0, beat |-> 0, rev |-> 0,
              ack |-> 0, dropped |-> FALSE]
NoSession == [state |-> "none", start |-> 0, beat |-> 0, rev |-> 0, seconds |-> 0]
NoReply   == [kind |-> "none", rev |-> 0]

\* validateCheckpoint and sessionSpan round the same way: Math.round to whole
\* seconds, capped at one day.
Seconds(ms) ==
  LET rounded == (ms + 500) \div 1000
  IN  IF rounded < MaxSeconds THEN rounded ELSE MaxSeconds

Span(row) == Seconds(row.beat - row.start)

CopyOf(s) == [sid |-> s, state |-> rows[s].state, start |-> rows[s].start,
              beat |-> rows[s].beat, rev |-> rows[s].rev]

Init ==
  /\ rows = [s \in Sids |-> NoRow]
  /\ batch = [c \in Tabs |-> {}]
  /\ flight = [c \in Tabs |-> NoCopy]
  /\ reply = [c \in Tabs |-> NoReply]
  /\ stray = {}
  /\ item = "present"
  /\ sessions = [s \in Sids |-> NoSession]
  /\ total = 0 /\ revision = 0 /\ remote = 0
  /\ home = [revision |-> 0, total |-> 0, covered |-> [s \in Sids |-> 0]]
  /\ gets = [c \in Readers |-> NoHome]

-----------------------------------------------------------------------------
(* The rows, as the trackers change them: SessionRows!Begin, Grow and      *)
(* Abandon, on the columns that the upload reads.                          *)

Used == {s \in Sids : rows[s].state # "none"}

Grow(row, at) == [row EXCEPT !.beat = at, !.rev = row.rev + 1]

Seal(row, at) == [row EXCEPT !.state = "closed", !.beat = at, !.rev = row.rev + 1]

SealAll(table) == [s \in Sids |-> IF table[s].state = "open"
                                    THEN Seal(table[s], table[s].beat) ELSE table[s]]

\* claimSession
Claim(s, at) ==
  /\ rows[s].state = "none"
  /\ \A other \in Used : rows[other].beat <= at
  /\ rows' = [SealAll(rows) EXCEPT ![s] =
                [NoRow EXCEPT !.state = "open", !.start = at, !.beat = at, !.rev = 1]]
  /\ UNCHANGED <<batch, flight, reply, stray, server, shown>>

\* checkpointSession: the run grows to `at', and may end there.
Checkpoint(s, at, close) ==
  /\ rows[s].state = "open" /\ rows[s].beat <= at
  /\ rows[s].rev < MaxRevision
  /\ rows' = [rows EXCEPT ![s] = IF close THEN Seal(rows[s], at)
                                 ELSE Grow(rows[s], at)]
  /\ UNCHANGED <<batch, flight, reply, stray, server, shown>>

\* recoverSessions
Recover ==
  /\ \E s \in Sids : rows[s].state = "open"
  /\ rows' = SealAll(rows)
  /\ UNCHANGED <<batch, flight, reply, stray, server, shown>>

-----------------------------------------------------------------------------
(* Uploading: uploadPendingCheckpoints and syncSession.                    *)

\* (Mutants of NeedsSync: rows without a change count, or the last one does not.)
NeedsNoChange(row) == ~row.dropped /\ row.rev >= row.ack
NeedsTwoChanges(row) == ~row.dropped /\ row.rev > row.ack + 1

\* needsSessionSync, which the syncState index follows.
NeedsSync(row) == ~row.dropped /\ row.rev > row.ack

\* One upload at a time in a tab; it works through the rows as it read them.
StartUpload(c) ==
  /\ batch[c] = {} /\ flight[c] = NoCopy
  /\ batch' = [batch EXCEPT ![c] = {CopyOf(s) : s \in {r \in Sids : NeedsSync(rows[r])}}]
  /\ batch'[c] # {}
  /\ UNCHANGED <<rows, flight, reply, stray, server, shown>>

\* No token, another account, or the document is gone: the upload stops.
StopUpload(c) ==
  /\ batch[c] # {} /\ flight[c] = NoCopy
  /\ batch' = [batch EXCEPT ![c] = {}]
  /\ UNCHANGED <<rows, flight, reply, stray, server, shown>>

Send(c, r) ==
  /\ r \in batch[c] /\ flight[c] = NoCopy
  /\ batch' = [batch EXCEPT ![c] = @ \ {r}]
  /\ flight' = [flight EXCEPT ![c] = r]
  /\ UNCHANGED <<rows, reply, stray, server, shown>>

\* The deadline passes, or the document goes: what was sent may yet arrive.
GiveUp(c) ==
  /\ flight[c] # NoCopy
  /\ stray' = IF reply[c] = NoReply THEN stray \cup {flight[c]} ELSE stray
  /\ Cardinality(stray') <= MaxStray
  /\ flight' = [flight EXCEPT ![c] = NoCopy]
  /\ reply' = [reply EXCEPT ![c] = NoReply]
  /\ UNCHANGED <<rows, batch, server, shown>>

\* (Mutant of AfterReply: the row counts as uploaded as it is now.)
AfterReplyAsItIs(row, sent, answer) ==
  CASE answer.kind = "ok" /\ answer.rev >= sent.rev -> [row EXCEPT !.ack = row.rev]
    [] answer.kind = "drop" /\ row.rev = sent.rev -> [row EXCEPT !.dropped = TRUE]
    [] OTHER -> row

\* acknowledgeCheckpoint retires the revision that was sent; a rejection marks
\* the row only if it is still at that revision; a retry, or an answer about an
\* older revision, waits for a new upload.
AfterReply(row, sent, answer) ==
  CASE answer.kind = "ok" /\ answer.rev >= sent.rev ->
         [row EXCEPT !.ack = IF sent.rev > row.ack THEN sent.rev ELSE row.ack]
    [] answer.kind = "drop" /\ row.rev = sent.rev -> [row EXCEPT !.dropped = TRUE]
    [] OTHER -> row

Receive(c) ==
  /\ flight[c] # NoCopy /\ reply[c] # NoReply
  /\ rows' = [rows EXCEPT ![flight[c].sid] = AfterReply(@, flight[c], reply[c])]
  /\ flight' = [flight EXCEPT ![c] = NoCopy]
  /\ reply' = [reply EXCEPT ![c] = NoReply]
  /\ UNCHANGED <<batch, stray, server, shown>>

-----------------------------------------------------------------------------
(* The server: saveReadingCheckpoint is one transaction under the locks of  *)
(* the item and of the session.                                            *)

\* assertCheckpointAccess: a final checkpoint may outlive its library item.
HasAccess(r) == item = "present" \/ (item = "deleted" /\ r.state = "closed")

Stored(s) == sessions[s].rev > 0

\* checkpointShouldAdvance, in its order.
Mismatch(r)  == Stored(r.sid) /\ sessions[r.sid].start # r.start
Known(r)     == Stored(r.sid) /\ r.rev <= sessions[r.sid].rev
Reopens(r)   == /\ sessions[r.sid].state = "closed"
                /\ r.state = "open" \/ r.beat # sessions[r.sid].beat
Shortens(r)  == \/ Span(r) < sessions[r.sid].seconds
                \/ r.beat < sessions[r.sid].beat

\* (Mutant of Rejects: old revisions are checked like new ones.)
RejectsOldOnes(r) == Mismatch(r) \/ Reopens(r) \/ Shortens(r)

Rejects(r)   == Mismatch(r) \/ (~Known(r) /\ (Reopens(r) \/ Shortens(r)))
Advances(r)  == ~Known(r) /\ ~Rejects(r)

\* (Mutant of Credit: each checkpoint counts in full.)
CreditInFull(r) ==
  /\ sessions' = [sessions EXCEPT ![r.sid] =
        [state |-> r.state, start |-> r.start, beat |-> r.beat,
         rev |-> r.rev, seconds |-> Span(r)]]
  /\ total' = total + Span(r)
  /\ revision' = revision + 1
  /\ UNCHANGED <<item, remote>>

\* creditCheckpoint, persistCheckpoint and advanceReadingRevision.
Credit(r) ==
  /\ sessions' = [sessions EXCEPT ![r.sid] =
        [state |-> r.state, start |-> r.start, beat |-> r.beat,
         rev |-> r.rev, seconds |-> Span(r)]]
  /\ total' = total + (Span(r) - sessions[r.sid].seconds)
  /\ revision' = revision + 1
  /\ UNCHANGED <<item, remote>>

Save(r) == IF HasAccess(r) /\ Advances(r) THEN Credit(r) ELSE UNCHANGED server

\* The status, and what readCheckpointResponse makes of it.
Answer(r) ==
  CASE ~HasAccess(r) ->
         [kind |-> IF r.state = "open" THEN "retry" ELSE "drop", rev |-> 0]
    [] HasAccess(r) /\ Rejects(r) -> [kind |-> "drop", rev |-> 0]
    [] OTHER -> [kind |-> "ok", rev |-> sessions'[r.sid].rev]

Serve(c) ==
  /\ flight[c] # NoCopy /\ reply[c] = NoReply
  /\ Save(flight[c])
  /\ reply' = [reply EXCEPT ![c] = Answer(flight[c])]
  /\ UNCHANGED <<client, stray, shown>>

\* 401, 408, 425, 429, a 5xx, or no server at all: nothing is saved, and the
\* row waits for the next upload.
Refuse(c) ==
  /\ flight[c] # NoCopy /\ reply[c] = NoReply
  /\ flight' = [flight EXCEPT ![c] = NoCopy]
  /\ UNCHANGED <<rows, batch, reply, stray, server, shown>>

\* A request its sender no longer waits for.
ServeStray(r) ==
  /\ r \in stray
  /\ Save(r)
  /\ stray' = stray \ {r}
  /\ UNCHANGED <<client, reply, shown>>

\* Another device of the user has a checkpoint credited.
OtherDevice ==
  /\ remote < MaxRemote
  /\ remote' = remote + 1 /\ total' = total + 1 /\ revision' = revision + 1
  /\ UNCHANGED <<client, reply, stray, item, sessions, shown>>

\* The item is deleted, which keeps its reading time, or access to it is lost.
RemoveItem(status) ==
  /\ item = "present"
  /\ item' = status
  /\ UNCHANGED <<client, reply, stray, sessions, total, revision, remote, shown>>

-----------------------------------------------------------------------------
(* The home snapshot: total, coverage and revision from one transaction.   *)

\* (Mutant of RequestHome: only finished sessions are named as covered.)
RequestFinishedOnly(c) ==
  /\ gets[c] = NoHome
  /\ gets' = [gets EXCEPT ![c] =
        [revision |-> revision, total |-> total,
         covered |-> [s \in Sids |-> IF sessions[s].state = "closed"
                                       THEN sessions[s].seconds ELSE 0]]]
  /\ UNCHANGED <<client, reply, stray, server, home>>

RequestHome(c) ==
  /\ gets[c] = NoHome
  /\ gets' = [gets EXCEPT ![c] =
        [revision |-> revision, total |-> total,
         covered |-> [s \in Sids |-> sessions[s].seconds]]]
  /\ UNCHANGED <<client, reply, stray, server, home>>

\* (Mutant of ApplyHome: the last response wins.)
ApplyAnyHome(c) ==
  /\ gets[c] # NoHome
  /\ home' = gets[c]
  /\ gets' = [gets EXCEPT ![c] = NoHome]
  /\ UNCHANGED <<client, reply, stray, server>>

\* retainNewerReading: an older snapshot does not replace the cached one.
ApplyHome(c) ==
  /\ gets[c] # NoHome
  /\ home' = IF gets[c].revision < home.revision THEN home ELSE gets[c]
  /\ gets' = [gets EXCEPT ![c] = NoHome]
  /\ UNCHANGED <<client, reply, stray, server>>

LoseHome(c) ==
  /\ gets[c] # NoHome
  /\ gets' = [gets EXCEPT ![c] = NoHome]
  /\ UNCHANGED <<client, reply, stray, server, home>>

\* (Mutant of Uncovered: what is acknowledged counts as in the snapshot.)
UncoveredByAck(s) ==
  IF rows[s].dropped \/ rows[s].ack = rows[s].rev THEN 0 ELSE Span(rows[s])

\* uncoveredSessionSpan and composeHomeReading: what the reader is shown.
Uncovered(s) ==
  IF rows[s].dropped THEN 0
  ELSE LET covered == home.covered[s]
       IN  Span(rows[s]) - (IF covered < Span(rows[s]) THEN covered ELSE Span(rows[s]))

Displayed == home.total + SumFunction([s \in Sids |-> Uncovered(s)])

-----------------------------------------------------------------------------
Local ==
  \/ \E s \in Sids, at \in Instants :
       Claim(s, at) \/ \E close \in BOOLEAN : Checkpoint(s, at, close)
  \/ Recover

Upload ==
  \E c \in Tabs :
    \/ StartUpload(c) \/ StopUpload(c) \/ GiveUp(c) \/ Receive(c)
    \/ Serve(c) \/ Refuse(c)
    \/ \E r \in batch[c] : Send(c, r)

Other ==
  \/ \E r \in stray : ServeStray(r)
  \/ OtherDevice
  \/ \E status \in {"deleted", "gone"} : RemoveItem(status)
  \/ \E c \in Readers : RequestHome(c) \/ ApplyHome(c) \/ LoseHome(c)

Next == Local \/ Upload \/ Other

Spec == Init /\ [][Next]_vars

\* The app keeps starting uploads while a row needs one.  The loop goes on to the
\* next row whatever became of the last, so each row has its turn again and
\* again, and one that is sent again and again is answered at last.
Fairness ==
  \A c \in Tabs :
    /\ WF_vars(StartUpload(c))
    /\ \A s \in Sids :
         /\ SF_vars(\E r \in batch[c] : r.sid = s /\ Send(c, r))
         /\ SF_vars(Serve(c) /\ flight[c].sid = s)
         /\ SF_vars(Receive(c) /\ flight[c].sid = s)

FairSpec == Spec /\ Fairness

-----------------------------------------------------------------------------
(* Properties.                                                             *)

Copies == (UNION {batch[c] : c \in Tabs}) \cup stray
            \cup {flight[c] : c \in {d \in Tabs : flight[d] # NoCopy}}

TypeOK ==
  /\ rows \in [Sids -> Row]
  /\ batch \in [Tabs -> SUBSET Copy]
  /\ flight \in [Tabs -> Copy \cup {NoCopy}]
  /\ reply \in [Tabs -> Reply]
  /\ stray \in SUBSET Copy
  /\ item \in {"present", "deleted", "gone"}
  /\ sessions \in [Sids -> ServerSession]
  /\ total \in Int /\ revision \in Nat /\ remote \in Nat
  /\ home \in Snapshot /\ gets \in [Readers -> Snapshot \cup {NoHome}]

\* Whatever is lost, delayed, repeated or reordered, the server never has to
\* refuse a checkpoint of this client: none reopens, extends, shortens or
\* contradicts a session, so no honest reading time is rejected with a 4xx.
NeverRejected == \A r \in Copies : ~Rejects(r)

\* Acknowledged means credited: the server holds at least the revision the row
\* counts as uploaded, and a row with nothing to upload is credited in full.
AckedIsCredited ==
  \A s \in Sids :
    /\ rows[s].ack <= sessions[s].rev
    /\ rows[s].ack > 0 /\ rows[s].ack = rows[s].rev =>
         /\ sessions[s].seconds = Span(rows[s])
         /\ sessions[s].state = rows[s].state

\* The server never credits more than was recorded, and its total is the sum
\* of what it credits, each session once.
CreditIsRecorded ==
  /\ \A s \in Sids : sessions[s].seconds <= Span(rows[s])
  /\ total = remote + SumFunction([s \in Sids |-> sessions[s].seconds])

\* The displayed total never counts a second twice ...
NeverDoubleCounted ==
  Displayed <= remote + SumFunction([s \in Sids |-> Span(rows[s])])

\* ... and never leaves out a second this profile recorded and was not told to
\* discard, whether uploaded, acknowledged, in a snapshot or not.
NothingMissing ==
  Displayed >= SumFunction([s \in Sids |-> IF rows[s].dropped THEN 0 ELSE Span(rows[s])])

\* The displayed total goes down only when the server rejects a session for
\* good: no upload, acknowledgment or late snapshot takes time away.
DisplayNeverFalls ==
  [][(\A s \in Sids : rows'[s].dropped = rows[s].dropped) => Displayed' >= Displayed]_vars

\* Every closed run is credited in full, or was rejected for good.
Settles ==
  \A s \in Sids :
    rows[s].state = "closed" ~>
      (rows[s].dropped \/ (rows[s].ack = rows[s].rev /\ sessions[s].seconds = Span(rows[s])))
=============================================================================
