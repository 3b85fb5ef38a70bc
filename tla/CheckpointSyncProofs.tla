------------------------ MODULE CheckpointSyncProofs ------------------------
(***************************************************************************)
(* Why a checkpoint of this client is never rejected, and why what a row   *)
(* counts as acknowledged is credited: for any number of tabs, sessions    *)
(* and revisions, and whatever is lost, repeated or reordered.             *)
(*                                                                         *)
(* The rows of the table, the copies on their way and the sessions of the  *)
(* server are versions of one and the same run.  Of two versions of a run  *)
(* the one with the greater revision extends the other, so no order in     *)
(* which they reach the server can show it a run that shrinks or reopens.  *)
(***************************************************************************)
EXTENDS CheckpointSync, TLAPS

SessionCopy(s) == [sid |-> s, state |-> sessions[s].state, start |-> sessions[s].start,
                   beat |-> sessions[s].beat, rev |-> sessions[s].rev]

\* Every version of a run that is anywhere in the system.
Versions == Copies \cup {CopyOf(s) : s \in Used}
                   \cup {SessionCopy(s) : s \in {r \in Sids : Stored(r)}}

\* v is the version u or a later one; a closed version is the last.
Extends(u, v) ==
  /\ u.start = v.start
  /\ u.beat <= v.beat
  /\ u.rev = v.rev \/ u.state = "closed" =>
       u.rev = v.rev /\ u.state = v.state /\ u.beat = v.beat

RowsWell ==
  \A s \in Sids : /\ rows[s].state = "none" <=> rows[s].rev = 0
                  /\ rows[s].start <= rows[s].beat

VersionsWell ==
  \A u \in Versions : u.rev > 0 /\ u.start <= u.beat /\ u.rev <= rows[u.sid].rev

OneLine ==
  \A u, v \in Versions : u.sid = v.sid /\ u.rev <= v.rev => Extends(u, v)

SessionsWell ==
  \A s \in Sids : IF Stored(s) THEN /\ sessions[s].state # "none"
                                      /\ sessions[s].seconds = Span(sessions[s])
                  ELSE sessions[s] = NoSession

\* An acknowledgment, on its way or recorded, names a revision the server has.
AcksWell ==
  /\ \A c \in Tabs : flight[c] = NoCopy => reply[c] = NoReply
  /\ \A c \in Tabs : flight[c] # NoCopy /\ reply[c].kind = "ok" =>
                       reply[c].rev <= sessions[flight[c].sid].rev
  /\ \A s \in Sids : rows[s].ack <= sessions[s].rev

IInv == TypeOK /\ RowsWell /\ VersionsWell /\ OneLine /\ SessionsWell /\ AcksWell

-----------------------------------------------------------------------------
(* Lemmas.                                                                 *)

\* Rounded seconds are a natural number and grow with the interval
\* (validateCheckpoint and sessionSpan).
LEMMA SecondsNat ==
  ASSUME NEW ms \in Nat
  PROVE  Seconds(ms) \in Nat
BY SyncAssumption DEF Seconds

LEMMA SecondsGrow ==
  ASSUME NEW a \in Nat, NEW b \in Nat, a <= b
  PROVE  Seconds(a) <= Seconds(b)
<1>1. (a + 500) \div 1000 <= (b + 500) \div 1000
  OBVIOUS
<1> QED
  BY <1>1, SyncAssumption DEF Seconds

\* Every version has the fields of a copy.
LEMMA VersionsTyped ==
  ASSUME TypeOK, SessionsWell
  PROVE  Versions \subseteq Copy
<1>1. Copies \subseteq Copy
  BY DEF TypeOK, Copies
<1>2. ASSUME NEW s \in Used PROVE CopyOf(s) \in Copy
  BY <1>2 DEF TypeOK, Used, CopyOf, Copy, Row
<1>3. ASSUME NEW s \in Sids, Stored(s) PROVE SessionCopy(s) \in Copy
  BY <1>3 DEF TypeOK, Stored, SessionCopy, Copy, ServerSession, SessionsWell
<1> QED
  BY <1>1, <1>2, <1>3 DEF Versions

\* The shape of the rows survives when each row stays or gets its next version.
NextVersion(row, new) ==
  /\ row.state # "closed" /\ new.state # "none"
  /\ new.rev = row.rev + 1
  /\ new.start <= new.beat
  /\ row.state = "open" => new.start = row.start /\ row.beat <= new.beat

Shape(row) == [state |-> row.state, start |-> row.start, beat |-> row.beat, rev |-> row.rev]

\* Steps that move versions about, or drop them, make no new ones.
LEMMA VersionsKept ==
  ASSUME IInv, TypeOK', SessionsWell',
         Versions' \subseteq Versions,
         \A s \in Sids : Shape(rows[s])' = Shape(rows[s])
  PROVE  RowsWell' /\ VersionsWell' /\ OneLine'
<1>1. ASSUME NEW s \in Sids
      PROVE  /\ rows'[s].state = rows[s].state /\ rows'[s].start = rows[s].start
             /\ rows'[s].beat = rows[s].beat /\ rows'[s].rev = rows[s].rev
  BY DEF Shape
<1>2. \A u \in Versions : u.sid \in Sids
  BY VersionsTyped DEF IInv, Copy
<1>3. VersionsWell'
  BY <1>1, <1>2 DEF IInv, VersionsWell
<1>4. OneLine'
  BY DEF IInv, OneLine
<1>5. RowsWell'
  BY <1>1 DEF IInv, RowsWell
<1> QED
  BY <1>3, <1>4, <1>5

\* A later version of a run extends every version there is of it.
LEMMA VersionsGrow ==
  ASSUME IInv, TypeOK', SessionsWell',
         UNCHANGED <<batch, flight, stray, sessions>>,
         \A s \in Sids : \/ Shape(rows[s])' = Shape(rows[s])
                         \/ NextVersion(Shape(rows[s]), Shape(rows[s])')
  PROVE  RowsWell' /\ VersionsWell' /\ OneLine'
<1> DEFINE Same(s) == Shape(rows[s])' = Shape(rows[s])
<1>1. ASSUME NEW s \in Sids, Same(s)
      PROVE  /\ rows'[s].state = rows[s].state /\ rows'[s].start = rows[s].start
             /\ rows'[s].beat = rows[s].beat /\ rows'[s].rev = rows[s].rev
  BY <1>1 DEF Shape
<1>2. ASSUME NEW s \in Sids, ~Same(s)
      PROVE  /\ rows[s].state # "closed" /\ rows'[s].state # "none"
             /\ rows'[s].rev = rows[s].rev + 1
             /\ rows'[s].start <= rows'[s].beat
             /\ rows[s].state = "open" => /\ rows'[s].start = rows[s].start
                                         /\ rows[s].beat <= rows'[s].beat
  BY <1>2 DEF Shape, NextVersion
<1>3. ASSUME NEW s \in Sids
      PROVE  /\ rows[s].rev \in Nat /\ rows'[s].rev \in Nat
             /\ rows[s].start \in Nat /\ rows[s].beat \in Nat /\ rows'[s].beat \in Nat
             /\ rows[s].state \in {"none", "open", "closed"}
  BY DEF IInv, TypeOK, Row
<1> HIDE DEF Same
<1>4. \A u \in Versions : /\ u.sid \in Sids /\ u.rev \in Nat /\ u.beat \in Nat
                           /\ u.rev > 0 /\ u.start <= u.beat /\ u.rev <= rows[u.sid].rev
  BY VersionsTyped DEF IInv, Copy, VersionsWell
\* The only new versions are those of the rows that move on.
<1>5. ASSUME NEW u \in Versions', u \notin Versions
      PROVE  \E s \in Sids : ~Same(s) /\ u = CopyOf(s)'
  <2>1. Copies' = Copies
    BY DEF Copies
  <2>2. \A s \in Sids : Stored(s)' = Stored(s) /\ SessionCopy(s)' = SessionCopy(s)
    BY DEF Stored, SessionCopy
  <2>3. PICK s \in Sids : s \in Used' /\ u = CopyOf(s)'
    BY <1>5, <2>1, <2>2 DEF Versions, Used
  <2>4. Same(s) => u = CopyOf(s) /\ s \in Used
    BY <1>1, <2>3 DEF CopyOf, Used
  <2> QED
    BY <1>5, <2>3, <2>4 DEF Versions
\* What there is of a run that moves on, its last version extends.
<1>6. ASSUME NEW s \in Sids, ~Same(s), NEW u \in Versions, u.sid = s
      PROVE  Extends(u, CopyOf(s)') /\ u.rev < rows'[s].rev
  <2>1. rows[s].rev > 0 /\ s \in Used
    BY <1>3, <1>4, <1>6 DEF IInv, RowsWell, Used
  <2>2. Extends(u, CopyOf(s))
    BY <1>4, <1>6, <2>1 DEF IInv, OneLine, Versions, CopyOf
  <2> QED
    BY <1>2, <1>3, <1>4, <1>6, <2>1, <2>2 DEF Extends, CopyOf, Used
<1>7. RowsWell'
  BY <1>1, <1>2, <1>3 DEF IInv, RowsWell
<1>8. VersionsWell'
  <2> SUFFICES ASSUME NEW u \in Versions'
               PROVE  u.rev > 0 /\ u.start <= u.beat /\ u.rev <= rows'[u.sid].rev
    BY DEF VersionsWell
  <2>1. CASE u \in Versions
    BY <1>1, <1>2, <1>3, <1>4, <2>1
  <2>2. CASE u \notin Versions
    BY <1>2, <1>3, <1>5, <2>2 DEF CopyOf
  <2> QED
    BY <2>1, <2>2
<1>9. OneLine'
  <2> SUFFICES ASSUME NEW u \in Versions', NEW v \in Versions', u.sid = v.sid, u.rev <= v.rev
               PROVE  Extends(u, v)
    BY DEF OneLine
  <2>1. CASE u \in Versions /\ v \in Versions
    BY <2>1 DEF IInv, OneLine
  <2>2. CASE u \in Versions /\ v \notin Versions
    BY <1>5, <1>6, <2>2 DEF CopyOf
  <2>3. CASE u \notin Versions /\ v \in Versions
    BY <1>3, <1>4, <1>5, <1>6, <2>3 DEF CopyOf
  <2>4. CASE u \notin Versions /\ v \notin Versions
    <3>1. u = v
      BY <1>5, <2>4 DEF CopyOf
    <3>2. u.beat \in Nat
      BY <1>3, <1>5, <2>4 DEF CopyOf
    <3> QED
      BY <3>1, <3>2 DEF Extends
  <2> QED
    BY <2>1, <2>2, <2>3, <2>4
<1> QED
  BY <1>7, <1>8, <1>9

-----------------------------------------------------------------------------
(* What each operation does to the types.                                  *)

LEMMA SpanNat ==
  ASSUME NEW r, r.start \in Nat, r.beat \in Nat, r.start <= r.beat
  PROVE  Span(r) \in Nat
BY SecondsNat DEF Span

\* A request the server handles is a copy of some row.
LEMMA CopiesWell ==
  ASSUME IInv, NEW r \in Copies
  PROVE  r \in Versions /\ r \in Copy /\ r.start <= r.beat /\ r.rev > 0
BY VersionsTyped DEF IInv, Versions, VersionsWell

LEMMA SaveTyped ==
  ASSUME IInv, NEW r \in Copies, Save(r)
  PROVE  /\ sessions' \in [Sids -> ServerSession]
         /\ total' \in Int /\ revision' \in Nat /\ remote' = remote /\ item' = item
<1>1. Span(r) \in Nat
  BY CopiesWell, SpanNat DEF Copy
<1>2. r \in Copy /\ sessions[r.sid].seconds \in Nat
  BY CopiesWell DEF IInv, TypeOK, Copy, ServerSession
<1> QED
  BY <1>1, <1>2 DEF Save, Credit, server, IInv, TypeOK, Copy, ServerSession

\* A row that grows or ends is still a row.
LEMMA GrownTyped ==
  ASSUME NEW row \in Row, NEW at \in Nat
  PROVE  /\ Seal(row, at) \in Row
         /\ Grow(row, at) \in Row
<1>1. row.rev + 1 \in Nat
  BY DEF Row
<1> QED
  BY <1>1, Zenon DEF Row, Seal, Grow

LEMMA LocalTyped ==
  ASSUME IInv, Local
  PROVE  TypeOK'
<1>1. rows \in [Sids -> Row] /\ \A s \in Sids : rows[s] \in Row
  BY DEF IInv, TypeOK
<1>2. SealAll(rows) \in [Sids -> Row]
  <2>1. \A s \in Sids : rows[s].beat \in Nat
    BY <1>1 DEF Row
  <2> QED
    BY <1>1, <2>1, GrownTyped DEF SealAll
<1>3. rows' \in [Sids -> Row]
  <2>1. ASSUME NEW s \in Sids, NEW at \in Instants, Claim(s, at) PROVE rows' \in [Sids -> Row]
    BY <1>2, <2>1, SyncAssumption DEF Claim, NoRow, Row
  <2>2. ASSUME NEW s \in Sids, NEW at \in Instants, NEW close \in BOOLEAN,
               Checkpoint(s, at, close)
        PROVE  rows' \in [Sids -> Row]
    <3>1. rows[s] \in Row /\ at \in Nat
      BY <1>1, SyncAssumption
    <3> DEFINE row == IF close THEN Seal(rows[s], at)
                      ELSE Grow(rows[s], at)
    <3>2. row \in Row
      BY <3>1, GrownTyped, Zenon
    <3>3. rows' = [rows EXCEPT ![s] = row]
      BY <2>2 DEF Checkpoint
    <3> HIDE DEF row
    <3> QED
      BY <1>1, <3>2, <3>3
  <2> QED
    BY <1>2, <2>1, <2>2 DEF Local, Recover
<1> QED
  BY <1>3 DEF Local, Claim, Checkpoint, Recover, server, shown, IInv, TypeOK

LEMMA UploadTyped ==
  ASSUME IInv, NEW c \in Tabs,
         \/ StartUpload(c) \/ StopUpload(c) \/ GiveUp(c) \/ Receive(c)
         \/ Serve(c) \/ Refuse(c)
         \/ \E r \in batch[c] : Send(c, r)
  PROVE  TypeOK'
<1>1. CASE StartUpload(c)
  <2>1. \A s \in Sids : NeedsSync(rows[s]) => CopyOf(s) \in Copy
    BY DEF IInv, TypeOK, RowsWell, NeedsSync, CopyOf, Copy, Row
  <2> QED
    BY <1>1, <2>1 DEF StartUpload, IInv, TypeOK, server, shown
<1>2. CASE StopUpload(c)
  BY <1>2 DEF StopUpload, IInv, TypeOK, server, shown
<1>3. CASE GiveUp(c)
  BY <1>3 DEF GiveUp, NoReply, Reply, IInv, TypeOK, server, shown
<1>4. CASE Receive(c)
  <2>1. flight[c] \in Copy /\ reply[c] \in Reply
    BY <1>4 DEF Receive, IInv, TypeOK
  <2>2. ASSUME NEW row \in Row PROVE AfterReply(row, flight[c], reply[c]) \in Row
    BY <2>1 DEF AfterReply, Row, Copy, Reply
  <2> QED
    BY <1>4, <2>1, <2>2 DEF Receive, NoReply, Reply, Copy, IInv, TypeOK, server, shown
<1>5. CASE Serve(c)
  <2>1. flight[c] \in Copies /\ flight[c] \in Copy
    BY <1>5 DEF Serve, Copies, IInv, TypeOK
  <2>2. Answer(flight[c]) \in Reply
    BY <1>5, <2>1, SaveTyped DEF Serve, Answer, Reply, Copy, ServerSession
  <2> QED
    BY <1>5, <2>1, <2>2, SaveTyped DEF Serve, client, shown, IInv, TypeOK
<1>6. CASE Refuse(c)
  BY <1>6 DEF Refuse, IInv, TypeOK, server, shown
<1>7. ASSUME NEW r \in batch[c], Send(c, r) PROVE TypeOK'
  BY <1>7 DEF Send, IInv, TypeOK, server, shown
<1> QED
  BY <1>1, <1>2, <1>3, <1>4, <1>5, <1>6, <1>7

LEMMA OtherTyped ==
  ASSUME IInv, Other
  PROVE  TypeOK'
<1>1. ASSUME NEW r \in stray, ServeStray(r) PROVE TypeOK'
  <2>1. r \in Copies
    BY DEF Copies
  <2> QED
    BY <1>1, <2>1, SaveTyped DEF ServeStray, client, shown, IInv, TypeOK
<1>2. CASE OtherDevice
  BY <1>2 DEF OtherDevice, client, shown, IInv, TypeOK
<1>3. ASSUME NEW status \in {"deleted", "gone"}, RemoveItem(status) PROVE TypeOK'
  BY <1>3 DEF RemoveItem, client, shown, IInv, TypeOK
<1>4. ASSUME NEW c \in Readers, RequestHome(c) PROVE TypeOK'
  BY <1>4 DEF RequestHome, client, server, Snapshot, ServerSession, IInv, TypeOK
<1>5. ASSUME NEW c \in Readers, ApplyHome(c) PROVE TypeOK'
  BY <1>5 DEF ApplyHome, client, server, IInv, TypeOK
<1>6. ASSUME NEW c \in Readers, LoseHome(c) PROVE TypeOK'
  BY <1>6 DEF LoseHome, client, server, IInv, TypeOK
<1> QED
  BY <1>1, <1>2, <1>3, <1>4, <1>5, <1>6 DEF Other

LEMMA TypeStep ==
  ASSUME IInv, [Next]_vars
  PROVE  TypeOK'
<1>1. CASE UNCHANGED vars
  BY <1>1 DEF vars, client, server, shown, IInv, TypeOK
<1> QED
  BY <1>1, LocalTyped, UploadTyped, OtherTyped DEF Next, Upload

-----------------------------------------------------------------------------
(* The rows grow.                                                          *)

LEMMA LocalWell ==
  ASSUME IInv, Local, TypeOK'
  PROVE  IInv'
<1>1. UNCHANGED <<batch, flight, reply, stray, sessions>>
  BY DEF Local, Claim, Checkpoint, Recover, server
<1>2. SessionsWell'
  BY <1>1 DEF IInv, SessionsWell, Stored, Span
<1>3. ASSUME NEW s \in Sids, NEW at \in Nat, rows[s].state = "open", rows[s].beat <= at,
             rows'[s] = Seal(rows[s], at) \/ rows'[s] = Grow(rows[s], at)
      PROVE  NextVersion(Shape(rows[s]), Shape(rows[s])') /\ rows'[s].ack = rows[s].ack
  <2>1. rows[s] \in Row /\ rows[s].start <= rows[s].beat
    BY DEF IInv, TypeOK, RowsWell
  <2>2. /\ rows'[s].state \in {"open", "closed"} /\ rows'[s].start = rows[s].start
        /\ rows'[s].beat = at /\ rows'[s].rev = rows[s].rev + 1
        /\ rows'[s].ack = rows[s].ack
    BY <1>3, <2>1, Zenon DEF Seal, Grow, Row
  <2> QED
    BY <1>3, <2>1, <2>2 DEF NextVersion, Shape, Row
<1>4. ASSUME NEW s \in Sids, rows'[s] = SealAll(rows)[s]
      PROVE  /\ \/ Shape(rows[s])' = Shape(rows[s])
                \/ NextVersion(Shape(rows[s]), Shape(rows[s])')
             /\ rows'[s].ack = rows[s].ack
  <2>1. rows[s].beat \in Nat
    BY DEF IInv, TypeOK, Row
  <2> QED
    BY <1>3, <1>4, <2>1 DEF SealAll, Shape
<1>5. ASSUME NEW r \in Sids
      PROVE  /\ \/ Shape(rows[r])' = Shape(rows[r])
                \/ NextVersion(Shape(rows[r]), Shape(rows[r])')
             /\ rows'[r].ack <= sessions[r].rev
  <2>1. rows[r].ack <= sessions[r].rev /\ sessions[r].rev \in Nat
    BY DEF IInv, AcksWell, TypeOK, ServerSession
  <2>2. ASSUME NEW s \in Sids, NEW at \in Instants, Claim(s, at), r = s
        PROVE  NextVersion(Shape(rows[r]), Shape(rows[r])') /\ rows'[r].ack = 0
    <3>1. rows[s].rev = 0 /\ at \in Nat
      BY <2>2, SyncAssumption DEF Claim, IInv, RowsWell
    <3>2. rows'[s] = [NoRow EXCEPT !.state = "open", !.start = at, !.beat = at, !.rev = 1]
      BY <2>2 DEF Claim, SealAll
    <3>3. /\ rows'[s].state = "open" /\ rows'[s].start = at /\ rows'[s].beat = at
          /\ rows'[s].rev = 1 /\ rows'[s].ack = 0
      BY <3>2, Zenon DEF NoRow
    <3> QED
      BY <2>2, <3>1, <3>3 DEF Claim, NextVersion, Shape
  <2>3. ASSUME NEW s \in Sids, NEW at \in Instants, Claim(s, at), r # s
        PROVE  rows'[r] = SealAll(rows)[r]
    BY <2>3 DEF Claim, SealAll
  <2>4. ASSUME NEW s \in Sids, NEW at \in Instants, NEW close \in BOOLEAN,
               Checkpoint(s, at, close)
        PROVE  /\ \/ Shape(rows[r])' = Shape(rows[r])
                  \/ NextVersion(Shape(rows[r]), Shape(rows[r])')
               /\ rows'[r].ack = rows[r].ack
    <3>1. CASE r = s
      <4>1. rows'[s] = Seal(rows[s], at) \/ rows'[s] = Grow(rows[s], at)
        BY <2>4 DEF Checkpoint, IInv, TypeOK
      <4> QED
        BY <1>3, <2>4, <3>1, <4>1, SyncAssumption DEF Checkpoint
    <3>2. CASE r # s
      BY <2>4, <3>2 DEF Checkpoint, Shape
    <3> QED
      BY <3>1, <3>2
  <2>5. CASE Recover
    BY <1>4, <2>1, <2>5 DEF Recover
  <2> QED
    BY <1>4, <2>1, <2>2, <2>3, <2>4, <2>5 DEF Local
<1>6. RowsWell' /\ VersionsWell' /\ OneLine'
  BY <1>1, <1>2, <1>5, VersionsGrow
<1>7. AcksWell'
  BY <1>1, <1>5 DEF IInv, AcksWell
<1> QED
  BY <1>2, <1>6, <1>7 DEF IInv

-----------------------------------------------------------------------------
(* The server saves.                                                       *)

\* What the server has of a run it has from a copy, and never gives back.
LEMMA SaveWell ==
  ASSUME IInv, NEW r \in Copies, Save(r)
  PROVE  /\ SessionsWell'
         /\ \A s \in Sids : /\ Stored(s)' => SessionCopy(s)' \in Versions
                            /\ sessions[s].rev <= sessions'[s].rev
<1>1. /\ r \in Versions /\ r.sid \in Sids /\ r.rev \in Nat /\ r.rev > 0
      /\ r = [sid |-> r.sid, state |-> r.state, start |-> r.start,
              beat |-> r.beat, rev |-> r.rev]
      /\ r.state # "none"
  BY CopiesWell DEF Copy
<1>2. \A s \in Sids : sessions[s].rev \in Nat
  BY DEF IInv, TypeOK, ServerSession
<1>3. CASE Credit(r) /\ Advances(r)
  <2>1. sessions'[r.sid] = [state |-> r.state, start |-> r.start, beat |-> r.beat,
                            rev |-> r.rev, seconds |-> Span(r)]
    BY <1>1, <1>3 DEF Credit, IInv, TypeOK
  <2>2. \A s \in Sids : s # r.sid => sessions'[s] = sessions[s]
    BY <1>3 DEF Credit, IInv, TypeOK
  <2>3. Stored(r.sid)' /\ SessionCopy(r.sid)' = r
    BY <1>1, <2>1 DEF Stored, SessionCopy
  <2>4. sessions'[r.sid].state # "none" /\ sessions'[r.sid].seconds = Span(sessions'[r.sid])
    BY <1>1, <2>1 DEF Span
  <2>5. SessionsWell'
    BY <2>2, <2>3, <2>4 DEF IInv, SessionsWell, Stored
  <2>6. sessions[r.sid].rev <= sessions'[r.sid].rev
    BY <1>1, <1>2, <1>3, <2>1 DEF Advances, Known, Stored
  <2>7. ASSUME NEW s \in Sids, s # r.sid, Stored(s)' PROVE SessionCopy(s)' \in Versions
    BY <2>2, <2>7 DEF Stored, SessionCopy, Versions
  <2> QED
    BY <1>1, <1>2, <2>2, <2>3, <2>5, <2>6, <2>7
<1>4. CASE UNCHANGED server
  <2>1. sessions' = sessions
    BY <1>4 DEF server
  <2> QED
    BY <1>2, <2>1 DEF IInv, SessionsWell, Stored, SessionCopy, Versions, Span
<1> QED
  BY <1>3, <1>4 DEF Save

-----------------------------------------------------------------------------
(* The uploads and the rest.                                               *)

LEMMA UploadWell ==
  ASSUME IInv, TypeOK', NEW c \in Tabs,
         \/ StartUpload(c) \/ StopUpload(c) \/ GiveUp(c) \/ Receive(c)
         \/ Serve(c) \/ Refuse(c)
         \/ \E r \in batch[c] : Send(c, r)
  PROVE  IInv'
<1> USE DEF IInv
<1>t. /\ batch \in [Tabs -> SUBSET Copy] /\ flight \in [Tabs -> Copy \cup {NoCopy}]
      /\ reply \in [Tabs -> Reply] /\ rows \in [Sids -> Row]
  BY DEF TypeOK
\* Steps that leave the rows and the server alone.
<1>1. ASSUME UNCHANGED <<rows, sessions>>, Copies' \subseteq Versions,
             \A d \in Tabs : \/ flight'[d] = flight[d] /\ reply'[d] = reply[d]
                             \/ reply'[d] = NoReply
      PROVE  IInv'
  <2>1. \A s \in Sids : CopyOf(s)' = CopyOf(s) /\ SessionCopy(s)' = SessionCopy(s)
                        /\ (s \in Used' <=> s \in Used) /\ (Stored(s)' <=> Stored(s))
    BY <1>1 DEF CopyOf, SessionCopy, Used, Stored
  <2>2. Versions' \subseteq Versions
    BY <1>1, <2>1 DEF Versions, Used
  <2>3. SessionsWell'
    BY <1>1 DEF SessionsWell, Stored, Span
  <2>4. RowsWell' /\ VersionsWell' /\ OneLine'
    BY <1>1, <2>2, <2>3, VersionsKept DEF Shape
  <2>5. AcksWell'
    BY <1>1 DEF AcksWell, NoReply
  <2> QED
    BY <2>3, <2>4, <2>5
<1>2. CASE StartUpload(c)
  <2>1. \A s \in Sids : NeedsSync(rows[s]) => s \in Used
    BY <1>t DEF NeedsSync, RowsWell, Used, Row
  <2>2. Copies' \subseteq Versions
    BY <1>2, <1>t, <2>1 DEF StartUpload, Copies, Versions
  <2> QED
    BY <1>1, <1>2, <2>2 DEF StartUpload, server
<1>3. CASE StopUpload(c)
  <2>1. Copies' \subseteq Versions
    BY <1>3, <1>t DEF StopUpload, Copies, Versions
  <2> QED
    BY <1>1, <1>3, <2>1 DEF StopUpload, server
<1>4. CASE GiveUp(c)
  <2>1. Copies' \subseteq Versions
    BY <1>4, <1>t DEF GiveUp, Copies, Versions
  <2> QED
    BY <1>1, <1>4, <1>t, <2>1 DEF GiveUp, server
<1>5. CASE Refuse(c)
  <2>1. Copies' \subseteq Versions
    BY <1>5, <1>t DEF Refuse, Copies, Versions
  <2> QED
    BY <1>1, <1>5, <1>t, <2>1 DEF Refuse, server
<1>6. ASSUME NEW r \in batch[c], Send(c, r) PROVE IInv'
  <2>1. Copies' \subseteq Versions
    BY <1>6, <1>t DEF Send, Copies, Versions
  <2>2. reply'[c] = NoReply
    BY <1>6 DEF Send, AcksWell
  <2> QED
    BY <1>1, <1>6, <1>t, <2>1, <2>2 DEF Send, server
<1>7. CASE Receive(c)
  <2>1. /\ flight[c] \in Copy /\ reply[c] \in Reply /\ flight[c].sid \in Sids
        /\ UNCHANGED <<batch, stray, sessions>>
    BY <1>7, <1>t DEF Receive, Copy, server
  <2>2. ASSUME NEW row \in Row
        PROVE  /\ Shape(AfterReply(row, flight[c], reply[c])) = Shape(row)
               /\ \/ AfterReply(row, flight[c], reply[c]).ack = row.ack
                  \/ /\ reply[c].kind = "ok"
                     /\ AfterReply(row, flight[c], reply[c]).ack <= reply[c].rev
    BY <2>1 DEF AfterReply, Shape, Row, Reply, Copy
  <2>3. ASSUME NEW s \in Sids
        PROVE  /\ Shape(rows[s])' = Shape(rows[s])
               /\ rows'[s].ack <= sessions[s].rev
    <3>1. rows[s] \in Row /\ rows[s].ack <= sessions[s].rev
      BY <1>t DEF AcksWell
    <3>2. CASE s = flight[c].sid
      <4>1. rows'[s] = AfterReply(rows[s], flight[c], reply[c])
        BY <1>7, <1>t, <3>2 DEF Receive
      <4>2. reply[c].kind = "ok" => reply[c].rev <= sessions[s].rev
        BY <1>7, <3>2 DEF AcksWell, Receive
      <4>3. sessions[s].rev \in Nat /\ reply[c].rev \in Nat /\ rows'[s].ack \in Nat
        BY <2>1 DEF TypeOK, ServerSession, Reply, Row
      <4> QED
        BY <2>2, <3>1, <4>1, <4>2, <4>3 DEF Shape
    <3>3. CASE s # flight[c].sid
      BY <1>7, <1>t, <3>1, <3>3 DEF Receive, Shape
    <3> QED
      BY <3>2, <3>3
  <2>4. \A s \in Sids : CopyOf(s)' = CopyOf(s) /\ SessionCopy(s)' = SessionCopy(s)
                        /\ (s \in Used' <=> s \in Used) /\ (Stored(s)' <=> Stored(s))
    BY <2>1, <2>3 DEF CopyOf, SessionCopy, Used, Stored, Shape
  <2>5. Copies' \subseteq Versions
    BY <1>7, <1>t DEF Receive, Copies, Versions
  <2>6. Versions' \subseteq Versions
    BY <2>4, <2>5 DEF Versions, Used
  <2>7. SessionsWell'
    BY <2>1 DEF SessionsWell, Stored, Span
  <2>8. RowsWell' /\ VersionsWell' /\ OneLine'
    BY <2>3, <2>6, <2>7, VersionsKept
  <2>9. AcksWell'
    BY <1>7, <1>t, <2>1, <2>3 DEF AcksWell, Receive
  <2> QED
    BY <2>7, <2>8, <2>9
<1>8. CASE Serve(c)
  <2>1. /\ flight[c] \in Copies /\ flight[c] \in Copy /\ Save(flight[c])
        /\ UNCHANGED <<rows, batch, flight, stray>>
    BY <1>8, <1>t DEF Serve, Copies, client
  <2>2. /\ SessionsWell'
        /\ \A s \in Sids : /\ Stored(s)' => SessionCopy(s)' \in Versions
                           /\ sessions[s].rev <= sessions'[s].rev
    BY <2>1, SaveWell
  <2>3. Versions' \subseteq Versions
    BY <2>1, <2>2 DEF Versions, Copies, CopyOf, Used
  <2>4. RowsWell' /\ VersionsWell' /\ OneLine'
    BY <2>1, <2>2, <2>3, VersionsKept DEF Shape
  <2>5. reply' = [reply EXCEPT ![c] = Answer(flight[c])]
    BY <1>8 DEF Serve
  <2>6. Answer(flight[c]).kind = "ok" => Answer(flight[c]).rev = sessions'[flight[c].sid].rev
    BY <1>8, <2>1 DEF Answer, Serve
  <2>7. ASSUME NEW d \in Tabs, flight'[d] # NoCopy, reply'[d].kind = "ok"
        PROVE  reply'[d].rev <= sessions'[flight[d].sid].rev
    <3>1. flight[d].sid \in Sids
      BY <1>t, <2>1, <2>7 DEF Copy
    <3>2. /\ sessions'[flight[d].sid].rev \in Nat /\ sessions[flight[d].sid].rev \in Nat
          /\ reply[d].rev \in Nat
      BY <1>t, <3>1 DEF TypeOK, ServerSession, Reply
    <3>3. CASE d = c
      BY <1>t, <2>5, <2>6, <2>7, <3>2, <3>3
    <3>4. CASE d # c
      BY <1>t, <2>1, <2>2, <2>5, <2>7, <3>1, <3>2, <3>4 DEF AcksWell
    <3> QED
      BY <3>3, <3>4
  <2>8. \A s \in Sids : rows'[s].ack <= sessions'[s].rev
    BY <1>t, <2>1, <2>2 DEF AcksWell, TypeOK, ServerSession, Row
  <2>9. AcksWell'
    BY <1>8, <1>t, <2>1, <2>5, <2>7, <2>8 DEF AcksWell, Serve
  <2> QED
    BY <2>2, <2>4, <2>9
<1> QED
  BY <1>2, <1>3, <1>4, <1>5, <1>6, <1>7, <1>8

LEMMA OtherWell ==
  ASSUME IInv, TypeOK', Other
  PROVE  IInv'
<1> USE DEF IInv
<1>1. CASE UNCHANGED <<rows, batch, flight, reply, stray, sessions>>
  <2>1. Versions' = Versions
    BY <1>1 DEF Versions, Copies, CopyOf, SessionCopy, Used, Stored
  <2>2. SessionsWell' /\ AcksWell'
    BY <1>1 DEF SessionsWell, AcksWell, Stored, Span
  <2> QED
    BY <1>1, <2>1, <2>2, VersionsKept DEF Shape
<1>2. ASSUME NEW r \in stray, ServeStray(r) PROVE IInv'
  <2>1. r \in Copies /\ Save(r) /\ stray' = stray \ {r}
        /\ UNCHANGED <<rows, batch, flight, reply>>
    BY <1>2 DEF ServeStray, Copies, client
  <2>2. /\ SessionsWell'
        /\ \A s \in Sids : /\ Stored(s)' => SessionCopy(s)' \in Versions
                           /\ sessions[s].rev <= sessions'[s].rev
    BY <2>1, SaveWell
  <2>3. Versions' \subseteq Versions
    BY <2>1, <2>2 DEF Versions, Copies, CopyOf, Used
  <2>4. RowsWell' /\ VersionsWell' /\ OneLine'
    BY <2>1, <2>2, <2>3, VersionsKept DEF Shape
  <2>5. \A s \in Sids : rows[s].ack \in Nat /\ sessions[s].rev \in Nat /\ sessions'[s].rev \in Nat
    BY DEF TypeOK, Row, ServerSession
  <2>6. \A d \in Tabs : reply[d].rev \in Nat /\ (flight[d] # NoCopy => flight[d].sid \in Sids)
    BY DEF TypeOK, Reply, Copy
  <2>7. AcksWell'
    BY <2>1, <2>2, <2>5, <2>6 DEF AcksWell
  <2> QED
    BY <2>2, <2>4, <2>7
<1> QED
  BY <1>1, <1>2 DEF Other, OtherDevice, RemoveItem, RequestHome, ApplyHome, LoseHome,
                    client, server

LEMMA Initially ==
  ASSUME Init
  PROVE  IInv
<1>1. TypeOK
  BY SyncAssumption DEF Init, TypeOK, NoRow, Row, NoReply, Reply, NoSession, ServerSession, Snapshot
<1>2. Versions = {}
  BY DEF Init, Versions, Copies, Used, Stored, NoRow, NoSession
<1> QED
  BY <1>1, <1>2 DEF Init, IInv, RowsWell, VersionsWell, OneLine, SessionsWell, AcksWell,
                    Stored, NoRow, NoSession, NoReply

LEMMA Step ==
  ASSUME IInv, [Next]_vars
  PROVE  IInv'
<1>1. TypeOK'
  BY TypeStep
<1>2. CASE UNCHANGED vars
  BY <1>2 DEF vars, client, server, shown, IInv, TypeOK, RowsWell, VersionsWell, OneLine,
              SessionsWell, AcksWell, Versions, Copies, CopyOf, SessionCopy, Used, Stored, Span
<1> QED
  BY <1>1, <1>2, LocalWell, UploadWell, OtherWell DEF Next, Upload

LEMMA Invariant == Spec => []IInv
BY Initially, Step, PTL DEF Spec

-----------------------------------------------------------------------------
(* The theorems.                                                           *)

\* Every variable keeps its type.
THEOREM TypeCorrect == Spec => []TypeOK
<1>1. IInv => TypeOK
  BY DEF IInv
<1> QED
  BY <1>1, Invariant, PTL

\* checkpointShouldAdvance never throws for this client: whatever request
\* reaches the server next, from whichever tab and however late, it extends
\* what the server already has of the run or is older and already counted.
THEOREM Accepted == Spec => []NeverRejected
<1>1. ASSUME IInv PROVE NeverRejected
  <2> USE DEF IInv
  <2> SUFFICES ASSUME NEW r \in Copies PROVE ~Rejects(r)
    BY DEF NeverRejected
  <2> DEFINE saved == SessionCopy(r.sid)
  <2>1. /\ r \in Versions /\ r.sid \in Sids /\ r.rev \in Nat /\ r.start \in Nat
        /\ r.beat \in Nat /\ r.start <= r.beat /\ r.state \in {"open", "closed"}
    BY <1>1, CopiesWell DEF Copy
  <2>2. sessions[r.sid] \in ServerSession
    BY <1>1, <2>1 DEF TypeOK
  <2>3. CASE ~Stored(r.sid)
    <3>1. sessions[r.sid] = NoSession /\ Span(r) \in Nat
      BY <1>1, <2>1, <2>3, SpanNat DEF SessionsWell
    <3> QED
      BY <2>1, <2>3, <3>1 DEF Rejects, Mismatch, Known, Reopens, Shortens, NoSession
  <2>4. CASE Stored(r.sid)
    <3>1. /\ saved \in Versions /\ saved.sid = r.sid
          /\ saved.start = sessions[r.sid].start /\ saved.beat = sessions[r.sid].beat
          /\ saved.rev = sessions[r.sid].rev /\ saved.state = sessions[r.sid].state
      BY <2>1, <2>4 DEF SessionCopy, Versions
    <3>2. /\ saved.start \in Nat /\ saved.beat \in Nat /\ saved.rev \in Nat
          /\ saved.start <= saved.beat
      BY <1>1, <2>2, <3>1 DEF ServerSession, VersionsWell
    <3> HIDE DEF saved
    <3>3. saved.rev <= r.rev => Extends(saved, r)
      BY <1>1, <2>1, <3>1 DEF OneLine
    <3>4. r.rev <= saved.rev => Extends(r, saved)
      BY <1>1, <2>1, <3>1 DEF OneLine
    <3>5. ~Mismatch(r)
      BY <2>1, <3>1, <3>2, <3>3, <3>4 DEF Mismatch, Extends
    <3>6. ASSUME ~Known(r) PROVE ~Reopens(r) /\ ~Shortens(r)
      <4>1. saved.rev < r.rev /\ Extends(saved, r)
        BY <2>1, <2>4, <3>1, <3>2, <3>3, <3>6 DEF Known
      <4>2. ~Reopens(r)
        BY <2>1, <3>1, <4>1, <3>2 DEF Reopens, Extends
      <4>3. sessions[r.sid].seconds = Seconds(saved.beat - saved.start)
        BY <1>1, <2>1, <2>4, <3>1 DEF SessionsWell, Span
      <4>4. Seconds(saved.beat - saved.start) <= Seconds(r.beat - r.start)
        BY <2>1, <3>2, <4>1, SecondsGrow DEF Extends
      <4>5. /\ Seconds(saved.beat - saved.start) \in Nat
            /\ Seconds(r.beat - r.start) \in Nat
        BY <2>1, <3>2, SecondsNat
      <4> QED
        BY <2>1, <3>1, <3>2, <4>1, <4>2, <4>3, <4>4, <4>5 DEF Shortens, Span, Extends
    <3> QED
      BY <3>5, <3>6 DEF Rejects
  <2> QED
    BY <2>3, <2>4
<1> QED
  BY <1>1, Invariant, PTL

\* acknowledgeCheckpoint never runs ahead of the server: what a row counts as
\* uploaded the server holds, and a row with nothing left to upload is
\* credited in full, with the state it has.
THEOREM Acknowledged == Spec => []AckedIsCredited
<1>1. ASSUME IInv PROVE AckedIsCredited
  <2> USE DEF IInv
  <2> SUFFICES ASSUME NEW s \in Sids
               PROVE  /\ rows[s].ack <= sessions[s].rev
                      /\ rows[s].ack > 0 /\ rows[s].ack = rows[s].rev =>
                           /\ sessions[s].seconds = Span(rows[s])
                           /\ sessions[s].state = rows[s].state
    BY DEF AckedIsCredited
  <2>1. rows[s].ack <= sessions[s].rev
    BY <1>1 DEF AcksWell
  <2>2. ASSUME rows[s].ack > 0, rows[s].ack = rows[s].rev
        PROVE  sessions[s].seconds = Span(rows[s]) /\ sessions[s].state = rows[s].state
    <3>1. rows[s] \in Row /\ sessions[s] \in ServerSession
      BY <1>1 DEF TypeOK
    <3>2. Stored(s) /\ s \in Used
      BY <1>1, <2>1, <2>2, <3>1 DEF Stored, Used, RowsWell, Row, ServerSession
    <3>3. SessionCopy(s) \in Versions /\ CopyOf(s) \in Versions
      BY <3>2 DEF Versions
    <3>4. sessions[s].rev <= rows[s].rev
      BY <1>1, <3>3 DEF VersionsWell, SessionCopy
    <3>5. sessions[s].rev = rows[s].rev
      BY <2>1, <2>2, <3>1, <3>4 DEF Row, ServerSession
    <3>6. Extends(SessionCopy(s), CopyOf(s))
      BY <1>1, <3>1, <3>3, <3>5 DEF OneLine, SessionCopy, CopyOf, Row
    <3>7. /\ sessions[s].start = rows[s].start /\ sessions[s].beat = rows[s].beat
          /\ sessions[s].state = rows[s].state
      BY <3>5, <3>6 DEF Extends, SessionCopy, CopyOf
    <3> QED
      BY <1>1, <3>2, <3>7 DEF SessionsWell, Span
  <2> QED
    BY <2>1, <2>2
<1> QED
  BY <1>1, Invariant, PTL

=============================================================================
