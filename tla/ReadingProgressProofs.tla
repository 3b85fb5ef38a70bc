----------------------- MODULE ReadingProgressProofs -----------------------
(***************************************************************************)
(* Safety of ReadingProgress for every set of devices and positions and    *)
(* every bound.  The argument:                                             *)
(*                                                                         *)
(*  - the stamps of a device's readings grow, so an upload is about the    *)
(*    last reading exactly when its stamp is the last one (Known);         *)
(*  - an answer is never older than the write it answers (Answers), and    *)
(*    the server compares before it answers;                               *)
(*  - a clean row therefore means a compared reading (NoReadingForgotten), *)
(*    and a GET that is not fenced belongs to a clean row (Fenced);        *)
(*  - where writes of the book do not overlap, the server's stamp never    *)
(*    falls, and both invariants about the newest reading follow.          *)
(***************************************************************************)
EXTENDS ReadingProgress, TLAPS

\* A dirty row is the last reading; uploads carry that one or an earlier one.
Known ==
  /\ \A d \in Devices : latest[d] <= row[d].at
  /\ \A d \in Devices : row[d].dirty => row[d].at = latest[d] /\ latest[d] > 0
  /\ \A q \in requests : 0 < q.write.at /\ q.write.at <= latest[q.dev]

\* What an answer says, and that it took a comparison.
Answers ==
  \A q \in requests : q.stage = "answered" =>
    /\ q.stored.at >= q.write.at
    /\ q.write.at = latest[q.dev] => judged[q.dev]

\* A response that may still be admitted was requested after the last reading.
Fenced == \A d \in Devices : gets[d].stage # "none" => ~row[d].dirty

\* Without overlap, such a response holds that reading or a later one.
Current ==
  ~Overlap =>
    \A d \in Devices : gets[d].stage = "answered" => gets[d].stored.at >= latest[d]

\* Without overlap, the one write at work has read what is still stored.
Single ==
  \A p, q \in requests : p.stage = "loaded" /\ q.stage = "loaded" => p = q

Serial ==
  ~Overlap => Single /\ \A q \in requests : q.stage = "loaded" => q.stored = server

\* An open reader shows a position; an upload it waits for belongs to an open one.
Owned ==
  /\ \A d \in Devices : reader[d].open => reader[d].visible \in Positions
  /\ \A q \in requests : q.from = "reader" /\ q.waiting => reader[q.dev].open

IInv ==
  /\ TypeOK /\ Known /\ Answers /\ Fenced /\ Owned /\ NoReadingForgotten
  /\ Current /\ Serial
  /\ ~Overlap => NewestWins /\ CleanIsCurrent

-----------------------------------------------------------------------------
(* Typing of the values the actions build.                                 *)

\* The null values are well typed.
LEMMA Nulls == NoStored \in Stored /\ NoRow \in Row /\ Closed \in Reader /\ NoGet \in Get
BY ProgressAssumption, SMT
   DEF NoStored, Stored, NoRow, Row, Closed, Reader, NoGet, Get, Places, Stamps

\* A stamp is later than the row's, and not before the clock.
LEMMA StampLater ==
  ASSUME TypeOK, NEW d \in Devices, NEW t \in 1 .. MaxTime, Stamp(d, t) <= MaxTime
  PROVE  Stamp(d, t) \in Stamps /\ Stamp(d, t) > row[d].at /\ Stamp(d, t) > 0
<1>1. row[d].at \in Nat
  BY SMT DEF TypeOK, Row, Stamps
<1> QED
  BY <1>1, ProgressAssumption, SMT DEF Stamp, Stamps

\* What the server writes is a stored position of the reading's stamp.
LEMMA WrittenTyped ==
  ASSUME NEW w \in Write
  PROVE  Written(w) \in Stored /\ Written(w).at = w.at
BY ProgressAssumption, SMT DEF Written, Write, Stored, Places

\* Adopting an answer keeps the row's own stamp.
LEMMA AdoptedTyped ==
  ASSUME NEW r \in Row, NEW stored \in Stored
  PROVE  /\ Adopted(r, stored) \in Row
         /\ Adopted(r, stored).at = r.at /\ ~Adopted(r, stored).dirty
         /\ Adopted(r, stored).read = stored.at
BY Zenon DEF Adopted, Row, Stored

\* An answered reader is still the same reader.
LEMMA AnsweredTyped ==
  ASSUME NEW r \in Reader, NEW stored \in Stored
  PROVE  /\ Answered(r, stored) \in Reader
         /\ Answered(r, stored).open = r.open
         /\ Answered(r, stored).visible = r.visible
<1>1. (IF r.pending = stored.locator THEN NoPosition ELSE r.pending) \in Places
  BY Zenon DEF Reader, Places
<1>2. (r.due \/ stored.percent # r.shown) \in BOOLEAN
  OBVIOUS
<1> QED
  BY <1>1, <1>2, Zenon DEF Answered, Reader, Stored

-----------------------------------------------------------------------------
(* One lemma for every kind of step.                                       *)

\* What the reader of an open book may be when its position is written.
Shows(r, d) == r \in Reader /\ r.open /\ r.visible \in Positions

\* A new reading: its stamp is later than everything the device has sent.
LEMMA SnapshotStep ==
  ASSUME IInv, NEW d \in Devices, NEW t \in 1 .. MaxTime, NEW r,
         Shows(r, d), Snapshot(d, r, t)
  PROVE  IInv'
<1> USE DEF IInv
<1> DEFINE at == Stamp(d, t)
           new == [locator |-> r.visible, percent |-> r.shown, read |-> row[d].read,
                   at |-> at, dirty |-> TRUE, since |-> r.since]
           then == [r EXCEPT !.pending = IF r.visible = r.acked THEN NoPosition
                                         ELSE r.visible,
                             !.due = FALSE]
<1>0. /\ row' = [row EXCEPT ![d] = new]
      /\ reader' = [reader EXCEPT ![d] = then]
      /\ gets' = [gets EXCEPT ![d] = NoGet]
      /\ resume' = [resume EXCEPT ![d] = [locator |-> r.visible, at |-> t]]
      /\ latest' = [latest EXCEPT ![d] = at] /\ judged' = [judged EXCEPT ![d] = FALSE]
      /\ now' = t /\ UNCHANGED <<requests, server, faults>>
      /\ at <= MaxTime
  BY Zenon DEF Snapshot, Passes, Fence
<1>1. at \in Stamps /\ at > row[d].at /\ at > 0
  BY <1>0, StampLater, Zenon
<1>2. new \in Row /\ new.dirty /\ new.at = at
  BY <1>1, Zenon DEF Shows, Reader, Row, Places, TypeOK
<1>3. then \in Reader /\ then.open /\ then.visible \in Positions
  <2>1. (IF r.visible = r.acked THEN NoPosition ELSE r.visible) \in Places
    BY Zenon DEF Shows, Places
  <2> QED
    BY <2>1, Zenon DEF Shows, Reader
<1>4. TypeOK'
  <2>1. [locator |-> r.visible, at |-> t] \in Resume
    BY SMT DEF Resume, Shows, Places, Stamps
  <2> QED
    BY <1>0, <1>1, <1>2, <1>3, <2>1, Nulls, SMT DEF TypeOK
<1> HIDE DEF at, new, then
<1>5. \A e \in Devices : latest[e] \in Nat /\ row[e].at \in Nat
  BY SMT DEF TypeOK, Stamps, Row
<1>6. \A q \in requests : q.dev \in Devices /\ q.write.at \in Nat
  BY SMT DEF TypeOK, Request, Write, Stamps
<1>7. latest[d] < at /\ at \in Nat
  BY <1>1, <1>5, SMT DEF Known, Stamps
<1>8. Known'
  BY <1>0, <1>1, <1>2, <1>5, <1>6, <1>7, SMT DEF Known, TypeOK
<1>9. Answers'
  <2>1. \A q \in requests : q.dev = d => q.write.at # at
    BY <1>5, <1>6, <1>7, SMT DEF Known
  <2>2. \A q \in requests : q.write.at = latest'[q.dev] =>
          q.dev # d /\ latest'[q.dev] = latest[q.dev] /\ judged'[q.dev] = judged[q.dev]
    BY <1>0, <1>6, <2>1, Zenon DEF TypeOK
  <2> QED
    BY <1>0, <2>2, Zenon DEF Answers
<1>10. Fenced'
  BY <1>0, Zenon DEF Fenced, TypeOK, NoGet
<1>11. Owned'
  BY <1>0, <1>3, <1>6, Zenon DEF Owned, TypeOK
<1>12. NoReadingForgotten'
  BY <1>0, <1>2, Zenon DEF NoReadingForgotten, TypeOK
<1>13. Current'
  BY <1>0, SMT DEF Current, TypeOK, NoGet
<1>14. ~Overlap => NewestWins' /\ CleanIsCurrent'
  BY <1>0, <1>2, SMT DEF NewestWins, CleanIsCurrent, TypeOK
<1>15. Serial'
  BY <1>0, Zenon DEF Serial, Single
<1> QED
  BY <1>4, <1>8, <1>9, <1>10, <1>11, <1>12, <1>13, <1>14, <1>15

\* An upload starts: it carries the last reading and is not answered yet.
LEMMA UploadStep ==
  ASSUME IInv, NEW d \in Devices, NEW from \in {"runner", "reader"}, Upload(d, from),
         from = "reader" => reader[d].open
  PROVE  IInv'
<1> USE DEF IInv
<1> DEFINE w == [locator |-> row[d].locator, at |-> row[d].at, since |-> row[d].since]
           q == [dev |-> d, from |-> from, stage |-> "sent", stored |-> NoStored,
                 waiting |-> TRUE, write |-> w]
<1>0. /\ row[d].dirty /\ row[d].locator # NoPosition
      /\ requests' = requests \cup {q}
      /\ UNCHANGED <<now, row, resume, reader, gets, server, faults, latest, judged>>
  BY Zenon DEF Upload, device, history
<1>1. w \in Write /\ w.at = latest[d] /\ latest[d] > 0
  BY <1>0, Zenon DEF TypeOK, Known, Row, Write, Places
<1>2. q \in Request /\ q.dev = d /\ q.from = from /\ q.stage = "sent" /\ q.write = w
  BY <1>1, Nulls, SMT DEF Request
<1> HIDE DEF w, q
<1>3. TypeOK'
  BY <1>0, <1>2, Zenon DEF TypeOK
<1>4. Known'
  BY <1>0, <1>1, <1>2, SMT DEF Known, TypeOK, Stamps
<1>5. Answers' /\ Fenced' /\ NoReadingForgotten'
  BY <1>0, <1>2, Zenon DEF Answers, Fenced, NoReadingForgotten
<1>6. Owned'
  BY <1>0, <1>2, Zenon DEF Owned
<1>7. Current' /\ (~Overlap => NewestWins' /\ CleanIsCurrent')
  BY <1>0, <1>2, SMT DEF Current, NewestWins, CleanIsCurrent
<1>8. Serial'
  <2>1. q.stage # "loaded"
    BY <1>2, SMT
  <2> QED
    BY <1>0, <2>1, Zenon DEF Serial, Single
<1> QED
  BY <1>3, <1>4, <1>5, <1>6, <1>7, <1>8

\* The server reads the stored position for a write, which only it will compare.
LEMMA LoadStep ==
  ASSUME IInv, NEW q \in requests, Load(q)
  PROVE  IInv'
<1> USE DEF IInv
<1> DEFINE p == [q EXCEPT !.stage = "loaded", !.stored = server]
<1>0. /\ Overlap \/ \A other \in requests : other.stage # "loaded"
      /\ requests' = (requests \ {q}) \cup {p}
      /\ UNCHANGED <<now, row, resume, reader, gets, server, faults, latest, judged>>
  BY Zenon DEF Load, device, history
<1>1. /\ p \in Request /\ p.dev = q.dev /\ p.from = q.from /\ p.waiting = q.waiting
      /\ p.stage = "loaded" /\ p.write = q.write /\ p.stored = server
  <2>1. q \in Request /\ server \in Stored
    BY Zenon DEF TypeOK
  <2> QED
    BY <2>1, Zenon DEF Request
<1> HIDE DEF p
<1>2. TypeOK'
  BY <1>0, <1>1, Zenon DEF TypeOK
<1>3. Known'
  BY <1>0, <1>1, Zenon DEF Known
<1>4. Answers' /\ Fenced' /\ NoReadingForgotten' /\ Owned'
  BY <1>0, <1>1, Zenon DEF Answers, Fenced, NoReadingForgotten, Owned
<1>5. Current' /\ (~Overlap => NewestWins' /\ CleanIsCurrent')
  BY <1>0, Zenon DEF Current, NewestWins, CleanIsCurrent
<1>6. Serial'
  BY <1>0, <1>1, Zenon DEF Serial, Single
<1> QED
  BY <1>2, <1>3, <1>4, <1>5, <1>6

\* The server compares a write with the position read for it and answers.
LEMMA SaveStep ==
  ASSUME IInv, NEW q \in requests, Save(q)
  PROVE  IInv'
<1> USE DEF IInv
<1> DEFINE stored == q.stored
           answer == IF Older(q.write, stored) THEN stored ELSE Written(q.write)
           p == [q EXCEPT !.stage = "answered", !.stored = answer]
<1>0. /\ q.stage = "loaded"
      /\ requests' = (requests \ {q}) \cup (IF q.waiting THEN {p} ELSE {})
      /\ server' = (IF Older(q.write, stored) THEN server ELSE answer)
      /\ judged' = [judged EXCEPT ![q.dev] = judged[q.dev] \/ q.write.at = latest[q.dev]]
      /\ UNCHANGED <<now, row, resume, reader, gets, faults, latest>>
  BY Zenon DEF Save, Finish, device
<1>1. q \in Request /\ q.dev \in Devices /\ q.write \in Write /\ q.write.at \in Nat
  BY SMT DEF TypeOK, Request, Write, Stamps
<1>2. stored \in Stored /\ stored.at \in Nat /\ server.at \in Nat
  <2>1. stored \in Stored /\ server \in Stored
    BY <1>1, Zenon DEF TypeOK, Request
  <2> QED
    BY <2>1, SMT DEF Stored, Stamps
<1>3. answer \in Stored /\ answer.at >= q.write.at
  <2>1. Written(q.write) \in Stored /\ Written(q.write).at = q.write.at
    BY <1>1, WrittenTyped, Zenon
  <2>2. CASE Older(q.write, stored)
    BY <1>1, <1>2, <2>2, SMT DEF Older
  <2>3. CASE ~Older(q.write, stored)
    BY <1>1, <2>1, <2>3, SMT
  <2> QED
    BY <2>2, <2>3
<1>4. ~Older(q.write, stored) => answer.at = q.write.at
  BY <1>1, WrittenTyped, Zenon
<1>5. ~Overlap => stored = server
  BY <1>0, Zenon DEF Serial
<1>6. ~Overlap => server'.at >= server.at /\ server'.at >= q.write.at
  <2> SUFFICES ASSUME ~Overlap PROVE server'.at >= server.at /\ server'.at >= q.write.at
    OBVIOUS
  <2>1. CASE Older(q.write, stored)
    BY <1>0, <1>1, <1>2, <1>5, <2>1, SMT DEF Older
  <2>2. CASE ~Older(q.write, stored)
    <3>1. server'.at = q.write.at
      BY <1>0, <1>4, <2>2, Zenon
    <3>2. q.write.at >= server.at
      BY <1>1, <1>2, <1>5, <2>2, SMT DEF Older
    <3> QED
      BY <1>1, <3>1, <3>2, SMT
  <2> QED
    BY <2>1, <2>2
<1>7. /\ p \in Request /\ p.dev = q.dev /\ p.from = q.from /\ p.waiting = q.waiting
      /\ p.stage = "answered" /\ p.write = q.write /\ p.stored = answer
  BY <1>1, <1>3, Zenon DEF Request
<1> HIDE DEF p, answer, stored
<1>8. requests' \subseteq (requests \cup {p})
  BY <1>0, Zenon
<1>9. judged' \in [Devices -> BOOLEAN] /\ \A d \in Devices : judged[d] => judged'[d]
  BY <1>0, <1>1, Zenon DEF TypeOK
<1>10. q.write.at = latest[q.dev] => judged'[q.dev]
  BY <1>0, <1>1, Zenon DEF TypeOK
<1>11. TypeOK'
  BY <1>0, <1>2, <1>3, <1>7, <1>8, <1>9, Zenon DEF TypeOK
<1>12. Known'
  BY <1>0, <1>7, <1>8, Zenon DEF Known
<1>13. \A r \in requests : r.dev \in Devices
  BY Zenon DEF TypeOK, Request
<1>14. Answers'
  BY <1>0, <1>1, <1>3, <1>7, <1>8, <1>9, <1>10, <1>13, Zenon DEF Answers
<1>15. Fenced' /\ NoReadingForgotten' /\ Owned'
  BY <1>0, <1>1, <1>7, <1>8, <1>9, Zenon DEF Fenced, NoReadingForgotten, Owned
<1>16. Current'
  BY <1>0, <1>7, <1>8, Zenon DEF Current
<1>17. ~Overlap => CleanIsCurrent'
  BY <1>0, Zenon DEF CleanIsCurrent
<1>18. ~Overlap => NewestWins'
  <2> SUFFICES ASSUME ~Overlap, NEW d \in Devices, judged'[d]
               PROVE  server'.at >= latest[d]
    BY <1>0, Zenon DEF NewestWins
  <2>0. server'.at \in Nat /\ latest[d] \in Nat
    BY <1>11, <1>0, SMT DEF TypeOK, Stored, Stamps
  <2>1. CASE judged[d]
    BY <1>2, <1>6, <2>0, <2>1, SMT DEF NewestWins
  <2>2. CASE ~judged[d]
    <3>1. d = q.dev /\ q.write.at = latest[d]
      BY <1>0, <1>1, <2>2, Zenon DEF TypeOK
    <3> QED
      BY <1>6, <2>0, <3>1, SMT
  <2> QED
    BY <2>1, <2>2
<1>19. Serial'
  <2>1. p.stage # "loaded"
    BY <1>7, SMT
  <2>2. ~Overlap => \A r \in requests' : r.stage # "loaded"
    BY <1>0, <2>1, Zenon DEF Serial, Single
  <2> QED
    BY <2>2, Zenon DEF Serial, Single
<1> QED
  BY <1>11, <1>12, <1>14, <1>15, <1>16, <1>17, <1>18, <1>19

\* An answer arrives.  If it is for the row as it is, that row is the last
\* reading or one already compared, so clearing it is right.
LEMMA AcknowledgeStep ==
  ASSUME IInv, NEW q \in requests, Acknowledge(q)
  PROVE  IInv'
<1> USE DEF IInv
<1> DEFINE d == q.dev
           same == row[d].at # 0 /\ SameWrite(row[d], q.write)
           adopted == Adopted(row[d], q.stored)
           then == Answered(reader[d], q.stored)
<1>0. /\ q.stage = "answered" /\ q.waiting /\ requests' = requests \ {q}
      /\ UNCHANGED <<now, resume, server, faults, latest, judged>>
  BY Zenon DEF Acknowledge, history
<1>1. /\ q \in Request /\ d \in Devices /\ q.stored \in Stored /\ q.write.at \in Nat
      /\ q.stored.at \in Nat
  BY SMT DEF TypeOK, Request, Write, Stored, Stamps
<1>2. row[d] \in Row /\ reader[d] \in Reader
  BY <1>1, Zenon DEF TypeOK
<1>3. adopted \in Row /\ adopted.at = row[d].at /\ ~adopted.dirty /\ adopted.read = q.stored.at
  BY <1>1, <1>2, AdoptedTyped, Zenon
<1>4. then \in Reader /\ then.open = reader[d].open /\ then.visible = reader[d].visible
  BY <1>1, <1>2, AnsweredTyped, Zenon
<1>5. q.from = "reader" => reader[d].open
  BY <1>0, Zenon DEF Owned
<1>9. Serial'
  BY <1>0, Zenon DEF Serial, Single
<1>6. CASE ~same
  <2>1. UNCHANGED <<row, gets, reader>>
    BY <1>6, Zenon DEF Acknowledge
  <2>2. TypeOK'
    BY <1>0, <2>1, Zenon DEF TypeOK
  <2>3. Known' /\ Answers' /\ Fenced' /\ NoReadingForgotten' /\ Owned' /\ Current'
    BY <1>0, <2>1, Zenon DEF Known, Answers, Fenced, NoReadingForgotten, Owned, Current
  <2>4. ~Overlap => NewestWins' /\ CleanIsCurrent'
    BY <1>0, <2>1, Zenon DEF NewestWins, CleanIsCurrent
  <2> QED
    BY <1>9, <2>2, <2>3, <2>4
<1>7. CASE same
  <2>0. /\ row' = [row EXCEPT ![d] = adopted] /\ gets' = [gets EXCEPT ![d] = NoGet]
        /\ reader' = IF q.from # "reader" THEN reader ELSE [reader EXCEPT ![d] = then]
    BY <1>7, Zenon DEF Acknowledge, Fence
  <2>1. row[d].at = q.write.at
    BY <1>7, Zenon DEF SameWrite
  <2> HIDE DEF adopted, then, same, d
  <2>2. \A e \in Devices : reader'[e].open = reader[e].open /\ reader'[e].visible = reader[e].visible
    BY <1>1, <1>4, <2>0, Zenon DEF TypeOK
  <2>3. reader' \in [Devices -> Reader]
    BY <1>4, <2>0, Zenon DEF TypeOK
  <2>4. \A e \in Devices : ~reader'[e].open => reader'[e] = Closed
    BY <1>1, <1>4, <1>5, <2>0, Zenon DEF TypeOK
  <2>5. TypeOK'
    BY <1>0, <1>1, <1>3, <2>0, <2>3, <2>4, Nulls, Zenon DEF TypeOK
  <2>6. Known'
    BY <1>0, <1>1, <1>3, <2>0, Zenon DEF Known, TypeOK
  <2>7. Answers'
    BY <1>0, Zenon DEF Answers
  <2>8. Fenced'
    BY <1>0, <1>1, <1>3, <2>0, Zenon DEF Fenced, TypeOK
  <2>9. Owned'
    <3>1. \A r \in requests : r.dev \in Devices
      BY Zenon DEF TypeOK, Request
    <3> QED
      BY <1>0, <2>2, <3>1, Zenon DEF Owned
  <2>10. judged[d]
    <3>1. CASE row[d].dirty
      <4>1. q.write.at = latest[d]
        BY <1>1, <2>1, <3>1, Zenon DEF Known
      <4> QED
        BY <1>0, <4>1, Zenon DEF Answers, d
    <3>2. CASE ~row[d].dirty
      BY <1>1, <3>2, Zenon DEF NoReadingForgotten
    <3> QED
      BY <3>1, <3>2
  <2>11. NoReadingForgotten'
    BY <1>0, <1>1, <2>0, <2>10, Zenon DEF NoReadingForgotten, TypeOK
  <2>12. Current'
    BY <1>0, <1>1, <2>0, SMT DEF Current, TypeOK, NoGet
  <2>13. ~Overlap => NewestWins'
    BY <1>0, Zenon DEF NewestWins
  <2>14. ~Overlap => CleanIsCurrent'
    <3>1. q.stored.at >= latest[d]
      <4>1. latest[d] \in Nat /\ latest[d] <= row[d].at /\ q.stored.at >= q.write.at
        BY <1>0, <1>1, SMT DEF Known, Answers, TypeOK, Stamps
      <4> QED
        BY <1>1, <2>1, <4>1, SMT
    <3> QED
      BY <1>0, <1>1, <1>3, <2>0, <3>1, Zenon DEF CleanIsCurrent, TypeOK
  <2> QED
    BY <1>9, <2>5, <2>6, <2>7, <2>8, <2>9, <2>11, <2>12, <2>13, <2>14
<1> QED
  BY <1>6, <1>7

\* A GET starts at a clean row, and what it brings is as new as that row.
LEMMA GetStep ==
  ASSUME IInv, NEW d \in Devices, StartGet(d) \/ ServeGet(d)
  PROVE  IInv'
<1> USE DEF IInv
<1>0. UNCHANGED <<now, row, resume, reader, requests, server, faults, latest, judged>>
  BY Zenon DEF StartGet, ServeGet, history
<1>1. PICK g : /\ g \in Get /\ gets' = [gets EXCEPT ![d] = g] /\ ~row[d].dirty
               /\ g.stage = "answered" => g.stored = server
  <2>1. CASE StartGet(d)
    <3>1. /\ [NoGet EXCEPT !.stage = "sent"] \in Get
          /\ [NoGet EXCEPT !.stage = "sent"].stage # "answered"
      BY Nulls, SMT DEF NoGet, Get
    <3> QED
      BY <2>1, <3>1, Zenon DEF StartGet
  <2>2. CASE ServeGet(d)
    <3>1. [stage |-> "answered", stored |-> server] \in Get
      BY SMT DEF TypeOK, Get
    <3>2. ~row[d].dirty
      BY <2>2, SMT DEF ServeGet, Fenced
    <3>3. [stage |-> "answered", stored |-> server].stored = server
      OBVIOUS
    <3>4. gets' = [gets EXCEPT ![d] = [stage |-> "answered", stored |-> server]]
      BY <2>2, Zenon DEF ServeGet
    <3> QED
      BY <3>1, <3>2, <3>3, <3>4, Zenon
  <2> QED
    BY <2>1, <2>2
<1>2. TypeOK'
  BY <1>0, <1>1, Zenon DEF TypeOK
<1>3. Known' /\ Answers' /\ NoReadingForgotten' /\ Owned'
  BY <1>0, Zenon DEF Known, Answers, NoReadingForgotten, Owned
<1>4. Fenced'
  BY <1>0, <1>1, Zenon DEF Fenced, TypeOK
<1>5. ~Overlap => server.at >= latest[d]
  BY <1>1, Zenon DEF NewestWins, NoReadingForgotten
<1>6. Current'
  BY <1>0, <1>1, <1>5, Zenon DEF Current, TypeOK
<1>7. ~Overlap => NewestWins' /\ CleanIsCurrent'
  BY <1>0, Zenon DEF NewestWins, CleanIsCurrent
<1>8. Serial'
  BY <1>0, Zenon DEF Serial, Single
<1> QED
  BY <1>2, <1>3, <1>4, <1>6, <1>7, <1>8

\* An admitted response replaces a clean row by one as new.
LEMMA ApplyGetStep ==
  ASSUME IInv, NEW d \in Devices, NEW t \in 1 .. MaxTime, ApplyGet(d, t)
  PROVE  IInv'
<1> USE DEF IInv
<1> DEFINE stored == gets[d].stored
           new == [locator |-> stored.locator, percent |-> stored.percent,
                   read |-> stored.at, at |-> Stamp(d, t), dirty |-> FALSE,
                   since |-> stored.since]
<1>0. /\ gets[d].stage = "answered" /\ ~row[d].dirty /\ Stamp(d, t) <= MaxTime
      /\ row' = [row EXCEPT ![d] = new] /\ gets' = [gets EXCEPT ![d] = NoGet] /\ now' = t
      /\ UNCHANGED <<resume, reader, requests, server, faults, latest, judged>>
  BY Zenon DEF ApplyGet, Passes, history
<1>1. Stamp(d, t) \in Stamps /\ Stamp(d, t) > row[d].at
  BY <1>0, StampLater, Zenon
<1>2. stored \in Stored
  BY Zenon DEF TypeOK, Get
<1>3. new \in Row /\ ~new.dirty /\ new.at = Stamp(d, t) /\ new.read = stored.at
  BY <1>1, <1>2, Zenon DEF Stored, Row
<1>4. latest[d] <= Stamp(d, t)
  <2>1. latest[d] \in Nat /\ row[d].at \in Nat /\ latest[d] <= row[d].at
    BY SMT DEF Known, TypeOK, Row, Stamps
  <2> QED
    BY <1>1, <2>1, SMT DEF Stamps
<1>5. ~Overlap => stored.at >= latest[d]
  BY <1>0, Zenon DEF Current
<1> HIDE DEF new, stored
<1>6. TypeOK'
  BY <1>0, <1>3, Nulls, Zenon DEF TypeOK
<1>7. Known'
  BY <1>0, <1>3, <1>4, Zenon DEF Known, TypeOK
<1>8. Answers' /\ Owned' /\ Serial'
  BY <1>0, Zenon DEF Answers, Owned, Serial, Single
<1>9. Fenced'
  BY <1>0, <1>3, Zenon DEF Fenced, TypeOK
<1>10. NoReadingForgotten'
  BY <1>0, <1>3, Zenon DEF NoReadingForgotten, TypeOK
<1>11. Current'
  BY <1>0, SMT DEF Current, TypeOK, NoGet
<1>12. ~Overlap => NewestWins' /\ CleanIsCurrent'
  BY <1>0, <1>3, <1>5, Zenon DEF NewestWins, CleanIsCurrent, TypeOK
<1> QED
  BY <1>6, <1>7, <1>8, <1>9, <1>10, <1>11, <1>12

\* A request that still means the same, told apart only by who waits for it.
Same(p, q) ==
  /\ p.dev = q.dev /\ p.write = q.write /\ p.stage = q.stage /\ p.stored = q.stored

\* Giving up changes nothing but that nobody waits any more.
LEMMA AbandonTyped ==
  ASSUME NEW sent, sent \subseteq Request
  PROVE  \A p \in Abandon(sent) : \E q \in sent :
           p \in Request /\ Same(p, q) /\ ~p.waiting /\ p.dev = q.dev
<1>1. \A q \in Request : LET p == [q EXCEPT !.waiting = FALSE] IN
        p \in Request /\ Same(p, q) /\ ~p.waiting /\ p.dev = q.dev
  BY Zenon DEF Request, Same
<1> QED
  BY <1>1, Zenon DEF Abandon

\* Requests are dropped, given up or left behind; readers are closed.
LEMMA FaultStep ==
  ASSUME IInv, UNCHANGED <<now, row, resume, server, latest, judged>>,
         faults' \in 0 .. MaxFaults,
         requests' \subseteq Request, reader' \in [Devices -> Reader],
         gets' \in [Devices -> Get],
         \A p \in requests' : \E q \in requests : Same(p, q),
         \A d \in Devices : ~reader'[d].open => reader'[d] = Closed,
         \A d \in Devices : gets'[d] \in {gets[d], NoGet}, Owned', Single => Single'
  PROVE  IInv'
<1> USE DEF IInv
<1>1. TypeOK'
  BY Zenon DEF TypeOK
<1>2. Known' /\ Answers' /\ NoReadingForgotten'
  <2>1. \A p \in requests' : \E q \in requests :
          /\ p.dev = q.dev /\ p.write.at = q.write.at /\ p.stage = q.stage
          /\ p.stored.at = q.stored.at
    BY Zenon DEF Same
  <2>2. Known'
    BY <2>1, Zenon DEF Known
  <2>3. Answers'
    BY <2>1, SMT DEF Answers
  <2> QED
    BY <2>2, <2>3, Zenon DEF NoReadingForgotten
<1>3. \A d \in Devices : gets'[d].stage # "none" => gets'[d] = gets[d]
  BY SMT DEF NoGet
<1>4. Fenced'
  BY <1>3, Zenon DEF Fenced
<1>5. \A d \in Devices : gets'[d].stage = "answered" => gets'[d] = gets[d]
  BY SMT DEF NoGet
<1>6. Current'
  BY <1>5, Zenon DEF Current, Same
<1>7. ~Overlap => NewestWins' /\ CleanIsCurrent'
  BY Zenon DEF NewestWins, CleanIsCurrent
<1>8. Serial'
  <2>1. \A p \in requests' : \E q \in requests : p.stage = q.stage /\ p.stored = q.stored
    BY Zenon DEF Same
  <2> QED
    BY <2>1, Zenon DEF Serial
<1> QED
  BY <1>1, <1>2, <1>4, <1>6, <1>7, <1>8

\* Every step keeps the invariant: one case for each action.
LEMMA NextSafe ==
  ASSUME IInv, Next
  PROVE  IInv'
<1> USE DEF IInv
<1>0. \A q \in requests : q \in Request /\ q.dev \in Devices /\ q.write.at \in Nat
  BY SMT DEF TypeOK, Request, Write, Stamps
<1>1. ASSUME NEW d \in Devices, NEW t \in 1 .. MaxTime, Open(d, t)
      PROVE  IInv'
  <2>1. PICK progress \in {RowProgress(d), ServerProgress} :
          Snapshot(d, [open |-> TRUE, visible |-> Resumed(d, progress),
                       shown |-> progress.percent, acked |-> progress.locator,
                       pending |-> NoPosition, due |-> FALSE, since |-> Stamp(d, t)], t)
    BY <1>1, Zenon DEF Open
  <2>2. progress.locator \in Places /\ progress.percent \in 0 .. 100
    BY SMT DEF RowProgress, ServerProgress, TypeOK, Row, Stored
  <2>3. resume[d].locator \in Places
    BY Zenon DEF TypeOK, Resume
  <2>4. Resumed(d, progress) \in Positions
    BY <2>2, <2>3, ProgressAssumption, SMT DEF Resumed, Places
  <2>5. Stamp(d, t) \in Stamps
    BY <2>1, StampLater, Zenon DEF Snapshot
  <2>6. Shows([open |-> TRUE, visible |-> Resumed(d, progress),
               shown |-> progress.percent, acked |-> progress.locator,
               pending |-> NoPosition, due |-> FALSE, since |-> Stamp(d, t)], d)
    BY <2>2, <2>4, <2>5, SMT DEF Shows, Reader, Places
  <2> QED
    BY <2>1, <2>6, SnapshotStep, Zenon
<1>2. ASSUME NEW d \in Devices, NEW t \in 1 .. MaxTime, Restamp(d, t)
      PROVE  IInv'
  <2>1. reader[d] \in Reader /\ reader[d].open
    BY <1>2, Zenon DEF Restamp, TypeOK
  <2>2. reader[d].visible \in Positions
    BY <2>1, Zenon DEF Owned
  <2> QED
    BY <1>2, <2>1, <2>2, SnapshotStep, Zenon DEF Restamp, Shows
<1>3. ASSUME NEW d \in Devices, NEW t \in 1 .. MaxTime, NEW p \in Positions, Move(d, p, t)
      PROVE  IInv'
  <2>1. reader[d] \in Reader /\ reader[d].open
    BY <1>3, Zenon DEF Move, TypeOK
  <2>2. Stamp(d, t) \in Stamps
    BY <1>3, StampLater, Zenon DEF Move, Snapshot
  <2> DEFINE r == [reader[d] EXCEPT !.visible = p, !.since = Stamp(d, t)]
  <2>3. r \in Reader /\ r.open /\ r.visible = p
    <3>1. p \in Places
      BY Zenon DEF Places
    <3> QED
      BY <2>1, <2>2, <3>1, Zenon DEF Reader
  <2>4. Snapshot(d, r, t)
    BY <1>3, Zenon DEF Move
  <2> QED
    BY <2>3, <2>4, SnapshotStep, Zenon DEF Shows
<1>4. ASSUME NEW d \in Devices, Close(d)
      PROVE  IInv'
  <2>1. \A q \in requests :
          /\ Left(d, q) \in Request /\ Same(Left(d, q), q)
          /\ Left(d, q).waiting = q.waiting
          /\ Left(d, q).from = "reader" => q.from = "reader" /\ q.dev # d
    <3> SUFFICES ASSUME NEW q \in requests
                 PROVE  /\ Left(d, q) \in Request /\ Same(Left(d, q), q)
                        /\ Left(d, q).waiting = q.waiting
                        /\ Left(d, q).from = "reader" => q.from = "reader" /\ q.dev # d
      OBVIOUS
    <3>1. CASE q.dev = d /\ q.from = "reader"
      <4>1. Left(d, q) = [q EXCEPT !.from = "left"]
        BY <3>1, Zenon DEF Left
      <4>2. Left(d, q).from = "left"
        BY <1>0, <4>1, Zenon DEF Request
      <4>3. Left(d, q).from # "reader"
        BY <4>2, SMT
      <4> QED
        BY <1>0, <4>1, <4>3, Zenon DEF Request, Same
    <3>2. CASE ~(q.dev = d /\ q.from = "reader")
      BY <1>0, <3>2, Zenon DEF Left, Same
    <3> QED
      BY <3>1, <3>2
  <2>2. /\ requests' = {Left(d, q) : q \in requests}
        /\ reader' = [reader EXCEPT ![d] = Closed]
        /\ UNCHANGED <<now, row, resume, gets, server, faults, latest, judged>>
    BY <1>4, Zenon DEF Close, history
  <2>0. \A p \in requests' : \E q \in requests : p = Left(d, q)
    BY <2>2, Zenon
  <2>3. requests' \subseteq Request /\ \A p \in requests' : \E q \in requests : Same(p, q)
    <3>1. ASSUME NEW p \in requests'
          PROVE  p \in Request /\ \E q \in requests : Same(p, q)
      <4>1. PICK q \in requests : p = Left(d, q)
        BY <2>0
      <4>2. Left(d, q) \in Request /\ Same(Left(d, q), q)
        BY <2>1
      <4> QED
        BY <4>1, <4>2
    <3> QED
      BY <3>1
  <2>4. reader' \in [Devices -> Reader] /\ \A e \in Devices : ~reader'[e].open => reader'[e] = Closed
    BY <2>2, Nulls, Zenon DEF TypeOK
  <2>5. Owned'
    <3>1. \A e \in Devices : reader'[e].open => e # d /\ reader'[e] = reader[e]
      <4>1. ~Closed.open
        BY SMT DEF Closed
      <4> QED
        BY <2>2, <4>1, Zenon DEF TypeOK
    <3>2. \A p \in requests' : p.from = "reader" /\ p.waiting =>
            /\ p.dev \in Devices /\ p.dev # d /\ reader[p.dev].open
      <4> SUFFICES ASSUME NEW p \in requests', p.from = "reader", p.waiting
                   PROVE  p.dev \in Devices /\ p.dev # d /\ reader[p.dev].open
        OBVIOUS
      <4>1. PICK q \in requests : p = Left(d, q)
        BY <2>0
      <4>2. q.from = "reader" /\ q.dev # d /\ q.waiting
        <5>1. Left(d, q).from = "reader" /\ Left(d, q).waiting
          BY <4>1
        <5> QED
          BY <2>1, <5>1
      <4>3. p.dev = q.dev
        BY <2>1, <4>1, SMT DEF Same
      <4> QED
        BY <1>0, <4>2, <4>3, Zenon DEF Owned
    <3>3. \A e \in Devices : e # d => reader'[e] = reader[e]
      BY <2>2, Zenon DEF TypeOK
    <3> QED
      BY <3>1, <3>2, <3>3, Zenon DEF Owned
  <2>6. gets' \in [Devices -> Get] /\ faults' \in 0 .. MaxFaults
        /\ \A e \in Devices : gets'[e] \in {gets[e], NoGet}
    BY <2>2, Zenon DEF TypeOK
  <2>7. Single => Single'
    <3> SUFFICES ASSUME Single, NEW p1 \in requests', NEW p2 \in requests',
                        p1.stage = "loaded", p2.stage = "loaded"
                 PROVE  p1 = p2
      BY Zenon DEF Single
    <3>1. PICK q1 \in requests : p1 = Left(d, q1)
      BY <2>0
    <3>2. PICK q2 \in requests : p2 = Left(d, q2)
      BY <2>0
    <3>3. q1.stage = "loaded" /\ q2.stage = "loaded"
      BY <2>1, <3>1, <3>2, SMT DEF Same
    <3> QED
      BY <3>1, <3>2, <3>3, Zenon DEF Single
  <2> QED
    BY <2>2, <2>3, <2>4, <2>5, <2>6, <2>7, FaultStep, Zenon
<1>5. ASSUME NEW d \in Devices, Crash(d)
      PROVE  IInv'
  <2> DEFINE own == {q \in requests : q.dev = d}
  <2>1. /\ requests' = (requests \ own) \cup Abandon(own)
        /\ reader' = [reader EXCEPT ![d] = Closed] /\ gets' = [gets EXCEPT ![d] = NoGet]
        /\ faults < MaxFaults /\ faults' = faults + 1
        /\ UNCHANGED <<now, row, resume, server, latest, judged>>
    BY <1>5, Zenon DEF Crash, Fault, history
  <2>2. \A p \in Abandon(own) : \E q \in requests :
          /\ p \in Request /\ Same(p, q) /\ ~p.waiting /\ q.dev = d
    <3>1. own \subseteq Request
      BY <1>0
    <3>2. \A p \in Abandon(own) : \E q \in own :
            p \in Request /\ Same(p, q) /\ ~p.waiting /\ p.dev = q.dev
      BY <3>1, AbandonTyped, Zenon
    <3> QED
      BY <3>2
  <2>3. requests' \subseteq Request /\ \A p \in requests' : \E q \in requests : Same(p, q)
    BY <1>0, <2>1, <2>2, Zenon DEF Same
  <2>4. reader' \in [Devices -> Reader] /\ \A e \in Devices : ~reader'[e].open => reader'[e] = Closed
    BY <2>1, Nulls, Zenon DEF TypeOK
  <2>5. ~Closed.open
    BY SMT DEF Closed
  <2>6. Owned'
    BY <1>0, <2>1, <2>2, <2>5, Zenon DEF Owned, TypeOK
  <2>7. gets' \in [Devices -> Get] /\ \A e \in Devices : gets'[e] \in {gets[e], NoGet}
    BY <2>1, Nulls, Zenon DEF TypeOK
  <2>8. faults' \in 0 .. MaxFaults
    BY <2>1, ProgressAssumption, SMT DEF TypeOK
  <2>9. Single => Single'
    <3>1. \A p \in requests' : p.stage = "loaded" =>
            \E q \in requests : /\ q.stage = "loaded"
                                 /\ p = IF q \in own THEN [q EXCEPT !.waiting = FALSE] ELSE q
      <4> SUFFICES ASSUME NEW p \in requests', p.stage = "loaded"
                   PROVE  \E q \in requests :
                            /\ q.stage = "loaded"
                            /\ p = IF q \in own THEN [q EXCEPT !.waiting = FALSE] ELSE q
        OBVIOUS
      <4>1. CASE p \in requests \ own
        BY <4>1
      <4>2. CASE p \in Abandon(own)
        <5>1. PICK q \in own : p = [q EXCEPT !.waiting = FALSE]
          BY <4>2, Zenon DEF Abandon
        <5>2. q \in requests /\ q.stage = "loaded"
          BY <1>0, <5>1, Zenon DEF Request
        <5> QED
          BY <5>1, <5>2, Zenon
      <4> QED
        BY <2>1, <4>1, <4>2
    <3> QED
      BY <3>1, Zenon DEF Single
  <2> QED
    BY <2>1, <2>3, <2>4, <2>6, <2>7, <2>8, <2>9, FaultStep, Zenon
<1>6. ASSUME NEW q \in requests, Lose(q) \/ GiveUp(q)
      PROVE  IInv'
  <2>1. /\ requests' \subseteq (requests \cup Abandon({q}))
        /\ faults < MaxFaults /\ faults' = faults + 1
        /\ UNCHANGED <<now, row, resume, reader, gets, server, latest, judged>>
    BY <1>6, Zenon DEF Lose, GiveUp, Fault, device, history
  <2>2. \A p \in Abandon({q}) : p \in Request /\ Same(p, q) /\ ~p.waiting
    <3>1. {q} \subseteq Request
      BY <1>0
    <3>2. \A p \in Abandon({q}) : \E r \in {q} :
            p \in Request /\ Same(p, r) /\ ~p.waiting /\ p.dev = r.dev
      BY <3>1, AbandonTyped, Zenon
    <3> QED
      BY <3>2
  <2>3. requests' \subseteq Request /\ \A p \in requests' : \E r \in requests : Same(p, r)
    BY <1>0, <2>1, <2>2, Zenon DEF Same
  <2>4. Owned'
    BY <2>1, <2>2, Zenon DEF Owned
  <2>5. faults' \in 0 .. MaxFaults
    BY <2>1, ProgressAssumption, SMT DEF TypeOK
  <2>6. /\ reader' \in [Devices -> Reader] /\ gets' \in [Devices -> Get]
        /\ \A e \in Devices : ~reader'[e].open => reader'[e] = Closed
        /\ \A e \in Devices : gets'[e] \in {gets[e], NoGet}
    BY <2>1, Zenon DEF TypeOK
  <2>7. Single => Single'
    <3>1. \A p \in requests' : p \in requests \ {q} \/ p \in Abandon({q})
      BY <1>6, Zenon DEF Lose, GiveUp
    <3>2. \A p \in Abandon({q}) : p = [q EXCEPT !.waiting = FALSE] /\ p.stage = q.stage
      BY <2>2, Zenon DEF Abandon, Same
    <3> QED
      BY <3>1, <3>2, Zenon DEF Single
  <2> QED
    BY <2>1, <2>3, <2>4, <2>5, <2>6, <2>7, FaultStep, Zenon
<1>7. ASSUME NEW d \in Devices, RunnerUpload(d) \/ ReaderUpload(d)
      PROVE  IInv'
  <2>1. CASE RunnerUpload(d)
    BY <2>1, UploadStep, SMT DEF RunnerUpload
  <2>2. CASE ReaderUpload(d)
    BY <2>2, UploadStep, SMT DEF ReaderUpload
  <2> QED
    BY <1>7, <2>1, <2>2
<1> QED
  BY <1>1, <1>2, <1>3, <1>4, <1>5, <1>6, <1>7, GetStep, ApplyGetStep,
     LoadStep, SaveStep, AcknowledgeStep, Zenon DEF Next

\* The invariant holds at the start.
LEMMA InitSafe == Init => IInv
<1> SUFFICES ASSUME Init PROVE IInv
  OBVIOUS
<1>1. TypeOK
  <2>1. [locator |-> NoPosition, at |-> 0] \in Resume /\ 0 \in Stamps /\ 1 \in 1 .. MaxTime
    BY ProgressAssumption, SMT DEF Resume, Places, Stamps
  <2> QED
    BY <2>1, Nulls, ProgressAssumption, SMT DEF Init, TypeOK
<1>2. Known /\ Answers /\ Fenced /\ Owned /\ NoReadingForgotten /\ Serial
  BY SMT DEF Init, Known, Answers, Fenced, Owned, NoReadingForgotten, NoRow, NoGet, Closed,
             Serial, Single
<1>3. Current /\ NewestWins /\ CleanIsCurrent
  BY SMT DEF Init, Current, NewestWins, CleanIsCurrent, NoStored, NoGet, NoRow
<1> QED
  BY <1>1, <1>2, <1>3 DEF IInv

\* The inductive invariant holds in every reachable state.
LEMMA Inductive == Spec => []IInv
<1>1. IInv /\ [Next]_vars => IInv'
  <2> SUFFICES ASSUME IInv, [Next]_vars PROVE IInv'
    OBVIOUS
  <2>1. CASE Next
    BY <2>1, NextSafe
  <2>2. CASE UNCHANGED vars
    <3>1. UNCHANGED <<now, row, resume, reader, gets, requests, server, faults, latest, judged>>
      BY <2>2, Zenon DEF vars, device, history
    <3>2. TypeOK' /\ Known' /\ Answers' /\ Fenced' /\ Owned' /\ NoReadingForgotten'
      BY <3>1, Zenon DEF IInv, TypeOK, Known, Answers, Fenced, Owned, NoReadingForgotten
    <3>3. Current' /\ Serial' /\ (~Overlap => NewestWins' /\ CleanIsCurrent')
      BY <3>1, Zenon DEF IInv, Current, Serial, Single, NewestWins, CleanIsCurrent
    <3> QED
      BY <3>2, <3>3 DEF IInv
  <2> QED
    BY <2>1, <2>2
<1> QED
  BY InitSafe, <1>1, PTL DEF Spec

\* Every reachable state is well typed.
THEOREM ProgressTyped == Spec => []TypeOK
<1>1. IInv => TypeOK
  BY DEF IInv
<1> QED
  BY Inductive, <1>1, PTL

\* However requests, answers, crashes and late responses interleave, and whether or
\* not the server overlaps its writes, no device counts a reading as saved that
\* the server has not compared with its own position.
THEOREM ReadingsKept == Spec => []NoReadingForgotten
<1>1. IInv => NoReadingForgotten
  BY DEF IInv
<1> QED
  BY Inductive, <1>1, PTL

\* Where two writes of one book do not overlap on the server, the most recent
\* reading wins: the server holds every reading it has compared, or a later one.
THEOREM MostRecentWins == ~Overlap /\ Spec => []NewestWins
<1>1. CASE Overlap
  BY <1>1
<1>2. CASE ~Overlap
  <2>1. IInv => NewestWins
    BY <1>2 DEF IInv
  <2> QED
    BY Inductive, <2>1, PTL
<1> QED
  BY <1>1, <1>2

\* ... and a clean row of a device shows the last reading made on it, or a later
\* one from elsewhere.
THEOREM CleanRowsCurrent == ~Overlap /\ Spec => []CleanIsCurrent
<1>1. CASE Overlap
  BY <1>1
<1>2. CASE ~Overlap
  <2>1. IInv => CleanIsCurrent
    BY <1>2 DEF IInv
  <2> QED
    BY Inductive, <2>1, PTL
<1> QED
  BY <1>1, <1>2
=============================================================================
