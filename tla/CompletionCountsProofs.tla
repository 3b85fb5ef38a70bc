----------------------- MODULE CompletionCountsProofs -----------------------
(***************************************************************************)
(* Safety of CompletionCounts for every set of tabs, books and dates and   *)
(* every bound.  The argument:                                             *)
(*                                                                         *)
(*  - the queue holds the last edit of a book, and what is under way is    *)
(*    that edit or an earlier one (Pending, Flight);                       *)
(*  - a book with nothing queued has had its last edit handled, so what    *)
(*    the server holds may be shown (Held, Calm);                          *)
(*  - a book leaves the queue only together with a new revision, so a GET  *)
(*    whose revision is still current was answered with such a date, or    *)
(*    the date is still covered by the queue (Fresh);                      *)
(*  - an acknowledgment is younger than every aggregate stored before it,  *)
(*    and covers those; the later ones are Fresh (Calm).                   *)
(***************************************************************************)
EXTENDS CompletionCounts, TLAPS

Ordered ==
  /\ fence <= revision
  /\ \A b \in Books : /\ reached[b] <= edited[b] /\ edited[b] <= fence
                      /\ changes[b].revision <= fence
  /\ \A v \in {"home", "shelf"} : views[v].revision <= revision
  /\ \A g \in gets : g.revision <= Current(g.kind)

\* The queue holds last edits, of cached books.
Pending ==
  \A m \in queue : /\ m.book \in DOMAIN rows
                   /\ m.revision = edited[m.book] /\ m.value \in mayShow[m.book]

\* An edit of the book: the last one or an earlier one.
Known(m) ==
  /\ m.revision <= edited[m.book]
  /\ m.revision = edited[m.book] => m.value \in mayShow[m.book]

\* One drain, and what its stage says of the server.
Flight ==
  /\ \A m \in strays : Known(m)
  /\ \A r, s \in drains : r = s
  /\ \A r \in drains :
       /\ Known(r.head)
       /\ r.head.book \in DOMAIN server => Queued(r.head.book)
       /\ r.stage = "sent" =>
            /\ reached[r.head.book] <= r.head.revision
            /\ \A m \in strays : m.book = r.head.book => m.revision <= r.head.revision
       /\ r.stage = "saved" => r.head.revision <= reached[r.head.book]
       /\ r.stage = "dropped" => r.head.book \notin DOMAIN server

Held ==
  \A b \in DOMAIN server :
    b \in DOMAIN rows /\ (Arrived(b) => server[b] \in mayShow[b])

\* An aggregate that no acknowledgment covers shows the book as it may be shown.
Covered(v, b) ==
  b \in DOMAIN views[v].dates /\ changes[b].revision <= views[v].revision
    => views[v].dates[b] \in mayShow[b]

Calm ==
  \A b \in DOMAIN server : ~Queued(b) =>
    /\ Arrived(b)
    /\ rows[b] \in mayShow[b]
    /\ changes[b].revision = 0 => NoDate \in mayShow[b]
    /\ changes[b].revision > 0 => changes[b].value \in mayShow[b]
    /\ \A v \in {"home", "shelf"} : Covered(v, b)

\* A response that would be admitted.
FreshGet(g) ==
  /\ g.kind = "seed" => g.dates = Unread /\ g.revision = 0
  /\ g.kind \in Lists => DOMAIN server \subseteq DOMAIN g.dates
  /\ g.kind \in Books => /\ DOMAIN g.dates \subseteq {g.kind}
                         /\ DOMAIN g.dates = {} => g.kind \notin DOMAIN server
  /\ g.kind # "seed" /\ g.revision = Current(g.kind) =>
       \A b \in DOMAIN server : b \in DOMAIN g.dates /\ ~Queued(b)
                                  => g.dates[b] \in mayShow[b]
  /\ g.kind = "home" /\ g.revision = revision => DOMAIN g.dates \cap deleted = {}

Fresh == \A g \in gets : IF g.answered THEN FreshGet(g) ELSE g.kind # "seed"

IInv ==
  /\ TypeOK /\ Ordered /\ Pending /\ Flight /\ Held /\ Calm /\ Fresh
  /\ EditsKept /\ DeletedStaysGone

-----------------------------------------------------------------------------
(* Typing.                                                                 *)

\* A payload gives dates to some books.
LEMMA PayloadIs ==
  ASSUME NEW p \in Payload
  PROVE  DOMAIN p \subseteq Books /\ p \in [DOMAIN p -> Dates]
BY DEF Payload

\* Dates given to some books are a payload.
LEMMA PayloadOf ==
  ASSUME NEW bs \in SUBSET Books, NEW p \in [bs -> Dates]
  PROVE  p \in Payload
BY DEF Payload

\* A payload with one date changed, or without some books.
LEMMA PayloadChanged ==
  ASSUME NEW p \in Payload, NEW b \in DOMAIN p, NEW d \in Dates
  PROVE  [p EXCEPT ![b] = d] \in Payload
BY PayloadIs, PayloadOf

LEMMA PayloadLess ==
  ASSUME NEW p \in Payload, NEW bs \in SUBSET DOMAIN p
  PROVE  [b \in bs |-> p[b]] \in Payload
BY PayloadIs, PayloadOf

\* The values no action builds from others.
LEMMA Nulls ==
  Unread \in Payload /\ Nothing \in Payload /\ NoChange \in Change
<1>1. Unread \in [Books -> Dates] /\ Nothing \in [{} -> Dates]
  BY CompletionAssumption DEF Unread, Nothing
<1> QED
  BY <1>1, PayloadOf, CompletionAssumption DEF NoChange, Change

\* What a request may be stored as.
LEMMA MergedTyped ==
  ASSUME TypeOK, NEW g \in gets
  PROVE  /\ Merged(g) \in Payload /\ DOMAIN Merged(g) = DOMAIN rows \cup DOMAIN g.dates
         /\ [revision |-> g.revision, dates |-> g.dates] \in View
<1>1. g.dates \in Payload /\ g.revision \in Nat /\ rows \in Payload
  BY DEF TypeOK, Get
<1>2. /\ DOMAIN rows \subseteq Books /\ \A b \in DOMAIN rows : rows[b] \in Dates
      /\ DOMAIN g.dates \subseteq Books /\ \A b \in DOMAIN g.dates : g.dates[b] \in Dates
  BY <1>1, PayloadIs
<1>3. \A b \in Books : changes[b].value \in Dates
  BY DEF TypeOK, Change
<1>4. Merged(g) \in [DOMAIN rows \cup DOMAIN g.dates -> Dates]
  BY <1>2, <1>3 DEF Merged
<1> QED
  BY <1>1, <1>2, <1>4, PayloadOf DEF View

\* Home stays a view when books are taken out of it.
LEMMA HomeTyped ==
  ASSUME TypeOK, NEW bs
  PROVE  HomeWithout(bs) \in View
<1>1. views["home"] \in View
  BY DEF TypeOK
<1>2. views["home"].revision \in Nat /\ views["home"].dates \in Payload
  BY <1>1 DEF View
<1> QED
  BY <1>2, PayloadLess DEF HomeWithout, View

\* Removing books keeps the tables' types.
LEMMA RemoveTyped ==
  ASSUME TypeOK, NEW bs \in SUBSET Books, RemoveBooks(bs)
  PROVE  /\ revision' \in Nat /\ fence' \in Nat /\ deleted' \in SUBSET Books
         /\ queue' \in SUBSET Mutation /\ (\A m, q \in queue' : m.book = q.book => m = q)
         /\ changes' \in [Books -> Change] /\ failed' \in SUBSET Books
BY Nulls DEF TypeOK, RemoveBooks, Unqueued

\* The server takes a date.
LEMMA WriteTyped ==
  ASSUME TypeOK, NEW m \in Mutation, m.book \in DOMAIN server, Write(m)
  PROVE  /\ server' \in Payload /\ DOMAIN server' = DOMAIN server
         /\ edited' \in [Books -> Nat] /\ reached' \in [Books -> Nat]
         /\ mayShow' \in [Books -> SUBSET Dates]
<1>1. m.book \in Books /\ m.value \in Dates /\ m.revision \in Nat
  BY DEF Mutation
<1>2. server' \in Payload /\ DOMAIN server' = DOMAIN server
  BY <1>1, PayloadChanged DEF Write, TypeOK
<1>3. reached' \in [Books -> Nat] /\ mayShow' \in [Books -> SUBSET Dates]
  BY <1>1 DEF Write, TypeOK
<1> QED
  BY <1>2, <1>3 DEF Write, TypeOK

\* Every step keeps the types.
LEMMA TypeStep == TypeOK /\ Fresh /\ [Next]_vars => TypeOK'
<1> SUFFICES ASSUME TypeOK, Fresh, [Next]_vars PROVE TypeOK'
  OBVIOUS
<1>1. ASSUME NEW b \in Books, NEW d \in Dates, Edit(b, d) PROVE TypeOK'
  <2> DEFINE q == IF Queued(b) THEN QueuedOf(b).queuedAt ELSE revision + 1
             m == [book |-> b, value |-> d, revision |-> revision + 1, queuedAt |-> q]
  <2>1. q \in Nat
    <3>1. CASE Queued(b)
      <4>1. QueuedOf(b) \in queue
        BY <3>1 DEF Queued, QueuedOf
      <4> QED
        BY <3>1, <4>1 DEF TypeOK, Mutation
    <3>2. CASE ~Queued(b)
      BY <3>2 DEF TypeOK
    <3> QED
      BY <3>1, <3>2
  <2>2. m \in Mutation /\ m.book = b
    BY <2>1 DEF TypeOK, Mutation
  <2>3. queue' = {x \in queue : x.book # b} \cup {m}
    BY <1>1 DEF Edit, Put
  <2> HIDE DEF m
  <2>4. queue' \in SUBSET Mutation /\ (\A x, y \in queue' : x.book = y.book => x = y)
    BY <2>2, <2>3 DEF TypeOK
  <2> QED
    BY <1>1, <2>4 DEF TypeOK, Edit, network
<1>2. ASSUME NEW b \in Books, NEW d \in Dates, OtherEdit(b, d) PROVE TypeOK'
  <2>1. server' \in Payload
    BY <1>2, PayloadChanged DEF OtherEdit, TypeOK
  <2>2. others' \in Nat /\ mayShow' \in [Books -> SUBSET Dates]
    BY <1>2 DEF OtherEdit, Other, TypeOK
  <2> QED
    BY <1>2, <2>1, <2>2 DEF TypeOK, OtherEdit, db, network
<1>3. ASSUME NEW b \in Books, Delete(b) PROVE TypeOK'
  <2>1. server' \in Payload
    BY <1>3, PayloadLess DEF Delete, TypeOK
  <2>2. others' \in Nat
    BY <1>3 DEF Delete, Other, TypeOK
  <2> QED
    BY <1>3, <2>1, <2>2 DEF TypeOK, Delete, db, network, history
<1>4. ASSUME NEW t \in Tabs, Send(t) PROVE TypeOK'
  <2>1. PICK m \in queue : drains' = drains \cup {[tab |-> t, stage |-> "sent", head |-> m]}
    BY <1>4 DEF Send
  <2>2. drains' \in SUBSET Drain
    BY <2>1 DEF TypeOK, Drain
  <2> QED
    BY <1>4, <2>2 DEF TypeOK, Send, db, history
<1>5. ASSUME NEW r \in drains, Handle(r) PROVE TypeOK'
  <2>1. r \in Drain /\ r.head \in Mutation /\ r.tab \in Tabs
    BY DEF TypeOK, Drain
  <2>2. \A stage \in {"saved", "dropped"} : Answered(r, stage) => drains' \in SUBSET Drain
    BY <2>1 DEF Answered, TypeOK, Drain
  <2>3. CASE r.head.book \in DOMAIN server
    BY <1>5, <2>1, <2>2, <2>3, WriteTyped DEF Handle, TypeOK, db
  <2>4. CASE r.head.book \notin DOMAIN server
    BY <1>5, <2>2, <2>4 DEF Handle, TypeOK, db, history
  <2> QED
    BY <2>3, <2>4
<1>6. ASSUME NEW r \in drains, Acknowledge(r) PROVE TypeOK'
  <2>1. r.head \in Mutation
    BY DEF TypeOK, Drain
  <2>2. drains' \in SUBSET Drain
    BY <1>6 DEF Acknowledge, TypeOK
  <2>3. CASE r.head.book \in deleted
    BY <1>6, <2>2, <2>3 DEF Acknowledge, TypeOK, db, history
  <2>4. CASE r.head.book \notin deleted
    <3> DEFINE m == r.head
    <3>1. Record(m, r.stage = "saved")
      BY <1>6, <2>4 DEF Acknowledge
    <3>2. m.book \in Books /\ m.value \in Dates
      BY <2>1 DEF Mutation
    <3> HIDE DEF m
    <3>3. /\ revision' \in Nat /\ fence' \in Nat /\ deleted' = deleted /\ views' = views
          /\ queue' \in SUBSET Mutation /\ (\A x, y \in queue' : x.book = y.book => x = y)
          /\ failed' \in SUBSET Books
      BY <3>1, <3>2 DEF Record, Settled, TypeOK
    <3>4. rows' \in Payload
      <4>1. m.book \in DOMAIN rows => [rows EXCEPT ![m.book] = m.value] \in Payload
        BY <3>2, PayloadChanged DEF TypeOK
      <4>2. m.book \notin DOMAIN rows => [rows EXCEPT ![m.book] = m.value] = rows
        <5>1. rows \in [DOMAIN rows -> Dates]
          BY PayloadIs DEF TypeOK
        <5> QED
          BY <5>1
      <4> QED
        BY <3>1, <4>1, <4>2 DEF Record, TypeOK
    <3>5. changes' \in [Books -> Change]
      BY <3>1, <3>2 DEF Record, TypeOK, Change
    <3> QED
      BY <1>6, <2>2, <3>3, <3>4, <3>5 DEF Acknowledge, TypeOK, history
  <2> QED
    BY <2>3, <2>4
<1>7. ASSUME NEW r \in drains, Lose(r) PROVE TypeOK'
  BY <1>7 DEF Lose, Fault, TypeOK, Drain, db, history
<1>8. ASSUME NEW m \in strays, HandleStray(m) PROVE TypeOK'
  <2>1. m \in Mutation
    BY DEF TypeOK
  <2>2. CASE m.book \in DOMAIN server
    BY <1>8, <2>1, <2>2, WriteTyped DEF HandleStray, TypeOK, db
  <2>3. CASE m.book \notin DOMAIN server
    BY <1>8, <2>3 DEF HandleStray, TypeOK, db, history
  <2> QED
    BY <2>2, <2>3
<1>9. ASSUME NEW kind \in Lists \cup Books, Request(kind) PROVE TypeOK'
  <2>1. Current(kind) \in Nat
    BY DEF Current, TypeOK
  <2>2. [kind |-> kind, revision |-> Current(kind),
         answered |-> FALSE, dates |-> Nothing] \in Get
    BY <2>1, Nulls DEF Get
  <2>3. gets' \in SUBSET Get
    BY <1>9, <2>2 DEF Request, TypeOK
  <2> QED
    BY <1>9, <2>3 DEF TypeOK, Request, db, history
<1>10. ASSUME NEW g \in gets, Respond(g) PROVE TypeOK'
  <2>1. [b \in Named(g.kind) |-> server[b]] \in Payload
    BY PayloadLess DEF Named, TypeOK
  <2> DEFINE a == [kind |-> g.kind, revision |-> g.revision, answered |-> TRUE,
                   dates |-> [b \in Named(g.kind) |-> server[b]]]
  <2>3. a \in Get
    <3>1. g \in Get
      BY DEF TypeOK
    <3> QED
      BY <2>1, <3>1 DEF Get
  <2>2. gets' \in SUBSET Get
    BY <1>10, <2>3 DEF Respond, TypeOK
  <2> QED
    BY <1>10, <2>2 DEF TypeOK, Respond, db, history
<1>11. ASSUME NEW g \in gets, LoseGet(g) PROVE TypeOK'
  BY <1>11 DEF LoseGet, Fault, TypeOK, db, history
<1>12. ASSUME NEW g \in gets, Apply(g) PROVE TypeOK'
  <2>1. g \in Get /\ g.dates \in Payload
    BY DEF TypeOK, Get
  <2>2. gets' \in SUBSET Get
    BY <1>12 DEF Apply, TypeOK
  <2>3. ASSUME ApplyCollection(g) PROVE TypeOK'
    <3>1. rows' \in Payload /\ views' \in [{"home", "shelf"} -> View]
      BY <2>3, MergedTyped DEF ApplyCollection, Store, TypeOK
    <3> QED
      BY <1>12, <2>2, <2>3, <3>1 DEF Apply, ApplyCollection, TypeOK, history
  <2>4. CASE NotFound(g) /\ ApplyNotFound(g.kind)
    <3>1. g.kind \in Books
      BY <2>4 DEF NotFound
    <3>2. rows' \in Payload
      BY <2>4, PayloadLess DEF ApplyNotFound, TypeOK
    <3>3. views' \in [{"home", "shelf"} -> View]
      BY <2>4, HomeTyped DEF ApplyNotFound, TypeOK
    <3> QED
      BY <1>12, <2>2, <2>4, <3>1, <3>2, <3>3, RemoveTyped
         DEF Apply, ApplyNotFound, TypeOK, history
  <2>5. CASE UNCHANGED db
    BY <1>12, <2>2, <2>5 DEF Apply, TypeOK, db, history
  <2>6. CASE ApplyHome(g)
    <3>1. views' \in [{"home", "shelf"} -> View]
      BY <2>6, MergedTyped DEF ApplyHome, Store, TypeOK
    <3> QED
      BY <1>12, <2>2, <2>6, <3>1 DEF Apply, ApplyHome, TypeOK, history
  <2>7. CASE ApplyLibrary(g)
    <3>1. CASE ApplyCollection(g)
      BY <2>3, <3>1
    <3>2. CASE ~ApplyCollection(g)
      <4>1. /\ RemoveBooks(Absent(g))
            /\ rows' = [b \in DOMAIN g.dates |-> Merged(g)[b]]
            /\ views' = [v \in {"home", "shelf"} |->
                           IF v = "home" THEN HomeWithout(Absent(g))
                           ELSE [revision |-> g.revision, dates |-> g.dates]]
        BY <2>7, <3>2 DEF ApplyLibrary
      <4>2. Absent(g) \in SUBSET Books
        BY PayloadIs DEF Absent, TypeOK
      <4>3. rows' \in Payload
        BY <4>1, MergedTyped, PayloadLess
      <4>4. views' \in [{"home", "shelf"} -> View]
        BY <4>1, MergedTyped, HomeTyped
      <4> QED
        BY <1>12, <2>2, <4>1, <4>2, <4>3, <4>4, RemoveTyped DEF Apply, TypeOK, history
    <3> QED
      BY <3>1, <3>2
  <2>8. CASE ~NotFound(g) /\ g.kind \in Books /\ ApplyInfo(g)
    <3>1. g.kind \in DOMAIN g.dates => g.dates[g.kind] \in Dates
      BY <2>1, PayloadIs
    <3>2. rows' \in Payload
      <4>1. g.kind \in DOMAIN g.dates
        <5>1. FreshGet(g)
          BY <1>12 DEF Apply, Fresh
        <5> QED
          BY <2>8, <5>1 DEF FreshGet, NotFound
      <4>2. rows' \in [DOMAIN rows \cup {g.kind} -> Dates]
        BY <2>8, <3>1, <4>1, PayloadIs DEF ApplyInfo, TypeOK
      <4>3. DOMAIN rows \cup {g.kind} \in SUBSET Books
        BY <2>8, PayloadIs DEF TypeOK
      <4> QED
        BY <4>2, <4>3, PayloadOf
    <3> QED
      BY <1>12, <2>2, <2>8, <3>2 DEF Apply, ApplyInfo, TypeOK, history
  <2> QED
    BY <1>12, <2>3, <2>4, <2>5, <2>6, <2>7, <2>8 DEF Apply
<1>13. CASE UNCHANGED vars
  BY <1>13 DEF TypeOK, vars, db, network, history
<1> QED
  BY <1>1, <1>2, <1>3, <1>4, <1>5, <1>6, <1>7, <1>8, <1>9, <1>10, <1>11, <1>12, <1>13
     DEF Next, DrainStep

-----------------------------------------------------------------------------
(* The invariant, one lemma for every kind of step.                        *)

\* What holds at the start.
LEMMA InitInv == Init => IInv
<1> SUFFICES ASSUME Init PROVE IInv
  OBVIOUS
<1>1. TypeOK
  <2>1. views \in [{"home", "shelf"} -> View]
    BY Nulls DEF Init, View
  <2>2. gets \in SUBSET Get
    BY Nulls DEF Init, Seed, Get
  <2> QED
    BY <2>1, <2>2, Nulls, CompletionAssumption DEF Init, TypeOK
<1>2. Ordered /\ Pending /\ Flight /\ Held
  BY CompletionAssumption
     DEF Init, Seed, Ordered, Pending, Flight, Held, Unread, NoChange, Current
<1>3. Calm
  BY DEF Init, Calm, Covered, Arrived, Unread, NoChange
<1>4. Fresh
  BY CompletionAssumption DEF Init, Seed, Fresh, FreshGet, Lists
<1>5. EditsKept /\ DeletedStaysGone
  BY DEF Init, EditsKept, DeletedStaysGone, Arrived
<1> QED
  BY <1>1, <1>2, <1>3, <1>4, <1>5 DEF IInv

\* A local edit covers everything its book showed, and outdates every GET.
LEMMA EditStep ==
  ASSUME IInv, TypeOK', NEW b \in Books, NEW d \in Dates, Edit(b, d)
  PROVE  IInv'
<1> USE DEF IInv
<1>1. PICK m \in Mutation :
        /\ queue' = {q \in queue : q.book # b} \cup {m}
        /\ m.book = b /\ m.value = d /\ m.revision = revision + 1
  <2> DEFINE x == [book |-> b, value |-> d, revision |-> revision + 1,
                   queuedAt |-> IF Queued(b) THEN QueuedOf(b).queuedAt ELSE revision + 1]
  <2>1. queue' = {q \in queue : q.book # b} \cup {x}
    BY DEF Edit, Put
  <2>2. x \in Mutation
    BY <2>1 DEF TypeOK
  <2> QED
    BY <2>1, <2>2
<1>2. /\ revision' = revision + 1 /\ fence' = revision + 1
      /\ edited' = [edited EXCEPT ![b] = revision + 1]
      /\ mayShow' = [mayShow EXCEPT ![b] = {d}]
      /\ failed' = failed \ {b} /\ b \in DOMAIN rows
      /\ UNCHANGED <<deleted, rows, changes, views, drains, strays, gets, server, reached>>
  BY DEF Edit, network
<1>3. Ordered'
  BY <1>2 DEF Ordered, TypeOK, Current, Get, View, Change
<1>4. Pending'
  BY <1>1, <1>2 DEF Pending, TypeOK, Ordered, Mutation
<1>5. \A c \in Books : c # b => edited'[c] = edited[c] /\ mayShow'[c] = mayShow[c]
  BY <1>2 DEF TypeOK
<1>6. \A x \in Mutation : Known(x) => Known(x)'
  BY <1>2 DEF Known, TypeOK, Ordered, Mutation
<1>8. Queued(b)' /\ (\A c \in Books : c # b => (Queued(c)' <=> Queued(c)))
  BY <1>1 DEF Queued
<1>7. Flight'
  BY <1>2, <1>6, <1>8 DEF Flight, TypeOK, Drain, Mutation
<1>9. ~Arrived(b)' /\ (\A c \in Books : c # b => (Arrived(c)' <=> Arrived(c)))
  BY <1>2 DEF Arrived, TypeOK, Ordered
<1>10. DOMAIN server \subseteq Books
  BY PayloadIs DEF TypeOK
<1>11. Held'
  BY <1>2, <1>5, <1>9, <1>10 DEF Held
<1>12. Calm'
  BY <1>2, <1>5, <1>8, <1>9, <1>10 DEF Calm, Covered
<1>13. Fresh'
  <2> SUFFICES ASSUME NEW g \in gets, g.answered PROVE FreshGet(g)'
    BY <1>2 DEF Fresh
  <2>1. FreshGet(g) /\ g.revision <= Current(g.kind) /\ g \in Get
    BY DEF Fresh, Ordered, TypeOK
  <2>2. g.revision # Current(g.kind)' /\ g.revision # revision'
    BY <1>2, <2>1 DEF Current, TypeOK, Ordered, Get
  <2> QED
    BY <1>2, <2>1, <2>2 DEF FreshGet
<1>14. EditsKept'
  BY <1>1, <1>2, <1>5, <1>9 DEF EditsKept, TypeOK
<1>15. DeletedStaysGone'
  BY <1>1, <1>2, <1>8 DEF DeletedStaysGone, TypeOK
<1> QED
  BY <1>3, <1>4, <1>7, <1>11, <1>12, <1>13, <1>14, <1>15

\* The server takes an edit that is known: what it may show from then on.
LEMMA WriteFacts ==
  ASSUME IInv, NEW m \in Mutation, m.book \in DOMAIN server, Known(m), Write(m)
  PROVE  /\ DOMAIN server' = DOMAIN server
         /\ edited' = edited
         /\ \A b \in Books : /\ mayShow[b] \subseteq mayShow'[b]
                             /\ reached[b] <= reached'[b] /\ reached'[b] <= edited'[b]
         /\ m.revision <= reached'[m.book]
         /\ \A b \in Books : b # m.book => reached'[b] = reached[b]
         /\ \A b \in Books : reached'[b] # reached[b] => reached'[b] = m.revision
         /\ \A b \in DOMAIN server : Arrived(b)' => server'[b] \in mayShow'[b]
<1> USE DEF IInv
<1>1. m.book \in Books /\ m.revision \in Nat /\ DOMAIN server \subseteq Books
  BY PayloadIs DEF Mutation, TypeOK
<1>2. DOMAIN server' = DOMAIN server /\ edited' = edited
  BY DEF Write
<1>3. /\ reached' = [reached EXCEPT ![m.book] = IF m.revision > @ THEN m.revision ELSE @]
      /\ mayShow' = IF Arrived(m.book) \/ m.revision = edited[m.book]
                    THEN [mayShow EXCEPT ![m.book] = @ \cup {m.value}] ELSE mayShow
      /\ server' = [server EXCEPT ![m.book] = m.value]
  BY DEF Write
<1>4. \A b \in Books : reached[b] \in Nat /\ edited[b] \in Nat /\ reached[b] <= edited[b]
  BY DEF TypeOK, Ordered
<1>5. \A b \in Books : mayShow[b] \subseteq mayShow'[b]
  BY <1>1, <1>3 DEF TypeOK
<1>6. \A b \in Books : b # m.book => reached'[b] = reached[b] /\ mayShow'[b] = mayShow[b]
  BY <1>1, <1>3 DEF TypeOK
<1>7. reached'[m.book] = IF m.revision > reached[m.book] THEN m.revision ELSE reached[m.book]
  BY <1>1, <1>3 DEF TypeOK
<1>8. m.revision <= edited[m.book]
  BY DEF Known
<1>9. ASSUME NEW b \in DOMAIN server, Arrived(b)' PROVE server'[b] \in mayShow'[b]
  <2>1. CASE b # m.book
    <3>1. Arrived(b) /\ server'[b] = server[b]
      BY <1>1, <1>2, <1>3, <1>6, <1>9, <2>1 DEF Arrived
    <3> QED
      BY <1>1, <1>6, <2>1, <3>1 DEF Held
  <2>2. CASE b = m.book
    <3>1. Arrived(m.book) \/ m.revision = edited[m.book]
      BY <1>1, <1>2, <1>4, <1>7, <1>8, <1>9, <2>2 DEF Arrived
    <3>2. server'[b] = m.value
      BY <1>3, <2>2
    <3>3. mayShow'[m.book] = mayShow[m.book] \cup {m.value}
      BY <1>1, <1>3, <3>1 DEF TypeOK
    <3> QED
      BY <2>2, <3>2, <3>3
  <2> QED
    BY <2>1, <2>2
<1> QED
  BY <1>1, <1>2, <1>4, <1>5, <1>6, <1>7, <1>8, <1>9

\* The server's dates change, and nothing on this device: what may be shown grows.
LEMMA ServerTakes ==
  ASSUME IInv, TypeOK', UNCHANGED db, UNCHANGED gets,
         DOMAIN server' = DOMAIN server, edited' = edited,
         \A b \in Books : /\ mayShow[b] \subseteq mayShow'[b]
                         /\ reached[b] <= reached'[b] /\ reached'[b] <= edited'[b],
         \A b \in DOMAIN server : Arrived(b)' => server'[b] \in mayShow'[b]
  PROVE  /\ (Ordered /\ Pending /\ Held /\ Calm /\ Fresh)'
         /\ (EditsKept /\ DeletedStaysGone)'
         /\ \A x \in Mutation : Known(x) => Known(x)'
         /\ \A b : Queued(b)' <=> Queued(b)
<1> USE DEF IInv
<1>1. UNCHANGED <<revision, fence, deleted, queue, rows, changes, failed, views, gets>>
  BY DEF db
<1>2. DOMAIN server \subseteq Books
  BY PayloadIs DEF TypeOK
<1>3. (\A b : Queued(b)' <=> Queued(b)) /\ (\A b \in Books : Arrived(b) => Arrived(b)')
  <2>1. \A b \in Books : reached[b] \in Nat /\ reached'[b] \in Nat /\ edited[b] \in Nat
    BY DEF TypeOK
  <2> QED
    BY <1>1, <2>1 DEF Queued, Arrived
<1>4. Ordered' /\ Pending'
  BY <1>1 DEF Ordered, Pending, Current, TypeOK, Mutation
<1>5. Held'
  BY <1>1 DEF Held
<1>6. Calm'
  BY <1>1, <1>2, <1>3 DEF Calm, Covered
<1>7. Fresh'
  <2> SUFFICES ASSUME NEW g \in gets, g.answered PROVE FreshGet(g)'
    BY <1>1 DEF Fresh
  <2>1. FreshGet(g)
    BY DEF Fresh
  <2> QED
    BY <1>1, <1>2, <1>3, <2>1 DEF FreshGet, Current
<1>8. EditsKept' /\ DeletedStaysGone'
  BY <1>1, <1>3 DEF EditsKept, DeletedStaysGone, TypeOK
<1>9. \A x \in Mutation : Known(x) => Known(x)'
  BY <1>1 DEF Known, Mutation
<1> QED
  BY <1>3, <1>4, <1>5, <1>6, <1>7, <1>8, <1>9

\* Another device's finish date.
LEMMA OtherEditStep ==
  ASSUME IInv, TypeOK', NEW b \in Books, NEW d \in Dates, OtherEdit(b, d)
  PROVE  IInv'
<1> USE DEF IInv
<1>1. /\ server' = [server EXCEPT ![b] = d] /\ b \in DOMAIN server
      /\ mayShow' = IF Arrived(b) THEN [mayShow EXCEPT ![b] = @ \cup {d}] ELSE mayShow
      /\ UNCHANGED db /\ UNCHANGED <<drains, strays, gets, edited, reached>>
  BY DEF OtherEdit, network
<1>2. DOMAIN server' = DOMAIN server /\ DOMAIN server \subseteq Books
  BY <1>1, PayloadIs DEF TypeOK
<1>3. \A c \in Books : /\ mayShow[c] \subseteq mayShow'[c]
                      /\ reached[c] <= reached'[c] /\ reached'[c] <= edited'[c]
  BY <1>1 DEF TypeOK, Ordered
<1>4. \A c \in DOMAIN server : Arrived(c)' => server'[c] \in mayShow'[c]
  <2> SUFFICES ASSUME NEW c \in DOMAIN server, Arrived(c) PROVE server'[c] \in mayShow'[c]
    BY <1>1 DEF Arrived
  <2>1. CASE c = b
    BY <1>1, <2>1 DEF TypeOK
  <2>2. CASE c # b
    BY <1>1, <1>2, <1>3, <2>2 DEF Held
  <2> QED
    BY <2>1, <2>2
<1>5. /\ (Ordered /\ Pending /\ Held /\ Calm /\ Fresh)' /\ (EditsKept /\ DeletedStaysGone)'
      /\ \A x \in Mutation : Known(x) => Known(x)'
      /\ \A c : Queued(c)' <=> Queued(c)
  BY <1>1, <1>2, <1>3, <1>4, ServerTakes
<1>6. Flight'
  BY <1>1, <1>2, <1>5 DEF Flight, TypeOK, Drain
<1> QED
  BY <1>5, <1>6

\* A book is deleted: there is only less to show.
LEMMA DeleteStep ==
  ASSUME IInv, TypeOK', NEW b \in Books, Delete(b)
  PROVE  IInv'
<1> USE DEF IInv
<1>1. /\ server' = [c \in DOMAIN server \ {b} |-> server[c]]
      /\ UNCHANGED <<revision, fence, deleted, queue, rows, changes, failed, views>>
      /\ UNCHANGED <<drains, strays, gets, edited, reached, mayShow>>
  BY DEF Delete, db, network, history
<1>2. DOMAIN server' \subseteq DOMAIN server /\ \A c \in DOMAIN server' : server'[c] = server[c]
  BY <1>1
<1>3. (\A c : Queued(c)' <=> Queued(c)) /\ (\A c : Arrived(c)' <=> Arrived(c))
  BY <1>1 DEF Queued, Arrived
<1>4. Ordered' /\ Pending'
  BY <1>1 DEF Ordered, Pending, Current
<1>5. Flight'
  BY <1>1, <1>2, <1>3 DEF Flight, Known
<1>6. Held' /\ Calm'
  BY <1>1, <1>2, <1>3 DEF Held, Calm, Covered
<1>7. Fresh'
  <2> SUFFICES ASSUME NEW g \in gets, g.answered PROVE FreshGet(g)'
    BY <1>1 DEF Fresh
  <2>1. FreshGet(g)
    BY DEF Fresh
  <2> QED
    BY <1>1, <1>2, <1>3, <2>1 DEF FreshGet, Current
<1>8. EditsKept' /\ DeletedStaysGone'
  BY <1>1, <1>2, <1>3 DEF EditsKept, DeletedStaysGone
<1> QED
  BY <1>4, <1>5, <1>6, <1>7, <1>8

\* The head of the queue is sent: it is the last edit of its book.
LEMMA SendStep ==
  ASSUME IInv, TypeOK', NEW t \in Tabs, Send(t)
  PROVE  IInv'
<1> USE DEF IInv
<1>1. PICK m \in queue : drains' = drains \cup {[tab |-> t, stage |-> "sent", head |-> m]}
  BY DEF Send
<1>2. /\ UNCHANGED <<revision, fence, deleted, queue, rows, changes, failed, views>>
      /\ UNCHANGED <<strays, gets, server, edited, reached, mayShow>>
      /\ drains = {}
  BY DEF Send, db, history, MayDrain
<1>3. /\ m \in Mutation /\ m.book \in Books /\ m.revision = edited[m.book]
      /\ m.value \in mayShow[m.book] /\ reached[m.book] <= edited[m.book]
      /\ Queued(m.book)
  BY DEF TypeOK, Pending, Ordered, Queued, Mutation
<1>4. (\A b : Queued(b)' <=> Queued(b)) /\ (\A b : Arrived(b)' <=> Arrived(b))
  BY <1>2 DEF Queued, Arrived
<1>5. Flight'
  <2> DEFINE r == [tab |-> t, stage |-> "sent", head |-> m]
  <2>1. drains' = {r} /\ r.head = m /\ r.stage = "sent"
    BY <1>1, <1>2
  <2>2. Known(m)' /\ (\A x \in strays : Known(x)')
    BY <1>2, <1>3 DEF Known, Flight, TypeOK, Mutation
  <2>3. \A x \in strays' : x.book = m.book => x.revision <= m.revision
    BY <1>2, <1>3, <2>2 DEF Known
  <2> HIDE DEF r
  <2> QED
    BY <1>2, <1>3, <1>4, <2>1, <2>2, <2>3 DEF Flight
<1>6. Ordered' /\ Pending' /\ Held' /\ Calm'
  BY <1>2, <1>4 DEF Ordered, Pending, Held, Calm, Covered, Current
<1>7. Fresh'
  BY <1>2, <1>4 DEF Fresh, FreshGet, Current
<1>8. EditsKept' /\ DeletedStaysGone'
  BY <1>2, <1>4 DEF EditsKept, DeletedStaysGone
<1> QED
  BY <1>5, <1>6, <1>7, <1>8

\* The server answers the drain.
LEMMA HandleStep ==
  ASSUME IInv, TypeOK', NEW r \in drains, Handle(r)
  PROVE  IInv'
<1> USE DEF IInv
<1>1. /\ UNCHANGED db /\ UNCHANGED strays /\ UNCHANGED gets /\ r.stage = "sent"
      /\ drains = {r} /\ r \in Drain /\ r.head \in Mutation /\ Known(r.head)
  BY DEF Handle, Flight, TypeOK, Drain
<1>2. \A stage : Answered(r, stage) =>
        \A s \in drains' : s.stage = stage /\ s.head = r.head
  BY <1>1 DEF Answered
<1>3. \A stage : Answered(r, stage) => \A s, u \in drains' : s = u
  BY <1>1 DEF Answered
<1>4. CASE r.head.book \in DOMAIN server
  <2>1. Write(r.head) /\ Answered(r, "saved")
    BY <1>4 DEF Handle
  <2>2. /\ (Ordered /\ Pending /\ Held /\ Calm /\ Fresh)' /\ (EditsKept /\ DeletedStaysGone)'
        /\ \A x \in Mutation : Known(x) => Known(x)'
        /\ \A b : Queued(b)' <=> Queued(b)
        /\ r.head.revision <= reached'[r.head.book] /\ DOMAIN server' = DOMAIN server
    BY <1>1, <1>4, <2>1, WriteFacts, ServerTakes
  <2>3. Flight'
    BY <1>1, <1>2, <1>3, <2>1, <2>2 DEF Flight, TypeOK
  <2> QED
    BY <2>2, <2>3
<1>5. CASE r.head.book \notin DOMAIN server
  <2>1. Answered(r, "dropped") /\ UNCHANGED <<server, history>>
    BY <1>5 DEF Handle
  <2>2. UNCHANGED <<server, edited, reached, mayShow>>
    BY <2>1 DEF history
  <2>3. /\ (Ordered /\ Pending /\ Held /\ Calm /\ Fresh)' /\ (EditsKept /\ DeletedStaysGone)'
        /\ \A x \in Mutation : Known(x) => Known(x)'
        /\ \A b : Queued(b)' <=> Queued(b)
    <3>1. \A b \in Books : reached[b] <= reached'[b] /\ reached'[b] <= edited'[b]
      BY <2>2 DEF TypeOK, Ordered
    <3>2. \A b \in DOMAIN server : Arrived(b)' => server'[b] \in mayShow'[b]
      BY <2>2 DEF Held, Arrived
    <3> QED
      BY <1>1, <2>2, <3>1, <3>2, ServerTakes
  <2>4. Flight'
    BY <1>1, <1>2, <1>3, <1>5, <2>1, <2>2, <2>3 DEF Flight, TypeOK
  <2> QED
    BY <2>3, <2>4
<1> QED
  BY <1>4, <1>5

\* A drain is lost, its request perhaps not.
LEMMA LoseStep ==
  ASSUME IInv, TypeOK', NEW r \in drains, Lose(r)
  PROVE  IInv'
<1> USE DEF IInv
<1>1. /\ UNCHANGED <<revision, fence, deleted, queue, rows, changes, failed, views>>
      /\ UNCHANGED <<gets, server, edited, reached, mayShow>>
      /\ drains' = drains \ {r} /\ strays' \subseteq strays \cup {r.head}
  BY DEF Lose, db, history
<1>2. (\A b : Queued(b)' <=> Queued(b)) /\ (\A b : Arrived(b)' <=> Arrived(b))
  BY <1>1 DEF Queued, Arrived
<1>3. Flight'
  <2>1. drains' = {}
    BY <1>1 DEF Flight
  <2>2. \A m \in strays' : Known(m)'
    BY <1>1 DEF Flight, Known
  <2> QED
    BY <2>1, <2>2 DEF Flight
<1>4. Ordered' /\ Pending' /\ Held' /\ Calm'
  BY <1>1, <1>2 DEF Ordered, Pending, Held, Calm, Covered, Current
<1>5. Fresh'
  BY <1>1, <1>2 DEF Fresh, FreshGet, Current
<1>6. EditsKept' /\ DeletedStaysGone'
  BY <1>1, <1>2 DEF EditsKept, DeletedStaysGone
<1> QED
  BY <1>3, <1>4, <1>5, <1>6

\* A request nobody waits for arrives: it is no younger than the one on its way.
LEMMA StrayStep ==
  ASSUME IInv, TypeOK', NEW m \in strays, HandleStray(m)
  PROVE  IInv'
<1> USE DEF IInv
<1>1. /\ UNCHANGED db /\ UNCHANGED drains /\ UNCHANGED gets /\ strays' = strays \ {m}
      /\ m \in Mutation /\ m.book \in Books /\ Known(m)
  BY DEF HandleStray, Flight, TypeOK, Mutation
<1>2. CASE m.book \in DOMAIN server
  <2>1. Write(m)
    BY <1>2 DEF HandleStray
  <2>2. /\ (Ordered /\ Pending /\ Held /\ Calm /\ Fresh)' /\ (EditsKept /\ DeletedStaysGone)'
        /\ \A x \in Mutation : Known(x) => Known(x)'
        /\ \A b : Queued(b)' <=> Queued(b)
        /\ DOMAIN server' = DOMAIN server
        /\ \A b \in Books : /\ reached[b] <= reached'[b]
                            /\ reached'[b] # reached[b] => b = m.book /\ reached'[b] = m.revision
    BY <1>1, <1>2, <2>1, WriteFacts, ServerTakes
  <2>3. \A r \in drains : r.head \in Mutation /\ r.head.book \in Books /\ r.head.revision \in Nat
    BY DEF TypeOK, Drain, Mutation
  <2>4. \A b \in Books : reached[b] \in Nat /\ reached'[b] \in Nat
    BY DEF TypeOK
  <2>5. \A r \in drains : r.stage = "sent" => reached'[r.head.book] <= r.head.revision
    BY <2>2, <2>3 DEF Flight
  <2>6. \A r \in drains : r.stage = "saved" => r.head.revision <= reached'[r.head.book]
    BY <2>2, <2>3, <2>4 DEF Flight
  <2>7. Flight'
    BY <1>1, <2>2, <2>3, <2>5, <2>6 DEF Flight, TypeOK
  <2> QED
    BY <2>2, <2>7
<1>3. CASE m.book \notin DOMAIN server
  <2>1. UNCHANGED <<server, edited, reached, mayShow>>
    BY <1>3 DEF HandleStray, history
  <2>2. /\ (Ordered /\ Pending /\ Held /\ Calm /\ Fresh)' /\ (EditsKept /\ DeletedStaysGone)'
        /\ \A x \in Mutation : Known(x) => Known(x)'
        /\ \A b : Queued(b)' <=> Queued(b)
    <3>1. \A b \in Books : reached[b] <= reached'[b] /\ reached'[b] <= edited'[b]
      BY <2>1 DEF TypeOK, Ordered
    <3>2. \A b \in DOMAIN server : Arrived(b)' => server'[b] \in mayShow'[b]
      BY <2>1 DEF Held, Arrived
    <3> QED
      BY <1>1, <2>1, <3>1, <3>2, ServerTakes
  <2>3. Flight'
    BY <1>1, <2>1, <2>2 DEF Flight, TypeOK, Drain
  <2> QED
    BY <2>2, <2>3
<1> QED
  BY <1>2, <1>3

\* An answer is recorded: it is younger than every aggregate, and than every GET.
LEMMA RecordStep ==
  ASSUME IInv, TypeOK', NEW r \in drains, Acknowledge(r), r.head.book \notin deleted
  PROVE  IInv'
<1> USE DEF IInv
<1> DEFINE m == r.head
           k == m.book
<1>1. /\ Record(m, r.stage = "saved") /\ r.stage \in {"saved", "dropped"}
      /\ UNCHANGED <<strays, gets, server, edited, reached, mayShow>>
      /\ drains' = {} /\ m \in Mutation /\ k \in Books /\ k \notin deleted
      /\ Known(m) /\ m.revision \in Nat
      /\ (k \in DOMAIN server => Queued(k))
      /\ (r.stage = "saved" => m.revision <= reached[k])
      /\ (r.stage = "dropped" => k \notin DOMAIN server)
  BY DEF Acknowledge, Flight, TypeOK, Drain, Mutation, history
<1> DEFINE saved == r.stage = "saved"
<1>2. saved \in BOOLEAN /\ Record(m, saved)
  BY <1>1
<1> HIDE DEF m, k, saved
<1>3. /\ revision' = revision + 1 /\ fence' = revision + 1
      /\ queue' = {q \in queue : q.book # k \/ q.revision # m.revision}
      /\ DOMAIN rows' = DOMAIN rows
      /\ \A b \in DOMAIN rows : b # k => rows'[b] = rows[b]
      /\ \A b \in Books : b # k => changes'[b] = changes[b]
      /\ changes'[k] = changes[k] \/ changes'[k].revision = revision + 1
      /\ deleted' = deleted /\ views' = views
      /\ \A b \in Books : b # k => (b \in failed' <=> b \in failed)
  BY <1>1, <1>2 DEF Record, Settled, TypeOK, k
<1>4. saved => /\ k \in DOMAIN rows => rows'[k] = m.value
               /\ changes'[k] = [value |-> m.value, revision |-> revision + 1]
  BY <1>1, <1>2 DEF Record, TypeOK, k
<1>5. \A b : b # k => (Queued(b)' <=> Queued(b))
  BY <1>3 DEF Queued
<1>6. \A b \in Books : Arrived(b)' <=> Arrived(b)
  BY <1>1 DEF Arrived
\* What is settled is the last edit, and the server has it.
<1>7. ASSUME NEW q \in queue, q \notin queue'
      PROVE  /\ q.book = k /\ m.revision = edited[k]
             /\ saved => Arrived(k) /\ m.value \in mayShow[k]
  <2>1. q.book = k /\ q.revision = m.revision
    BY <1>3, <1>7
  <2>2. m.revision = edited[k]
    BY <2>1 DEF Pending
  <2> QED
    BY <1>1, <2>1, <2>2 DEF Arrived, Known, k, saved
<1>8. Ordered'
  BY <1>1, <1>3 DEF Ordered, TypeOK, Current, Get, View, Change
<1>9. Pending'
  BY <1>1, <1>3 DEF Pending
<1>10. Flight'
  BY <1>1 DEF Flight, Known
<1>11. DOMAIN server \subseteq Books /\ DOMAIN server \subseteq DOMAIN rows
  BY PayloadIs DEF TypeOK, Held
<1>12. Held'
  BY <1>1, <1>3, <1>6, <1>11 DEF Held
<1>13. Calm'
  <2> SUFFICES ASSUME NEW b \in DOMAIN server, ~Queued(b)'
               PROVE  /\ Arrived(b)
                      /\ rows'[b] \in mayShow[b]
                      /\ changes'[b].revision = 0 => NoDate \in mayShow[b]
                      /\ changes'[b].revision > 0 => changes'[b].value \in mayShow[b]
                      /\ \A v \in {"home", "shelf"} : Covered(v, b)'
    BY <1>1, <1>6, <1>11 DEF Calm
  <2>1. CASE b # k
    BY <1>1, <1>3, <1>5, <1>11, <2>1 DEF Calm, Covered
  <2>2. CASE b = k
    <3>1. PICK q \in queue : q.book = k
      BY <1>1, <2>2 DEF Queued, k
    <3>2. q \notin queue'
      BY <2>2, <3>1 DEF Queued
    <3>3. saved
      BY <1>1, <2>2 DEF saved, k
    <3>4. Arrived(k) /\ m.value \in mayShow[k]
      BY <1>7, <3>1, <3>2, <3>3
    <3>5. changes'[k].value = m.value /\ changes'[k].revision = revision + 1
      BY <1>4, <3>3
    <3>6. \A v \in {"home", "shelf"} : views'[v].revision < revision + 1
      BY <1>3 DEF Ordered, TypeOK, View
    <3>7. \A v \in {"home", "shelf"} : Covered(v, k)'
      BY <1>3, <3>5, <3>6 DEF Covered, TypeOK, View
    <3> QED
      BY <1>4, <1>11, <2>2, <3>3, <3>4, <3>5, <3>7 DEF TypeOK
  <2> QED
    BY <2>1, <2>2
<1>14. Fresh'
  <2> SUFFICES ASSUME NEW g \in gets, g.answered PROVE FreshGet(g)'
    BY <1>1 DEF Fresh
  <2>1. FreshGet(g) /\ g.revision <= Current(g.kind) /\ g \in Get
    BY DEF Fresh, Ordered, TypeOK
  <2>2. g.revision # Current(g.kind)' /\ g.revision # revision'
    BY <1>3, <2>1 DEF Current, TypeOK, Ordered, Get
  <2> QED
    BY <1>1, <1>3, <2>1, <2>2 DEF FreshGet
<1>15. EditsKept'
  <2> SUFFICES ASSUME NEW b \in Books, ~Arrived(b), b \notin deleted,
                      ~\E x \in queue' : x.book = b /\ x.revision = edited[b]
               PROVE  b \in failed'
    BY <1>1, <1>3, <1>6 DEF EditsKept
  <2>1. CASE b # k
    BY <1>3, <2>1 DEF EditsKept
  <2>2. CASE b = k
    <3>1. CASE Settled(m) = queue
      BY <1>2, <1>3, <2>2, <3>1 DEF EditsKept, Record, Settled, k
    <3>2. CASE Settled(m) # queue
      <4>1. PICK q \in queue : q \notin queue'
        BY <1>2, <3>2 DEF Record, Settled
      <4>2. ~saved
        BY <1>7, <2>2, <4>1
      <4> QED
        BY <1>2, <2>2, <3>2, <4>2 DEF Record, k
    <3> QED
      BY <3>1, <3>2
  <2> QED
    BY <2>1, <2>2
<1>16. DeletedStaysGone'
  BY <1>1, <1>3, <1>5 DEF DeletedStaysGone, TypeOK, k
<1> QED
  BY <1>8, <1>9, <1>10, <1>12, <1>13, <1>14, <1>15, <1>16

\* The answer for a book that was removed since is dropped.
LEMMA AcknowledgeStep ==
  ASSUME IInv, TypeOK', NEW r \in drains, Acknowledge(r)
  PROVE  IInv'
<1> USE DEF IInv
<1>1. CASE r.head.book \in deleted
  <2>1. /\ UNCHANGED <<revision, fence, deleted, queue, rows, changes, failed, views>>
        /\ UNCHANGED <<strays, gets, server, edited, reached, mayShow>>
        /\ drains' = drains \ {r}
    BY <1>1 DEF Acknowledge, db, history
  <2>2. (\A b : Queued(b)' <=> Queued(b)) /\ (\A b : Arrived(b)' <=> Arrived(b))
    BY <2>1 DEF Queued, Arrived
  <2>3. Flight'
    BY <2>1, <2>2 DEF Flight, Known
  <2>4. Ordered' /\ Pending' /\ Held' /\ Calm'
    BY <2>1, <2>2 DEF Ordered, Pending, Held, Calm, Covered, Current
  <2>5. Fresh'
    BY <2>1, <2>2 DEF Fresh, FreshGet, Current
  <2>6. EditsKept' /\ DeletedStaysGone'
    BY <2>1, <2>2 DEF EditsKept, DeletedStaysGone
  <2> QED
    BY <2>3, <2>4, <2>5, <2>6
<1> QED
  BY <1>1, RecordStep

\* A GET leaves, with the current revision.
LEMMA RequestStep ==
  ASSUME IInv, TypeOK', NEW kind \in Lists \cup Books, Request(kind)
  PROVE  IInv'
<1> USE DEF IInv
<1> DEFINE n == [kind |-> kind, revision |-> Current(kind), answered |-> FALSE,
                 dates |-> Nothing]
<1>1. /\ UNCHANGED <<revision, fence, deleted, queue, rows, changes, failed, views>>
      /\ UNCHANGED <<drains, strays, server, edited, reached, mayShow>>
      /\ gets' = gets \cup {n}
  BY DEF Request, db, history
<1>2. /\ n.revision = Current(n.kind) /\ ~n.answered /\ n.kind # "seed"
      /\ Current(kind) \in Nat
  BY CompletionAssumption DEF Lists, Current, TypeOK
<1> HIDE DEF n
<1>3. (\A b : Queued(b)' <=> Queued(b)) /\ (\A b : Arrived(b)' <=> Arrived(b))
  BY <1>1 DEF Queued, Arrived
<1>4. Ordered'
  <2> SUFFICES ASSUME NEW g \in gets' PROVE g.revision <= Current(g.kind)
    BY <1>1 DEF Ordered, Current
  <2> QED
    BY <1>1, <1>2 DEF Ordered, Current, TypeOK
<1>5. Pending' /\ Flight' /\ Held' /\ Calm'
  BY <1>1, <1>3 DEF Pending, Flight, Known, Held, Calm, Covered
<1>6. Fresh'
  <2> SUFFICES ASSUME NEW g \in gets' PROVE (IF g.answered THEN FreshGet(g) ELSE g.kind # "seed")'
    BY DEF Fresh
  <2>1. CASE g = n
    BY <1>2, <2>1
  <2>2. CASE g \in gets
    BY <1>1, <1>3, <2>2 DEF Fresh, FreshGet, Current
  <2> QED
    BY <1>1, <2>1, <2>2
<1>7. EditsKept' /\ DeletedStaysGone'
  BY <1>1, <1>3 DEF EditsKept, DeletedStaysGone
<1> QED
  BY <1>4, <1>5, <1>6, <1>7

\* A GET is answered: a book with nothing queued has had its last edit handled.
LEMMA RespondStep ==
  ASSUME IInv, TypeOK', NEW g \in gets, Respond(g)
  PROVE  IInv'
<1> USE DEF IInv
<1> DEFINE n == [kind |-> g.kind, revision |-> g.revision, answered |-> TRUE,
                 dates |-> [b \in Named(g.kind) |-> server[b]]]
<1>1. /\ UNCHANGED <<revision, fence, deleted, queue, rows, changes, failed, views>>
      /\ UNCHANGED <<drains, strays, server, edited, reached, mayShow>>
      /\ gets' = (gets \ {g}) \cup {n} /\ ~g.answered
  BY DEF Respond, db, history
<1>2. /\ n.kind = g.kind /\ n.revision = g.revision /\ n.answered /\ g.kind # "seed"
      /\ DOMAIN n.dates = Named(g.kind) /\ \A b \in Named(g.kind) : n.dates[b] = server[b]
  BY <1>1 DEF Fresh
<1> HIDE DEF n
<1>3. (\A b : Queued(b)' <=> Queued(b)) /\ (\A b : Arrived(b)' <=> Arrived(b))
  BY <1>1 DEF Queued, Arrived
<1>4. Ordered'
  BY <1>1, <1>2 DEF Ordered, Current
<1>5. Pending' /\ Flight' /\ Held' /\ Calm'
  BY <1>1, <1>3 DEF Pending, Flight, Known, Held, Calm, Covered
<1>6. Fresh'
  <2> SUFFICES ASSUME NEW x \in gets' PROVE (IF x.answered THEN FreshGet(x) ELSE x.kind # "seed")'
    BY DEF Fresh
  <2>1. CASE x = n
    <3>1. Named(g.kind) \subseteq DOMAIN server
      BY DEF Named
    <3>2. \A b \in DOMAIN server : ~Queued(b) => server[b] \in mayShow[b]
      BY DEF Calm, Held
    <3>3. g.kind \in Lists => Named(g.kind) = DOMAIN server
      BY CompletionAssumption DEF Named, Lists
    <3>4. g.kind \in Books => Named(g.kind) = DOMAIN server \cap {g.kind}
      BY DEF Named
    <3>5. "home" \in Lists /\ DOMAIN server \cap deleted = {}
      BY DEF Lists, DeletedStaysGone
    <3> QED
      BY <1>1, <1>2, <1>3, <2>1, <3>1, <3>2, <3>3, <3>4, <3>5 DEF FreshGet, Current
  <2>2. CASE x \in gets
    BY <1>1, <1>3, <2>2 DEF Fresh, FreshGet, Current
  <2> QED
    BY <1>1, <2>1, <2>2
<1>7. EditsKept' /\ DeletedStaysGone'
  BY <1>1, <1>3 DEF EditsKept, DeletedStaysGone
<1> QED
  BY <1>4, <1>5, <1>6, <1>7

\* A GET lost, or not admitted, leaves the tables as they are.
LEMMA GetGone ==
  ASSUME IInv, TypeOK', UNCHANGED db, gets' \subseteq gets,
         UNCHANGED <<drains, strays, server, history>>
  PROVE  IInv'
<1> USE DEF IInv
<1>1. /\ UNCHANGED <<revision, fence, deleted, queue, rows, changes, failed, views>>
      /\ UNCHANGED <<drains, strays, server, edited, reached, mayShow>>
  BY DEF db, history
<1>2. (\A b : Queued(b)' <=> Queued(b)) /\ (\A b : Arrived(b)' <=> Arrived(b))
  BY <1>1 DEF Queued, Arrived
<1>3. Ordered' /\ Pending' /\ Flight' /\ Held' /\ Calm'
  BY <1>1, <1>2 DEF Ordered, Pending, Flight, Known, Held, Calm, Covered, Current
<1>4. Fresh'
  BY <1>1, <1>2 DEF Fresh, FreshGet, Current
<1>5. EditsKept' /\ DeletedStaysGone'
  BY <1>1, <1>2 DEF EditsKept, DeletedStaysGone
<1> QED
  BY <1>3, <1>4, <1>5

\* An admitted payload shows what may be shown, under the acknowledgments or not.
LEMMA AdmittedShows ==
  ASSUME IInv, NEW g \in gets, g.answered, Admitted(g),
         NEW b \in DOMAIN server, ~Queued(b), b \in DOMAIN g.dates,
         changes[b].revision <= g.revision
  PROVE  g.dates[b] \in mayShow[b]
<1>1. FreshGet(g)
  BY DEF IInv, Fresh
<1>2. CASE g.kind = "seed"
  <2>1. g.revision = 0 /\ g.dates[b] = NoDate
    BY <1>1, <1>2 DEF FreshGet, Unread
  <2>2. b \in Books /\ changes[b].revision \in Nat
    BY PayloadIs DEF IInv, TypeOK, Change
  <2>3. changes[b].revision = 0
    BY <2>1, <2>2
  <2> QED
    BY <2>1, <2>3 DEF IInv, Calm
<1>3. CASE g.kind # "seed"
  BY <1>1, <1>3 DEF Admitted, FreshGet
<1> QED
  BY <1>2, <1>3

\* So does the merged list.
LEMMA MergedShows ==
  ASSUME IInv, NEW g \in gets, g.answered, Admitted(g),
         NEW b \in DOMAIN server, ~Queued(b)
  PROVE  Merged(g)[b] \in mayShow[b]
<1>1. b \in Books /\ changes[b].revision \in Nat /\ g.revision \in Nat /\ b \in DOMAIN rows
  BY PayloadIs DEF IInv, TypeOK, Change, Held, Get
<1>2. Merged(g)[b] = IF b \notin DOMAIN g.dates THEN rows[b]
                     ELSE IF changes[b].revision > g.revision THEN changes[b].value
                     ELSE g.dates[b]
  BY <1>1 DEF Merged
<1>3. /\ rows[b] \in mayShow[b]
      /\ changes[b].revision > 0 => changes[b].value \in mayShow[b]
  BY DEF IInv, Calm
<1>4. CASE b \in DOMAIN g.dates /\ ~(changes[b].revision > g.revision)
  BY <1>1, <1>2, <1>4, AdmittedShows
<1> QED
  BY <1>1, <1>2, <1>3, <1>4

\* What the other steps of a GET leave alone.
ApplyRest ==
  /\ gets' \subseteq gets
  /\ UNCHANGED <<drains, strays, server, edited, reached, mayShow>>

\* What storing a payload must still show: the queue and revisions stay.
LEMMA StoredInv ==
  ASSUME IInv, TypeOK', ApplyRest,
         UNCHANGED <<revision, fence, deleted, queue, changes, failed>>,
         DOMAIN rows \subseteq DOMAIN rows',
         DOMAIN rows' \cap deleted = {}, DOMAIN views'["home"].dates \cap deleted = {},
         \A v \in {"home", "shelf"} : views'[v].revision <= revision,
         \A b \in DOMAIN server : ~Queued(b) =>
           /\ rows'[b] \in mayShow[b]
           /\ \A v \in {"home", "shelf"} : Covered(v, b)'
  PROVE  IInv'
<1> USE DEF IInv
<1>1. (\A b : Queued(b)' <=> Queued(b)) /\ (\A b : Arrived(b)' <=> Arrived(b))
  BY DEF Queued, Arrived, ApplyRest
<1>2. Ordered' /\ Pending' /\ Held'
  BY <1>1 DEF Ordered, Pending, Held, Current, ApplyRest
<1>3. Flight'
  BY <1>1 DEF Flight, Known, ApplyRest
<1>4. Calm'
  BY <1>1 DEF Calm, ApplyRest
<1>5. Fresh'
  BY <1>1 DEF Fresh, FreshGet, Current, ApplyRest
<1>6. EditsKept' /\ DeletedStaysGone'
  BY <1>1 DEF EditsKept, DeletedStaysGone, ApplyRest
<1> QED
  BY <1>2, <1>3, <1>4, <1>5, <1>6

\* Removing books the server no longer has: a new revision for what is left.
LEMMA RemovedInv ==
  ASSUME IInv, TypeOK', ApplyRest, NEW bs \in SUBSET Books, RemoveBooks(bs),
         bs \cap DOMAIN server = {},
         DOMAIN rows \ bs \subseteq DOMAIN rows',
         DOMAIN rows' \cap (deleted \cup bs) = {},
         views'["home"] = HomeWithout(bs), views'["shelf"].revision <= revision,
         \A b \in DOMAIN server : ~Queued(b) =>
           rows'[b] \in mayShow[b] /\ Covered("shelf", b)'
  PROVE  IInv'
<1> USE DEF IInv
<1>1. /\ revision' = revision + 1 /\ fence' = fence
      /\ deleted' = deleted \cup bs
      /\ queue' = {m \in queue : m.book \notin bs}
      /\ changes' = [b \in Books |-> IF b \in bs THEN NoChange ELSE changes[b]]
      /\ failed' = failed \ bs
      /\ UNCHANGED <<drains, strays, server, edited, reached, mayShow>> /\ gets' \subseteq gets
  BY DEF RemoveBooks, Unqueued, ApplyRest
<1>2. /\ \A b : b \notin bs => (Queued(b)' <=> Queued(b))
      /\ \A b : b \in bs => ~Queued(b)'
      /\ \A b : Arrived(b)' <=> Arrived(b)
  BY <1>1 DEF Queued, Arrived
<1>3. DOMAIN server \subseteq Books /\ \A b \in DOMAIN server : b \notin bs
  BY PayloadIs DEF TypeOK
<1>4. /\ views'["home"].revision = views["home"].revision
      /\ DOMAIN views'["home"].dates = DOMAIN views["home"].dates \ bs
      /\ \A b \in DOMAIN views'["home"].dates : views'["home"].dates[b] = views["home"].dates[b]
  BY DEF HomeWithout
<1>5. Ordered'
  <2>1. \A b \in Books : changes'[b].revision <= fence
    BY <1>1 DEF Ordered, NoChange, TypeOK
  <2>2. revision \in Nat /\ fence \in Nat /\ \A v \in {"home", "shelf"} : views'[v].revision \in Nat
    BY DEF TypeOK, View
  <2>3. \A v \in {"home", "shelf"} : views'[v].revision <= revision'
    BY <1>1, <1>4, <2>2 DEF Ordered
  <2>4. \A g \in gets : g.revision \in Nat
    BY DEF TypeOK, Get
  <2> QED
    BY <1>1, <2>1, <2>2, <2>3, <2>4 DEF Ordered, Current
<1>6. Pending' /\ Held'
  BY <1>1, <1>2, <1>3 DEF Pending, Held
<1>7. Flight'
  BY <1>1, <1>2, <1>3 DEF Flight, Known
<1>8. Calm'
  <2> SUFFICES ASSUME NEW b \in DOMAIN server, ~Queued(b)
               PROVE  /\ Arrived(b)
                      /\ rows'[b] \in mayShow[b]
                      /\ changes'[b] = changes[b]
                      /\ changes[b].revision = 0 => NoDate \in mayShow[b]
                      /\ changes[b].revision > 0 => changes[b].value \in mayShow[b]
                      /\ Covered("home", b)' /\ Covered("shelf", b)'
    BY <1>1, <1>2, <1>3 DEF Calm
  <2>1. changes'[b] = changes[b]
    BY <1>1, <1>3
  <2>2. Covered("home", b)
    BY DEF Calm
  <2>3. Covered("home", b)'
    BY <1>1, <1>4, <2>1, <2>2 DEF Covered
  <2> QED
    BY <2>1, <2>3 DEF Calm
<1>9. Fresh'
  <2> SUFFICES ASSUME NEW g \in gets', g.answered PROVE FreshGet(g)'
    BY <1>1 DEF Fresh
  <2>1. FreshGet(g) /\ g.revision <= Current(g.kind) /\ g \in Get
    BY <1>1 DEF Fresh, Ordered, TypeOK
  <2>2. g.revision # revision' /\ (g.revision = Current(g.kind)' => g.kind \in Books)
    BY <1>1, <2>1 DEF Current, TypeOK, Ordered, Get
  <2>3. g.kind \in Books => Current(g.kind)' = Current(g.kind)
    BY <1>1 DEF Current
  <2> QED
    BY <1>1, <1>2, <1>3, <2>1, <2>2, <2>3 DEF FreshGet
<1>10. EditsKept'
  BY <1>1, <1>2 DEF EditsKept
<1>11. DeletedStaysGone'
  BY <1>1, <1>2, <1>4 DEF DeletedStaysGone, TypeOK
<1> QED
  BY <1>5, <1>6, <1>7, <1>8, <1>9, <1>10, <1>11

\* An answered GET is applied.
LEMMA ApplyStep ==
  ASSUME IInv, TypeOK', NEW g \in gets, Apply(g)
  PROVE  IInv'
<1> USE DEF IInv
<1>1. /\ g.answered /\ gets' \subseteq gets /\ UNCHANGED <<drains, strays, server, history>>
      /\ FreshGet(g) /\ g \in Get /\ ApplyRest
  BY DEF Apply, Fresh, TypeOK, history, ApplyRest
<1>2. /\ DOMAIN server \subseteq Books /\ DOMAIN server \subseteq DOMAIN rows
      /\ DOMAIN g.dates \subseteq Books /\ DOMAIN rows \subseteq Books
      /\ g.revision \in Nat
  BY <1>1, PayloadIs DEF TypeOK, Held, Get
<1>3. \A v \in {"home", "shelf"} : views[v].revision <= revision
  BY DEF Ordered
<1>4. DOMAIN rows \cap deleted = {} /\ DOMAIN views["home"].dates \cap deleted = {}
  BY DEF DeletedStaysGone
<1>5. \A b \in DOMAIN server : ~Queued(b) =>
        /\ rows[b] \in mayShow[b]
        /\ \A v \in {"home", "shelf"} : Covered(v, b)
  BY DEF Calm
<1>6. CASE UNCHANGED db
  BY <1>1, <1>6, GetGone
<1>7. CASE NotFound(g) /\ ApplyNotFound(g.kind)
  <2> DEFINE k == g.kind
  <2>1. k \in Books /\ k \notin DOMAIN server
    BY <1>1, <1>7 DEF NotFound, FreshGet
  <2>2. /\ RemoveBooks({k}) /\ rows' = [c \in DOMAIN rows \ {k} |-> rows[c]]
        /\ views' = [views EXCEPT !["home"] = HomeWithout({k})]
    BY <1>7 DEF ApplyNotFound
  <2> HIDE DEF k
  <2>3. views'["home"] = HomeWithout({k}) /\ views'["shelf"] = views["shelf"]
    BY <2>2 DEF TypeOK
  <2>4. \A b \in DOMAIN server : changes'[b] = changes[b] /\ rows'[b] = rows[b]
    BY <1>2, <2>1, <2>2 DEF RemoveBooks
  <2>5. \A b \in DOMAIN server : ~Queued(b) => rows'[b] \in mayShow[b] /\ Covered("shelf", b)'
    BY <1>1, <1>5, <2>3, <2>4 DEF Covered, ApplyRest
  <2>6. DOMAIN rows' = DOMAIN rows \ {k}
    BY <2>2
  <2> QED
    BY <1>1, <1>3, <1>4, <2>1, <2>2, <2>3, <2>5, <2>6, RemovedInv
<1>8. CASE Admitted(g) /\ g.kind = "home" /\ ApplyHome(g)
  <2>1. /\ views' = [views EXCEPT !["home"] = [revision |-> g.revision, dates |-> g.dates]]
        /\ UNCHANGED <<revision, fence, deleted, queue, rows, changes, failed>>
    BY <1>8 DEF ApplyHome, Store
  <2>2. g.revision = revision
    BY <1>8, CompletionAssumption DEF Admitted, Current, Lists
  <2>3. /\ views'["home"] = [revision |-> g.revision, dates |-> g.dates]
        /\ views'["shelf"] = views["shelf"]
    BY <2>1 DEF TypeOK
  <2>4. \A b \in DOMAIN server : ~Queued(b) =>
          \A v \in {"home", "shelf"} : Covered(v, b)'
    <3> SUFFICES ASSUME NEW b \in DOMAIN server, ~Queued(b)
                 PROVE  Covered("home", b)' /\ Covered("shelf", b)'
      OBVIOUS
    <3>1. Covered("shelf", b)'
      BY <1>1, <1>5, <2>1, <2>3 DEF Covered, ApplyRest
    <3>2. Covered("home", b)'
      BY <1>1, <1>8, <2>1, <2>3, AdmittedShows DEF Covered, ApplyRest
    <3> QED
      BY <3>1, <3>2
  <2>5. DOMAIN g.dates \cap deleted = {}
    BY <1>1, <1>8, <2>2 DEF FreshGet
  <2>6. \A v \in {"home", "shelf"} : views'[v].revision <= revision
    BY <1>2, <1>3, <2>2, <2>3
  <2> QED
    BY <1>1, <1>4, <1>5, <2>1, <2>3, <2>4, <2>5, <2>6, StoredInv
<1>9. CASE Admitted(g) /\ g.kind \in Lists \cup {"seed"} /\ g.kind # "home" /\ ApplyCollection(g)
  <2>1. /\ views' = [views EXCEPT !["shelf"] = [revision |-> g.revision, dates |-> g.dates]]
        /\ rows' = Merged(g)
        /\ UNCHANGED <<revision, fence, deleted, queue, changes, failed>>
    BY <1>9 DEF ApplyCollection, Store
  <2>2. g.revision <= revision
    BY <1>9, CompletionAssumption DEF Ordered, Current, Lists
  <2>3. /\ views'["shelf"] = [revision |-> g.revision, dates |-> g.dates]
        /\ views'["home"] = views["home"]
        /\ DOMAIN rows' = DOMAIN rows \cup DOMAIN g.dates
    BY <2>1, MergedTyped DEF TypeOK
  <2>4. \A b \in DOMAIN server : ~Queued(b) =>
          \A v \in {"home", "shelf"} : Covered(v, b)'
    <3> SUFFICES ASSUME NEW b \in DOMAIN server, ~Queued(b)
                 PROVE  Covered("home", b)' /\ Covered("shelf", b)'
      OBVIOUS
    <3>1. Covered("home", b)'
      BY <1>1, <1>5, <2>1, <2>3 DEF Covered, ApplyRest
    <3>2. Covered("shelf", b)'
      BY <1>1, <1>9, <2>1, <2>3, AdmittedShows DEF Covered, ApplyRest
    <3> QED
      BY <3>1, <3>2
  <2>5. DOMAIN rows' \cap deleted = {}
    BY <1>4, <1>9, <2>3 DEF Admitted
  <2>6. \A v \in {"home", "shelf"} : views'[v].revision <= revision
    BY <1>2, <1>3, <2>2, <2>3
  <2>7. \A b \in DOMAIN server : ~Queued(b) => rows'[b] \in mayShow[b]
    BY <1>1, <1>9, <2>1, MergedShows
  <2> QED
    BY <1>1, <1>4, <2>1, <2>3, <2>4, <2>5, <2>6, <2>7, StoredInv
<1>10. CASE Admitted(g) /\ g.kind = "library" /\ ApplyLibrary(g) /\ ~ApplyCollection(g)
  <2> DEFINE bs == Absent(g)
  <2>1. /\ RemoveBooks(bs)
        /\ rows' = [b \in DOMAIN g.dates |-> Merged(g)[b]]
        /\ views' = [v \in {"home", "shelf"} |->
                       IF v = "home" THEN HomeWithout(bs)
                       ELSE [revision |-> g.revision, dates |-> g.dates]]
    BY <1>10 DEF ApplyLibrary
  <2>2. bs = DOMAIN rows \ DOMAIN g.dates
    BY DEF Absent
  <2> HIDE DEF bs
  <2>3. DOMAIN server \subseteq DOMAIN g.dates
    BY <1>1, <1>10 DEF FreshGet, Lists
  <2>4. bs \in SUBSET Books /\ bs \cap DOMAIN server = {}
    BY <1>2, <2>2, <2>3
  <2>5. g.revision = revision
    BY <1>10, CompletionAssumption DEF Admitted, Current, Lists
  <2>6. /\ views'["home"] = HomeWithout(bs) /\ DOMAIN rows' = DOMAIN g.dates
        /\ views'["shelf"] = [revision |-> g.revision, dates |-> g.dates]
    BY <2>1
  <2>7. DOMAIN rows' \cap (deleted \cup bs) = {} /\ DOMAIN rows \ bs \subseteq DOMAIN rows'
    BY <1>10, <2>2, <2>6 DEF Admitted
  <2>8. \A b \in DOMAIN server : changes'[b] = changes[b]
    BY <1>2, <2>1, <2>4 DEF RemoveBooks
  <2>9. \A b \in DOMAIN server : ~Queued(b) => rows'[b] \in mayShow[b] /\ Covered("shelf", b)'
    <3> SUFFICES ASSUME NEW b \in DOMAIN server, ~Queued(b)
                 PROVE  rows'[b] \in mayShow[b] /\ Covered("shelf", b)'
      OBVIOUS
    <3>1. rows'[b] \in mayShow[b]
      BY <1>1, <1>10, <2>1, <2>3, MergedShows
    <3>2. Covered("shelf", b)'
      BY <1>1, <1>10, <2>6, <2>8, AdmittedShows DEF Covered, ApplyRest
    <3> QED
      BY <3>1, <3>2
  <2>10. views'["shelf"].revision <= revision
    BY <1>2, <2>5, <2>6
  <2> QED
    BY <1>1, <2>1, <2>4, <2>6, <2>7, <2>9, <2>10, RemovedInv
<1>11. CASE Admitted(g) /\ ~NotFound(g) /\ g.kind \in Books /\ ApplyInfo(g)
  <2> DEFINE k == g.kind
  <2>1. /\ rows' = [b \in DOMAIN rows \cup {k} |->
                      IF b \in DOMAIN rows /\ (b # k \/ Queued(b)) THEN rows[b] ELSE g.dates[k]]
        /\ UNCHANGED <<revision, fence, deleted, queue, changes, failed, views>>
    BY <1>11 DEF ApplyInfo
  <2>2. k \in Books /\ k \in DOMAIN g.dates /\ k \notin deleted
    BY <1>1, <1>11, CompletionAssumption DEF NotFound, FreshGet, Admitted, Lists
  <2>3. k \in DOMAIN server /\ ~Queued(k) => g.dates[k] \in mayShow[k]
    BY <1>1, <1>11, <2>2, CompletionAssumption DEF FreshGet, Admitted
  <2> HIDE DEF k
  <2>4. DOMAIN rows' = DOMAIN rows \cup {k}
    BY <2>1
  <2>5. \A b \in DOMAIN server : ~Queued(b) => rows'[b] \in mayShow[b]
    BY <1>2, <1>5, <2>1, <2>3
  <2>6. \A b \in DOMAIN server : ~Queued(b) => \A v \in {"home", "shelf"} : Covered(v, b)'
    BY <1>1, <1>5, <2>1 DEF Covered, ApplyRest
  <2> QED
    BY <1>1, <1>3, <1>4, <2>1, <2>2, <2>4, <2>5, <2>6, StoredInv
<1> QED
  BY <1>6, <1>7, <1>8, <1>9, <1>10, <1>11 DEF Apply, ApplyLibrary, Lists

\* Every step keeps the invariant.
LEMMA NextInv == IInv /\ [Next]_vars => IInv'
<1> SUFFICES ASSUME IInv, [Next]_vars PROVE IInv'
  OBVIOUS
<1>1. TypeOK'
  BY TypeStep DEF IInv
<1>2. CASE UNCHANGED vars
  BY <1>1, <1>2, GetGone DEF vars, network
<1>3. ASSUME NEW g \in gets, LoseGet(g) PROVE IInv'
  <2>1. UNCHANGED db /\ gets' \subseteq gets /\ UNCHANGED <<drains, strays, server, history>>
    BY <1>3 DEF LoseGet
  <2> QED
    BY <1>1, <2>1, GetGone
<1>4. ASSUME NEW t \in Tabs, DrainStep(t) PROVE IInv'
  BY <1>1, <1>4, SendStep, HandleStep, AcknowledgeStep DEF DrainStep
<1> QED
  BY <1>1, <1>2, <1>3, <1>4, EditStep, OtherEditStep, DeleteStep, LoseStep, StrayStep,
     RequestStep, RespondStep, ApplyStep DEF Next

LEMMA Invariant == Spec => []IInv
BY InitInv, NextInv, PTL DEF Spec

-----------------------------------------------------------------------------
\* The tables, the queue and the requests keep their types: one mutation for a
\* book whatever tabs and answers do.
THEOREM CompletionTyped == Spec => []TypeOK
<1>1. IInv => TypeOK
  BY DEF IInv
<1> QED
  BY <1>1, Invariant, PTL

\* No local finish date is lost on its way: it is queued, or the server had it,
\* or its failure is recorded, or its book was removed.
THEOREM EditsNeverLost == Spec => []EditsKept
<1>1. IInv => EditsKept
  BY DEF IInv
<1> QED
  BY <1>1, Invariant, PTL

\* However late an answer comes back, no page shows what the reader has taken back.
THEOREM ShownNeverTakenBack == Spec => []NeverTakenBack
<1>1. IInv => NeverTakenBack
  <2> SUFFICES ASSUME IInv, NEW b \in DOMAIN server
               PROVE  /\ b \in DOMAIN rows /\ ShownInfo(b) \in mayShow[b]
                      /\ \A v \in {"home", "shelf"} :
                           b \in DOMAIN views[v].dates => Shown(v, b) \in mayShow[b]
    BY DEF NeverTakenBack
  <2>1. b \in DOMAIN rows /\ b \in Books
    BY PayloadIs DEF IInv, Held, TypeOK
  <2>2. CASE Queued(b)
    <3>1. QueuedOf(b) \in queue /\ QueuedOf(b).book = b
      BY <2>2 DEF Queued, QueuedOf
    <3> QED
      BY <2>1, <2>2, <3>1 DEF IInv, Pending, ShownInfo, Shown
  <2>3. CASE ~Queued(b)
    <3>1. /\ rows[b] \in mayShow[b]
          /\ changes[b].revision > 0 => changes[b].value \in mayShow[b]
          /\ \A v \in {"home", "shelf"} : Covered(v, b)
      BY <2>3 DEF IInv, Calm
    <3>2. \A v \in {"home", "shelf"} : changes[b].revision \in Nat /\ views[v].revision \in Nat
      BY <2>1 DEF IInv, TypeOK, Change, View
    <3> QED
      BY <2>1, <2>3, <3>1, <3>2 DEF ShownInfo, Shown, Covered
  <2> QED
    BY <2>2, <2>3
<1> QED
  BY <1>1, Invariant, PTL

\* What is on its way is never older than what the server has handled.
THEOREM OldDatesStayBehind == Spec => []NoOldResend
<1>1. IInv => NoOldResend
  <2> SUFFICES ASSUME IInv, NEW r \in drains, r.stage = "sent"
               PROVE  r.head.revision >= reached[r.head.book]
    BY DEF NoOldResend
  <2>1. r.head.book \in Books /\ r.head.revision \in Nat /\ reached[r.head.book] \in Nat
    BY DEF IInv, TypeOK, Drain, Mutation
  <2> QED
    BY <2>1 DEF IInv, Flight
<1> QED
  BY <1>1, Invariant, PTL

\* No collection is stored anew with a book that has been removed.
ShelfForgets ==
  \A b \in deleted : b \in DOMAIN views'["shelf"].dates => UNCHANGED views["shelf"]

LEMMA StepForgets == IInv /\ [Next]_vars => [ShelfForgets]_vars
<1> SUFFICES ASSUME IInv, Next
             PROVE  ShelfForgets
  OBVIOUS
<1>1. DOMAIN views = {"home", "shelf"}
  BY DEF IInv, TypeOK
<1>2. CASE UNCHANGED views
  BY <1>2 DEF ShelfForgets
<1>3. ASSUME NEW g \in gets, Apply(g)
      PROVE  ShelfForgets
  <2>1. CASE ApplyNotFound(g.kind)
    BY <1>1, <2>1 DEF ApplyNotFound, ShelfForgets
  <2>2. CASE g.kind = "home" /\ ApplyHome(g)
    BY <1>1, <2>2 DEF ApplyHome, Store, ShelfForgets
  <2>3. CASE Admitted(g) /\ g.kind # "home" /\ (ApplyCollection(g) \/ ApplyLibrary(g))
    <3>1. views'["shelf"].dates = g.dates
      BY <1>1, <2>3 DEF ApplyCollection, ApplyLibrary, Store
    <3>2. DOMAIN g.dates \cap deleted = {}
      BY <2>3 DEF Admitted
    <3> QED
      BY <3>1, <3>2 DEF ShelfForgets
  <2>4. CASE UNCHANGED db \/ ApplyInfo(g)
    BY <1>2, <2>4 DEF ApplyInfo, db
  <2> QED
    BY <1>3, <2>1, <2>2, <2>3, <2>4 DEF Apply
<1>4. ASSUME NEW r \in drains, Acknowledge(r)
      PROVE  UNCHANGED views
  BY <1>4 DEF Acknowledge, Record, db
<1>5. ASSUME NEW b \in Books, NEW d \in Dates, Edit(b, d)
      PROVE  UNCHANGED views
  BY <1>5 DEF Edit
<1> QED
  BY <1>2, <1>3, <1>4, <1>5
     DEF Next, OtherEdit, Delete, DrainStep, Send, Handle, Lose, HandleStray, Request, Respond,
         LoseGet, db

\* Of a removed book no cached row, no item of home, nothing laid over the counts and
\* nothing to upload is left, and none of it comes back; a collection that still names it
\* is one stored before.
THEOREM DeletedBooksStayGone == Spec => []DeletedStaysGone /\ [][ShelfForgets]_vars
<1>1. IInv => DeletedStaysGone
  BY DEF IInv
<1> QED
  BY <1>1, Invariant, StepForgets, PTL DEF Spec
=============================================================================
