-------------------------- MODULE CompletionCounts --------------------------
(***************************************************************************)
(* Finish dates and the completion counts made of them                     *)
(* (apps/web/features/offline/completion, its finish-date queue, the home, *)
(* library and book-info caches, apps/api/src/library/items).              *)
(*                                                                         *)
(* The tabs of one account share a database.  A finish date is queued, one *)
(* tab at a time drains the queue, and the answer is recorded together     *)
(* with the completion revision.  Meanwhile GETs of aggregates, taken at   *)
(* any moment, come back in any order; each aggregate is read with the     *)
(* queue and the younger acknowledgments laid over it.                     *)
(*                                                                         *)
(* A queued mutation's random id and its time, and the finish-date         *)
(* revision, are the completion revision they were written with: no two    *)
(* writes share one.                                                       *)
(***************************************************************************)
EXTENDS Integers, FiniteSets

CONSTANTS Tabs,
          Books,       \* library items, all cached with their details
          Dates,       \* values of finishedAt
          NoDate,      \* null: not finished
          Rendered,    \* whether a page rendered before still holds its payload
          MaxRevision, \* bound: the revision at which edits stop
          MaxGets,     \* bound: GETs under way
          MaxOthers,   \* bound: finish dates set, and books deleted, on other devices
          MaxFaults    \* bound: requests lost, tabs destroyed

Lists == {"home", "library", "collection"}

ASSUME CompletionAssumption ==
  /\ NoDate \in Dates /\ Rendered \in BOOLEAN
  /\ Books \cap (Lists \cup {"seed"}) = {}
  /\ {MaxRevision, MaxGets, MaxOthers, MaxFaults} \subseteq Nat

VARIABLES
  revision, \* meta: the completion revision
  fence,    \* meta: the finish-date revision
  deleted,  \* meta: the tombstones
  queue,    \* finishDateMutations: one row for each book
  rows,     \* libraryItems: the finish date of the cached books
  changes,  \* meta: completion-change of each book; revision 0 is none
  failed,   \* meta: the books with a recorded finish-date failure
  views,    \* the aggregates: home's row and a collection's row
  drains,   \* drains under way, each with the mutation it sent
  strays,   \* PATCH requests nobody waits for, which may still arrive
  gets,     \* GETs under way
  server,   \* the account's library items and their finish dates
  others, faults, \* what happened of what is bounded
  edited,   \* history: the revision of the last local edit of each book
  reached,  \* history: the newest edit of each book the server has handled
  mayShow   \* history: the last edit and what the server has held since it got there

db      == <<revision, fence, deleted, queue, rows, changes, failed, views>>
network == <<drains, strays, gets>>
history == <<edited, reached, mayShow>>
vars    == <<db, network, server, others, faults, history>>

Mutation == [book : Books, value : Dates, revision : Nat, queuedAt : Nat]
Drain    == [tab : Tabs, stage : {"sent", "saved", "dropped"}, head : Mutation]
Change   == [value : Dates, revision : Nat]
Payload  == UNION {[bs -> Dates] : bs \in SUBSET Books}
View     == [revision : Nat, dates : Payload]
Get      == [kind : Lists \cup {"seed"} \cup Books, revision : Nat,
             answered : BOOLEAN, dates : Payload]

Unread   == [b \in Books |-> NoDate]
Nothing  == [b \in {} |-> NoDate]
NoChange == [value |-> NoDate, revision |-> 0]

Seed == [kind |-> "seed", revision |-> 0, answered |-> TRUE, dates |-> Unread]

\* Everything is cached as the server had it, no book finished.  A page rendered
\* then may still hold its payload, which has no revision of its own.
Init ==
  /\ server = Unread /\ rows = Unread
  /\ revision = 0 /\ fence = 0
  /\ deleted = {} /\ queue = {} /\ failed = {}
  /\ changes = [b \in Books |-> NoChange]
  /\ views = [v \in {"home", "shelf"} |-> [revision |-> 0, dates |-> Unread]]
  /\ drains = {} /\ strays = {}
  /\ gets = IF Rendered THEN {Seed} ELSE {}
  /\ others = 0 /\ faults = 0
  /\ edited = [b \in Books |-> 0] /\ reached = [b \in Books |-> 0]
  /\ mayShow = [b \in Books |-> {NoDate}]

-----------------------------------------------------------------------------
(* What the pages read: readHome, readCollectionViewBySlug, readBookInfo.  *)

Queued(b) == \E m \in queue : m.book = b
QueuedOf(b) == CHOOSE m \in queue : m.book = b

\* effectiveCompletion
Shown(v, b) ==
  IF Queued(b) THEN QueuedOf(b).value
  ELSE IF changes[b].revision > views[v].revision THEN changes[b].value
  ELSE views[v].dates[b]

ShownInfo(b) == IF Queued(b) THEN QueuedOf(b).value ELSE rows[b]

-----------------------------------------------------------------------------
(* The queue and its drain.                                                *)

\* (Mutant of Put: beside the row of the book, which the table's key forbids.)
PutBeside(m) == queue' = queue \cup {m}

Put(m) == queue' = {q \in queue : q.book # m.book} \cup {m}

\* setBookFinishedAt: a newer edit takes the place of the queued one.
Edit(b, d) ==
  /\ b \in DOMAIN rows /\ revision < MaxRevision
  /\ revision' = revision + 1 /\ fence' = revision + 1
  /\ Put([book |-> b, value |-> d, revision |-> revision + 1,
          queuedAt |-> IF Queued(b) THEN QueuedOf(b).queuedAt ELSE revision + 1])
  /\ failed' = failed \ {b}
  /\ edited' = [edited EXCEPT ![b] = revision + 1]
  /\ mayShow' = [mayShow EXCEPT ![b] = {d}]
  /\ UNCHANGED <<deleted, rows, changes, views, network, server, others, faults, reached>>

\* (Mutant of MayDrain: neither Web Locks nor the tab's own flushPromise.)
MayDrainUnlocked(t) == TRUE

\* drainWithLock: one tab at a time.
MayDrain(t) == drains = {}

\* The head is read under the lock and sent as it was read.
Send(t) ==
  /\ MayDrain(t)
  /\ \E m \in queue :
       /\ \A q \in queue : m.queuedAt <= q.queuedAt
       /\ drains' = drains \cup {[tab |-> t, stage |-> "sent", head |-> m]}
  /\ UNCHANGED <<db, strays, gets, server, others, faults, history>>

Arrived(b) == edited[b] <= reached[b]

\* setFinishedAt on the server, and what that means for the last edit.
Write(m) ==
  /\ server' = [server EXCEPT ![m.book] = m.value]
  /\ reached' = [reached EXCEPT ![m.book] = IF m.revision > @ THEN m.revision ELSE @]
  /\ mayShow' = IF Arrived(m.book) \/ m.revision = edited[m.book]
                THEN [mayShow EXCEPT ![m.book] = @ \cup {m.value}] ELSE mayShow
  /\ UNCHANGED edited

Answered(r, stage) ==
  drains' = (drains \ {r}) \cup {[tab |-> r.tab, stage |-> stage, head |-> r.head]}

\* The server's answer: the stored date, or a 404, which is final.
Handle(r) ==
  /\ r.stage = "sent"
  /\ \/ /\ r.head.book \in DOMAIN server
        /\ Write(r.head) /\ Answered(r, "saved")
     \/ /\ r.head.book \notin DOMAIN server
        /\ Answered(r, "dropped") /\ UNCHANGED <<server, history>>
  /\ UNCHANGED <<db, strays, gets, others, faults>>

\* (Mutant of Settled: the mutation of the book, whichever it is.)
SettledAny(m) == {q \in queue : q.book # m.book}

\* A newer edit of the book stays queued.
Settled(m) == {q \in queue : q.book # m.book \/ q.revision # m.revision}

\* acknowledgeFinishDate
Record(m, saved) ==
  /\ revision' = revision + 1 /\ fence' = revision + 1
  /\ rows' = IF saved THEN [rows EXCEPT ![m.book] = m.value] ELSE rows
  /\ changes' = IF saved
                THEN [changes EXCEPT ![m.book] =
                        [value |-> m.value, revision |-> revision + 1]]
                ELSE changes
  /\ queue' = Settled(m)
  /\ failed' = IF Settled(m) = queue THEN failed
               ELSE IF saved THEN failed \ {m.book} ELSE failed \cup {m.book}
  /\ UNCHANGED <<deleted, views>>

Acknowledge(r) ==
  /\ r.stage # "sent"
  /\ drains' = drains \ {r}
  /\ IF r.head.book \in deleted THEN UNCHANGED db ELSE Record(r.head, r.stage = "saved")
  /\ UNCHANGED <<strays, gets, server, others, faults, history>>

Fault == faults < MaxFaults /\ faults' = faults + 1

\* The request or its answer is lost, or its tab is destroyed: the lock is free
\* and the mutation still queued.  The request itself may arrive all the same.
Lose(r) ==
  /\ Fault
  /\ drains' = drains \ {r}
  /\ \/ strays' = strays
     \/ r.stage = "sent" /\ strays' = strays \cup {r.head}
  /\ UNCHANGED <<db, gets, server, others, history>>

HandleStray(m) ==
  /\ strays' = strays \ {m}
  /\ IF m.book \in DOMAIN server THEN Write(m) ELSE UNCHANGED <<server, history>>
  /\ UNCHANGED <<db, drains, gets, others, faults>>

-----------------------------------------------------------------------------
(* Other devices.                                                          *)

Other == others < MaxOthers /\ others' = others + 1

OtherEdit(b, d) ==
  /\ Other /\ b \in DOMAIN server /\ server[b] # d
  /\ server' = [server EXCEPT ![b] = d]
  /\ mayShow' = IF Arrived(b) THEN [mayShow EXCEPT ![b] = @ \cup {d}] ELSE mayShow
  /\ UNCHANGED <<db, network, faults, edited, reached>>

\* deleteLibraryItem, called from any device, this one included.
Delete(b) ==
  /\ Other /\ b \in DOMAIN server
  /\ server' = [c \in DOMAIN server \ {b} |-> server[c]]
  /\ UNCHANGED <<db, network, faults, history>>

-----------------------------------------------------------------------------
(* GETs.                                                                   *)

\* The revision a request starts from: readFinishDateRevision for the page of a
\* book, readCompletionRevision for the others.
Current(kind) == IF kind \in Books THEN fence ELSE revision

\* (Of a book that is no longer cached a 404 has nothing to remove.)
Request(kind) ==
  /\ kind \in Books => kind \in DOMAIN rows
  /\ Cardinality({g \in gets : g.kind # "seed"}) < MaxGets
  /\ gets' = gets \cup {[kind |-> kind, revision |-> Current(kind),
                         answered |-> FALSE, dates |-> Nothing]}
  /\ UNCHANGED <<db, drains, strays, server, others, faults, history>>

\* The items a payload of this kind names.
Named(kind) == IF kind \in Books THEN DOMAIN server \cap {kind} ELSE DOMAIN server

Respond(g) ==
  /\ ~g.answered
  /\ gets' = (gets \ {g}) \cup
       {[kind |-> g.kind, revision |-> g.revision, answered |-> TRUE,
         dates |-> [b \in Named(g.kind) |-> server[b]]]}
  /\ UNCHANGED <<db, drains, strays, server, others, faults, history>>

LoseGet(g) ==
  /\ Fault
  /\ gets' = gets \ {g}
  /\ UNCHANGED <<db, drains, strays, server, others, history>>

\* (Mutant of Admitted: no revision is expected.)
AdmittedAlways(g) == g.kind = "home" \/ DOMAIN g.dates \cap deleted = {}

\* The checks inside the transaction of applyHome, applyLibraryPayload,
\* applyCollectionPayload and applyBookInfoPayload.
Admitted(g) ==
  /\ g.kind = "seed" \/ g.revision = Current(g.kind)
  /\ g.kind = "home" \/ DOMAIN g.dates \cap deleted = {}

\* mergeOntoCachedTx: an acknowledgment younger than the request prevails.
Merged(g) ==
  [b \in DOMAIN rows \cup DOMAIN g.dates |->
     IF b \notin DOMAIN g.dates THEN rows[b]
     ELSE IF changes[b].revision > g.revision THEN changes[b].value
     ELSE g.dates[b]]

\* Every payload is stored with the revision its request started from.
Store(v, g) == views' = [views EXCEPT ![v] = [revision |-> g.revision, dates |-> g.dates]]

ApplyHome(g) ==
  /\ Store("home", g)
  /\ UNCHANGED <<revision, fence, deleted, queue, rows, changes, failed>>

\* A collection, or the payload a library page was rendered with.
ApplyCollection(g) ==
  /\ rows' = Merged(g)
  /\ Store("shelf", g)
  /\ UNCHANGED <<revision, fence, deleted, queue, changes, failed>>

\* A queued date keeps the value beneath it.
ApplyInfo(g) ==
  /\ rows' = [b \in DOMAIN rows \cup {g.kind} |->
               IF b \in DOMAIN rows /\ (b # g.kind \/ Queued(b)) THEN rows[b]
               ELSE g.dates[g.kind]]
  /\ UNCHANGED <<revision, fence, deleted, queue, changes, failed, views>>

\* (Mutant of Unqueued: the mutations of a removed book stay.)
UnqueuedNone(bs) == queue

Unqueued(bs) == {m \in queue : m.book \notin bs}

\* removeCachedItemsTx.  The home row is edited in place, the collections are not.
RemoveBooks(bs) ==
  /\ revision' = revision + 1
  /\ deleted' = deleted \cup bs
  /\ queue' = Unqueued(bs)
  /\ changes' = [b \in Books |-> IF b \in bs THEN NoChange ELSE changes[b]]
  /\ failed' = failed \ bs
  /\ UNCHANGED fence

HomeWithout(bs) ==
  [revision |-> views["home"].revision,
   dates |-> [b \in DOMAIN views["home"].dates \ bs |-> views["home"].dates[b]]]

\* (Mutant of Absent: a payload proves no absence.)
AbsentNever(g) == {}

\* A library payload names every item there is: the other cached ones are gone.
Absent(g) == DOMAIN rows \ DOMAIN g.dates

ApplyLibrary(g) ==
  \/ Absent(g) = {} /\ ApplyCollection(g)
  \/ /\ Absent(g) # {}
     /\ RemoveBooks(Absent(g))
     /\ rows' = [b \in DOMAIN g.dates |-> Merged(g)[b]]
     /\ views' = [v \in {"home", "shelf"} |->
                    IF v = "home" THEN HomeWithout(Absent(g))
                    ELSE [revision |-> g.revision, dates |-> g.dates]]

\* An explicit 404 for the page of a book, which no revision fences.
NotFound(g) == g.kind \in Books /\ DOMAIN g.dates = {}

ApplyNotFound(b) ==
  /\ RemoveBooks({b})
  /\ rows' = [c \in DOMAIN rows \ {b} |-> rows[c]]
  /\ views' = [views EXCEPT !["home"] = HomeWithout({b})]

Apply(g) ==
  /\ g.answered /\ gets' = gets \ {g}
  /\ \/ NotFound(g) /\ ApplyNotFound(g.kind)
     \/ ~NotFound(g) /\ ~Admitted(g) /\ UNCHANGED db
     \/ /\ ~NotFound(g) /\ Admitted(g)
        /\ \/ g.kind = "home" /\ ApplyHome(g)
           \/ g.kind = "library" /\ ApplyLibrary(g)
           \/ g.kind \in {"collection", "seed"} /\ ApplyCollection(g)
           \/ g.kind \in Books /\ ApplyInfo(g)
  /\ UNCHANGED <<drains, strays, server, others, faults, history>>

-----------------------------------------------------------------------------
DrainStep(t) ==
  \/ Send(t)
  \/ \E r \in drains : r.tab = t /\ (Handle(r) \/ Acknowledge(r))

Next ==
  \/ \E b \in Books, d \in Dates : Edit(b, d) \/ OtherEdit(b, d)
  \/ \E b \in Books : Delete(b)
  \/ \E t \in Tabs : DrainStep(t)
  \/ \E r \in drains : Lose(r)
  \/ \E m \in strays : HandleStray(m)
  \/ \E kind \in Lists \cup Books : Request(kind)
  \/ \E g \in gets : Respond(g) \/ Apply(g) \/ LoseGet(g)

Spec == Init /\ [][Next]_vars

\* The queue is drained on an edit, at start, on reconnection and by a retry
\* timer; GETs are answered; the library is asked for again and again, however
\* often other GETs fill the bound, which the code does not have.
FairSpec ==
  /\ Spec
  /\ \A t \in Tabs : WF_vars(DrainStep(t))
  /\ WF_vars(\E g \in gets : Respond(g) \/ Apply(g))
  /\ SF_vars(Request("library"))

-----------------------------------------------------------------------------
TypeOK ==
  /\ revision \in Nat /\ fence \in Nat /\ deleted \in SUBSET Books
  /\ queue \in SUBSET Mutation /\ (\A m, q \in queue : m.book = q.book => m = q)
  /\ rows \in Payload
  /\ changes \in [Books -> Change]
  /\ failed \in SUBSET Books
  /\ views \in [{"home", "shelf"} -> View]
  /\ drains \in SUBSET Drain
  /\ strays \in SUBSET Mutation
  /\ gets \in SUBSET Get
  /\ server \in Payload
  /\ others \in Nat /\ faults \in Nat
  /\ edited \in [Books -> Nat] /\ reached \in [Books -> Nat]
  /\ mayShow \in [Books -> SUBSET Dates]

\* The home statistics, the collections and the book's own page show the last
\* local edit of a book, or what the server has held since that edit got there:
\* an answer asked for earlier, in this tab or another, never takes it back.
NeverTakenBack ==
  \A b \in DOMAIN server :
    /\ b \in DOMAIN rows /\ ShownInfo(b) \in mayShow[b]
    /\ \A v \in {"home", "shelf"} :
         b \in DOMAIN views[v].dates => Shown(v, b) \in mayShow[b]

\* The last edit of a book is queued, or the server has had it, or its failure
\* is on record; deleting the book is the only other way out.
EditsKept ==
  \A b \in Books :
    \/ Arrived(b)
    \/ \E m \in queue : m.book = b /\ m.revision = edited[b]
    \/ b \in failed \cup deleted

\* A tab never sends a date again once a later edit of the book was handled.
NoOldResend ==
  \A r \in drains : r.stage = "sent" => r.head.revision >= reached[r.head.book]

\* Of a book that has been removed the cached rows, home, the overlay of the counts and
\* the queue hold nothing, and no late answer, of this tab or another, puts it back
\* (_overview.md:76).  The collections are the exception: their rows name and count it
\* until one is stored anew, see DeletionArrives.
DeletedStaysGone ==
  \A b \in deleted :
    /\ b \notin DOMAIN server
    /\ ~Queued(b) /\ changes[b] = NoChange
    /\ b \notin DOMAIN rows /\ b \notin DOMAIN views["home"].dates

\* Every edit leaves the queue.
Drains == <>[](queue = {})

\* A book deleted elsewhere is removed here, although edits fence the library answers
\* off, and then no collection counts it any more, also when it was the page of the book
\* that found out.
DeletionArrives ==
  \A b \in Books :
    b \notin DOMAIN server ~> b \in deleted /\ b \notin DOMAIN views["shelf"].dates
=============================================================================
