-------------------------- MODULE AnnotationBucket --------------------------
(***************************************************************************)
(* The offline bucket of one book's highlights in one tab: the edits of    *)
(* the reader wait in a queue, a flush sends them one at a time, every     *)
(* change of memory is mirrored to IndexedDB by a chain of writes nobody   *)
(* waits for, and lists of the server replace the confirmed rows.  A tab   *)
(* may die at any time and its successor starts from IndexedDB.            *)
(*                                                                         *)
(* An edit is known by its number n, which stands for what it writes.  An  *)
(* entry names the last edit of a highlight that some place knows: there   *)
(* is a row for it unless the edit was a delete.  (The number of a delete  *)
(* is remembered for the properties only; no guard reads it.)              *)
(***************************************************************************)
EXTENDS Naturals, Sequences, FiniteSets, Functions

CONSTANTS
  Ids,          \* highlights of the book
  MaxEdits,     \* bound: edits of the reader
  MaxCrashes,   \* bound: documents that die
  MaxFaults,    \* bound: IndexedDB operations that fail
  MaxStray,     \* bound: requests served after their client gave them up
  MaxLag,       \* bound: writes IndexedDB is behind when a list is asked
  Primes        \* whether the cache primer reads lists too

ASSUME BoundsAssumption ==
  /\ {MaxEdits, MaxCrashes, MaxFaults, MaxStray, MaxLag} \subseteq Nat
  /\ Primes \in BOOLEAN
  /\ IsFiniteSet(Ids)

VARIABLES
  edits,      \* the number of the last edit
  wish,       \* per highlight, what the reader asked for last
  told,       \* the edits the reader was told have failed
  snapshot,   \* bucket.state.snapshot: content confirmed by the server
  pending,    \* bucket.state.pending: the queue in memory
  hydrated,   \* bucket.hydratedPromise has resolved
  loaded,     \* what the hydration has read
  chain,      \* bucket.pendingPersist: writes not yet done, in order
  flush,      \* bucket.flushing and the mutation on its way
  list,       \* a GET of the book's highlights
  disk,       \* the tables highlights and highlightMutations
  server,     \* per highlight, the last mutation applied to it
  strays,     \* requests given up by the client, possibly still to be served
  crashes, faults

memory == <<snapshot, pending, hydrated, loaded>>
bounds == <<crashes, faults>>
vars == <<edits, wish, told, memory, chain, flush, list, disk, server, strays,
          bounds>>

-----------------------------------------------------------------------------
Entry == [n : 0 .. MaxEdits, gone : BOOLEAN]
Mutation == [id : Ids, n : 1 .. MaxEdits, gone : BOOLEAN]

NoEntry == [n |-> 0, gone |-> FALSE]
NoMutation == [id |-> "none", n |-> 0, gone |-> FALSE]
NoRows == [i \in Ids |-> NoEntry]
NoStore == [rows |-> NoRows, queue |-> NoRows]

Idle == [phase |-> "idle", head |-> NoMutation, result |-> "none"]
Claimed == [Idle EXCEPT !.phase = "claimed"]
NoList == [phase |-> "idle", fenced |-> FALSE, fresh |-> FALSE,
           rows |-> NoRows]

EntryOf(m) == [n |-> m.n, gone |-> m.gone]
MutationOf(id, entry) == [id |-> id, n |-> entry.n, gone |-> entry.gone]

\* What a reader of an entry sees: 0 where there is no row.
Row(entry) == IF entry.gone THEN 0 ELSE entry.n
Content(rows) == [i \in Ids |-> Row(rows[i])]

\* The keys of a function to distinct numbers, smallest number first.
Ascending(num) ==
  LET place(k) == Cardinality({j \in DOMAIN num : num[j] <= num[k]})
  IN  [p \in 1 .. Cardinality(DOMAIN num) |-> CHOOSE k \in DOMAIN num : place(k) = p]

\* What a filter leaves of a queue: its members at places, in their order.
Only(queue, places) ==
  LET left == Ascending([k \in places |-> k])
  IN  [p \in DOMAIN left |-> queue[left[p]]]

\* The mutations of other highlights: what coalescing keeps.
Others(queue, id) == Only(queue, {k \in DOMAIN queue : queue[k].id # id})

\* What the reader sees: a pending mutation wins over the confirmed row.
Shown(id) ==
  LET mine == {m \in Range(pending) : m.id = id}
  IN  Row(IF mine = {} THEN snapshot[id]
          ELSE EntryOf(CHOOSE m \in mine : \A o \in mine : o.n <= m.n))

\* Every persist() bumps the version a fenced list compares.
Touched == [list EXCEPT !.fresh = FALSE]

Init ==
  /\ edits = 0 /\ told = {}
  /\ wish = NoRows
  /\ snapshot = NoRows /\ pending = <<>>
  /\ hydrated = FALSE /\ loaded = NoStore
  /\ chain = <<>> /\ flush = Idle /\ list = NoList
  /\ disk = NoStore
  /\ server = NoRows
  /\ strays = {}
  /\ crashes = 0 /\ faults = 0

-----------------------------------------------------------------------------
(* The reader's edits.  A flush is claimed in the same step unless the      *)
(* browser is offline or one is running.                                    *)

Kick(online) ==
  flush' = IF online /\ flush.phase = "idle" THEN Claimed ELSE flush

\* (Mutant of Enqueue: the new mutation jumps the queue, beside the old one.)
EnqueueFirst(m) ==
  /\ pending' = <<m>> \o pending
  /\ chain' = Append(chain, [op |-> "queue", entry |-> m])
  /\ \E online \in BOOLEAN : Kick(online)

Enqueue(m) ==
  /\ pending' = Append(Others(pending, m.id), m)
  /\ chain' = Append(chain, [op |-> "queue", entry |-> m])
  /\ \E online \in BOOLEAN : Kick(online)

\* A new highlight, or another colour for one on the page.
Upsert(id) ==
  /\ edits < MaxEdits
  /\ wish[id].n = 0 \/ Shown(id) # 0
  /\ edits' = edits + 1
  /\ wish' = [wish EXCEPT ![id] = [n |-> edits', gone |-> FALSE]]
  /\ Enqueue([id |-> id, n |-> edits', gone |-> FALSE])
  /\ list' = Touched
  /\ UNCHANGED <<told, snapshot, hydrated, loaded, disk, server, strays, bounds>>

\* (Mutant of Delete: the cancelled mutation stays stored.)
DeleteKeepsStored(id) ==
  /\ edits < MaxEdits
  /\ Shown(id) # 0
  /\ edits' = edits + 1
  /\ wish' = [wish EXCEPT ![id] = [n |-> edits', gone |-> TRUE]]
  /\ \/ /\ Row(snapshot[id]) # 0
        /\ Enqueue([id |-> id, n |-> edits', gone |-> TRUE])
     \/ /\ Row(snapshot[id]) = 0
        /\ pending' = Others(pending, id)
        /\ UNCHANGED <<chain, flush>>
  /\ list' = Touched
  /\ UNCHANGED <<told, snapshot, hydrated, loaded, disk, server, strays, bounds>>

\* What was never confirmed is only taken out of the queue.
Delete(id) ==
  /\ edits < MaxEdits
  /\ Shown(id) # 0
  /\ edits' = edits + 1
  /\ wish' = [wish EXCEPT ![id] = [n |-> edits', gone |-> TRUE]]
  /\ \/ /\ Row(snapshot[id]) # 0
        /\ Enqueue([id |-> id, n |-> edits', gone |-> TRUE])
     \/ /\ Row(snapshot[id]) = 0
        /\ pending' = Others(pending, id)
        /\ chain' = Append(chain, [op |-> "unqueue", id |-> id])
        /\ UNCHANGED flush
  /\ list' = Touched
  /\ UNCHANGED <<told, snapshot, hydrated, loaded, disk, server, strays, bounds>>

-----------------------------------------------------------------------------
(* The flush: one mutation at a time, the head of the queue.                *)

\* (Mutant of NextHead: the loop turns once more on an empty queue.)
NextHeadUnchecked(q) ==
  [phase |-> "token", head |-> IF q = <<>> THEN NoMutation ELSE Head(q),
   result |-> "none"]

\* The next turn of the loop, over queue q.
NextHead(q) ==
  IF q = <<>> THEN Idle
  ELSE [phase |-> "token", head |-> Head(q), result |-> "none"]

\* By the retry timer, a network or visibility event, or resumed work.
StartFlush ==
  /\ flush.phase = "idle"
  /\ flush' = Claimed
  /\ UNCHANGED <<edits, wish, told, memory, chain, list, disk, server, strays,
                 bounds>>

\* The flush waits for the hydration before it looks at the queue.
Drain ==
  /\ flush.phase = "claimed" /\ hydrated
  /\ flush' = NextHead(pending)
  /\ UNCHANGED <<edits, wish, told, memory, chain, list, disk, server, strays,
                 bounds>>

SendHead ==
  /\ flush.phase = "token"
  /\ flush' = [flush EXCEPT !.phase = "sent"]
  /\ UNCHANGED <<edits, wish, told, memory, chain, list, disk, server, strays,
                 bounds>>

NoToken ==
  /\ flush.phase = "token"
  /\ flush' = Idle
  /\ UNCHANGED <<edits, wish, told, memory, chain, list, disk, server, strays,
                 bounds>>

\* The server applies a mutation, a repeated one too.
Apply(m) == server' = [server EXCEPT ![m.id] = EntryOf(m)]

Serve ==
  /\ flush.phase = "sent"
  /\ Apply(flush.head)
  /\ flush' = [flush EXCEPT !.phase = "answered", !.result = "ok"]
  /\ UNCHANGED <<edits, wish, told, memory, chain, list, disk, strays, bounds>>

\* A permanent refusal.
Refuse ==
  /\ flush.phase = "sent"
  /\ flush' = [flush EXCEPT !.phase = "answered", !.result = "drop"]
  /\ UNCHANGED <<edits, wish, told, memory, chain, list, disk, server, strays,
                 bounds>>

\* The request in flight may reach the server after its client is gone.
MayStray ==
  \/ UNCHANGED strays
  \/ /\ flush.phase = "sent"
     /\ Cardinality(strays) < MaxStray
     /\ strays' = strays \cup {flush.head}

\* (Mutant of Retry: a failed flush keeps its slot.)
RetryHangs ==
  /\ flush.phase \in {"sent", "answered"}
  /\ flush' = [flush EXCEPT !.phase = "hung"]
  /\ MayStray
  /\ UNCHANGED <<edits, wish, told, memory, chain, list, disk, server, bounds>>

\* A transient failure, before or after the server did its part.
Retry ==
  /\ flush.phase \in {"sent", "answered"}
  /\ flush' = Idle
  /\ MayStray
  /\ UNCHANGED <<edits, wish, told, memory, chain, list, disk, server, bounds>>

ServeStray ==
  \E m \in strays :
    /\ Apply(m)
    /\ strays' = strays \ {m}
    /\ UNCHANGED <<edits, wish, told, memory, chain, flush, list, disk, bounds>>

\* The end of a turn, which leaves queue left.  A dropped edit is told to the
\* reader and not rolled back.
Finish(left) ==
  LET m == flush.head
      unqueue == <<[op |-> "unqueue", id |-> m.id]>>
      row == <<[op |-> "row", entry |-> m]>>
  IN  /\ flush.phase = "answered"
      /\ pending' = left
      /\ flush' = NextHead(left)
      /\ \/ /\ flush.result = "ok"
            /\ snapshot' = [snapshot EXCEPT ![m.id] = EntryOf(m)]
            /\ chain' = chain \o row \o unqueue
            /\ UNCHANGED told
         \/ /\ flush.result = "drop"
            /\ told' = told \cup {m.n}
            /\ chain' = chain \o unqueue
            /\ UNCHANGED snapshot
      /\ list' = Touched
      /\ UNCHANGED <<edits, wish, hydrated, loaded, disk, server, strays, bounds>>

\* (Mutants of Acknowledge: the answer takes whatever is first in the queue,
\* or every mutation of its highlight.)
AcknowledgeFirst == Finish(IF pending = <<>> THEN <<>> ELSE Tail(pending))
AcknowledgeById == Finish(Others(pending, flush.head.id))

\* The answer takes its own mutation out of the queue; a replacement stays.
Acknowledge == Finish(Only(pending, {k \in DOMAIN pending : pending[k] # flush.head}))

-----------------------------------------------------------------------------
(* Lists of the server.  The reader's page hydrates, flushes, then asks,    *)
(* and drops an answer its bucket has moved on from.  The primer does none  *)
(* of that.                                                                 *)

LoadAnnotations ==
  /\ list.phase = "idle" /\ hydrated /\ Len(chain) <= MaxLag
  /\ list' = [NoList EXCEPT !.phase = "drain", !.fenced = TRUE]
  /\ Kick(TRUE)
  /\ UNCHANGED <<edits, wish, told, memory, chain, disk, server, strays, bounds>>

AskList ==
  /\ list.phase = "drain" /\ flush.phase = "idle"
  /\ list' = [list EXCEPT !.phase = "asked", !.fresh = TRUE]
  /\ UNCHANGED <<edits, wish, told, memory, chain, flush, disk, server, strays,
                 bounds>>

PrimeHighlights ==
  /\ Primes /\ list.phase = "idle" /\ Len(chain) <= MaxLag
  /\ list' = [NoList EXCEPT !.phase = "asked"]
  /\ UNCHANGED <<edits, wish, told, memory, chain, flush, disk, server, strays,
                 bounds>>

AnswerList ==
  /\ list.phase = "asked"
  /\ list' = [list EXCEPT !.phase = "answered", !.rows = server]
  /\ UNCHANGED <<edits, wish, told, memory, chain, flush, disk, server, strays,
                 bounds>>

\* (Mutant of ApplyList: the version is not compared.)
ApplyAnyList ==
  /\ list.phase = "answered"
  /\ snapshot' = list.rows
  /\ chain' = Append(chain, [op |-> "replace", rows |-> list.rows])
  /\ list' = NoList
  /\ UNCHANGED <<edits, wish, told, pending, hydrated, loaded, flush, disk,
                 server, strays, bounds>>

ApplyList ==
  /\ list.phase = "answered"
  /\ list.fenced => list.fresh
  /\ snapshot' = list.rows
  /\ chain' = Append(chain, [op |-> "replace", rows |-> list.rows])
  /\ list' = NoList
  /\ UNCHANGED <<edits, wish, told, pending, hydrated, loaded, flush, disk,
                 server, strays, bounds>>

\* The request fails, is aborted, or its answer comes too late.
DropList ==
  /\ list.phase # "idle"
  /\ list' = NoList
  /\ UNCHANGED <<edits, wish, told, memory, chain, flush, disk, server, strays,
                 bounds>>

-----------------------------------------------------------------------------
(* IndexedDB.                                                               *)

\* (Mutant of Written: a list is put beside the rows that are there.)
WrittenBeside(w) ==
  CASE w.op = "queue" -> [disk EXCEPT !.queue[w.entry.id] = EntryOf(w.entry)]
    [] w.op = "unqueue" -> [disk EXCEPT !.queue[w.id] = NoEntry]
    [] w.op = "row" -> [disk EXCEPT !.rows[w.entry.id] = EntryOf(w.entry)]
    [] w.op = "replace" ->
         [disk EXCEPT !.rows =
            [i \in Ids |-> IF Row(w.rows[i]) = 0 THEN @[i] ELSE w.rows[i]]]

\* The store after write w.
Written(w) ==
  CASE w.op = "queue" -> [disk EXCEPT !.queue[w.entry.id] = EntryOf(w.entry)]
    [] w.op = "unqueue" -> [disk EXCEPT !.queue[w.id] = NoEntry]
    [] w.op = "row" -> [disk EXCEPT !.rows[w.entry.id] = EntryOf(w.entry)]
    [] w.op = "replace" -> [disk EXCEPT !.rows = w.rows]

RunWrite ==
  /\ chain # <<>>
  /\ disk' = Written(Head(chain))
  /\ chain' = Tail(chain)
  /\ UNCHANGED <<edits, wish, told, memory, flush, list, server, strays, bounds>>

\* The chain swallows the failure and goes on.
FailWrite ==
  /\ chain # <<>> /\ faults < MaxFaults
  /\ chain' = Tail(chain)
  /\ faults' = faults + 1
  /\ UNCHANGED <<edits, wish, told, memory, flush, list, disk, server, strays,
                 crashes>>

\* The stored mutations of highlights kept, oldest edit first.
Stored(kept) ==
  LET order == Ascending([i \in kept |-> loaded.queue[i].n])
  IN  [k \in DOMAIN order |-> MutationOf(order[k], loaded.queue[order[k]])]

\* (Mutant of Restored: what memory has replaced comes back too.)
RestoredUnmerged == Stored({i \in Ids : loaded.queue[i].n # 0})

\* The stored queue without what memory has replaced.
Restored ==
  Stored({i \in Ids : loaded.queue[i].n # 0
                      /\ i \notin {m.id : m \in Range(pending)}})

\* What the tables held when the document opened joins what happened since.
Hydrate ==
  /\ ~hydrated
  /\ hydrated' = TRUE
  /\ pending' = Restored \o pending
  /\ snapshot' = IF \E i \in Ids : Row(snapshot[i]) # 0 THEN snapshot ELSE loaded.rows
  /\ loaded' = NoStore
  /\ list' = Touched
  /\ UNCHANGED <<edits, wish, told, chain, flush, disk, server, strays, bounds>>

\* Without IndexedDB the bucket works in memory.
FailHydrate ==
  /\ ~hydrated /\ faults < MaxFaults
  /\ hydrated' = TRUE
  /\ faults' = faults + 1
  /\ loaded' = NoStore
  /\ UNCHANGED <<edits, wish, told, snapshot, pending, chain, flush, list, disk,
                 server, strays, crashes>>

\* The document dies with its memory and its unwritten chain; the next one
\* reads the tables before any write of its own.
Crash ==
  /\ crashes < MaxCrashes
  /\ crashes' = crashes + 1
  /\ snapshot' = NoRows /\ pending' = <<>>
  /\ hydrated' = FALSE /\ loaded' = disk
  /\ chain' = <<>> /\ flush' = Idle /\ list' = NoList
  /\ MayStray
  /\ UNCHANGED <<edits, wish, told, disk, server, faults>>

-----------------------------------------------------------------------------
Next ==
  \/ \E id \in Ids : Upsert(id) \/ Delete(id)
  \/ StartFlush \/ Drain \/ SendHead \/ NoToken
  \/ Serve \/ Refuse \/ Retry \/ ServeStray \/ Acknowledge
  \/ LoadAnnotations \/ AskList \/ PrimeHighlights \/ AnswerList
  \/ ApplyList \/ DropList
  \/ RunWrite \/ FailWrite \/ Hydrate \/ FailHydrate \/ Crash

Spec == Init /\ [][Next]_vars

\* A queued edit is tried again and again (timer, network, visibility, page
\* load), and a request sent again and again is answered in the end.
Fairness ==
  /\ WF_vars(StartFlush /\ pending # <<>>)
  /\ WF_vars(Hydrate) /\ WF_vars(Drain) /\ WF_vars(Acknowledge)
  /\ SF_vars(SendHead) /\ SF_vars(Serve) /\ SF_vars(Acknowledge)

FairSpec == Spec /\ Fairness

-----------------------------------------------------------------------------
(* Properties *)

Write == [op : {"queue", "row"}, entry : Mutation]
         \cup [op : {"unqueue"}, id : Ids]
         \cup [op : {"replace"}, rows : [Ids -> Entry]]
Store == [rows : [Ids -> Entry], queue : [Ids -> Entry]]

\* Every variable has its type.
TypeOK ==
  /\ edits \in 0 .. MaxEdits
  /\ wish \in [Ids -> Entry]
  /\ told \subseteq 1 .. MaxEdits
  /\ snapshot \in [Ids -> Entry]
  /\ pending \in Seq(Mutation)
  /\ hydrated \in BOOLEAN /\ loaded \in Store
  /\ chain \in Seq(Write)
  /\ flush \in {Idle, Claimed} \cup
       [phase : {"token", "sent", "answered"}, head : Mutation,
        result : {"none", "ok", "drop"}]
  /\ list \in [phase : {"idle", "drain", "asked", "answered"},
               fenced : BOOLEAN, fresh : BOOLEAN, rows : [Ids -> Entry]]
  /\ disk \in Store
  /\ server \in [Ids -> Entry]
  /\ strays \subseteq Mutation
  /\ crashes \in 0 .. MaxCrashes /\ faults \in 0 .. MaxFaults

\* Coalescing: a highlight has at most one mutation in the queue, also after
\* the stored queue has joined it.
OnePerHighlight ==
  \A i, j \in DOMAIN pending : pending[i].id = pending[j].id => i = j

\* No edit is lost in silence: the last upsert of a highlight waits in the
\* queue, is on the server, or the reader was told that it failed.  (A tab that
\* dies takes the writes it still owed IndexedDB with it.)
EditsKept ==
  crashes = 0 => \A i \in Ids :
    wish[i].n # 0 /\ ~wish[i].gone =>
      \/ \E m \in Range(pending) : m.id = i /\ m.n = wish[i].n
      \/ server[i].n = wish[i].n
      \/ wish[i].n \in told

\* Once the chain has caught up, the stored rows are the confirmed rows.
RowsMirrored ==
  hydrated /\ chain = <<>> => Content(disk.rows) = Content(snapshot)

\* Once the chain has caught up, no mutation that has left the queue in memory
\* is still stored, to be sent again after a reload.
NoGhost ==
  hydrated /\ chain = <<>> =>
    \A i \in Ids : disk.queue[i].n # 0 =>
      \E m \in Range(pending) : m.id = i /\ m.n = disk.queue[i].n

\* Once the chain has caught up, every mutation in the queue is stored.
QueueMirrored ==
  hydrated /\ chain = <<>> =>
    \A m \in Range(pending) : disk.queue[m.id] = EntryOf(m)

\* A highlight the reader deleted stays off the page.
DeletedStaysGone ==
  \A i \in Ids : wish[i].gone /\ wish[i].n \notin told => Shown(i) = 0

\* The server takes the mutations of a highlight in the order they were made, as
\* long as the tab lives that made them.
InOrder ==
  [][crashes = 0 => \A i \in Ids : server'[i].n >= server[i].n]_<<server, crashes>>

\* A list never takes a highlight back to what an answer has replaced: neither
\* to an older content nor to life, as long as the tab lives.
ListsOnlyCatchUp ==
  [][crashes' = 0 /\ list.phase = "answered" /\ list'.phase = "idle" =>
       \A i \in Ids : snapshot'[i].n >= snapshot[i].n]_<<list, snapshot, crashes>>

\* What the reader wrote stays on the page as written, through sending,
\* answers, retries and lists, until the reader changes it or is told, or the
\* tab dies.
EditsStayShown ==
  [][\A i \in Ids :
       crashes' = 0 /\ hydrated /\ wish'[i] = wish[i] /\ ~wish[i].gone /\ wish[i].n \notin told' =>
         Shown(i)' = Shown(i)]_vars

\* The queue drains.
Drains == []<>(pending = <<>>)

=============================================================================
