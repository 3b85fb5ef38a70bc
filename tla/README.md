# Ava Reader: verification project

TLA+ models of the core protocols of Ava Reader, the TLC runs that check them on
small instances, and theorems about them that the TLA+ proof system checks for
every instance. All paths below are paths of the repository (`src/` is its root
here). `PROJECT.json` maps each definition to the lines it stands for.

Ava Reader is an offline-first book reader: a Next.js web app (`apps/web`), a
NestJS API (`apps/api`) over PostgreSQL, and a catalog service with an importer
(`apps/catalog`). Its own core logic, and what is hard to get right in it, is in
the offline layer of the web app (`apps/web/features/offline`) and in the API
handlers it talks to: state kept in memory, mirrored to IndexedDB, shared by the
tabs of a browser profile, and brought to the server by queues that survive
reloads, retries and late answers.

## 1. Inventory

Every part, with its state, its operations, who it talks to, what is hard, and
what makes it correct. The files of each part are under `components` in
`PROJECT.json`.

### Reading time

**Reading session tracker** (`buckets/sessions`: `tracker.ts`, `tracker-owner.ts`,
`claim-session.ts`, `checkpoint-session.ts`, `recover-sessions.ts`, ...; modelled
by `SessionTracker`).
*State*: per open book a promise chain of ticks, the last moment measured, the
active session; per profile the Web Lock, the lease in the `meta` table and the
rows of the `sessions` table. *Operations*: start, tick, stop (frozen at the
moment of the event), claim, checkpoint, recovery before an upload. *Talks to*:
the reader's lifecycle events, IndexedDB, `navigator.locks`, the upload.
*Hard*: duplicate tabs, a lock wait aborted by a hide, suspended machines and two
clocks that disagree, transactions that fail or die with their document.
*Correct when*: one run at a time, the lease and the open run agree, only
foreground time is counted, a run that nobody records any more is closed.

**Checkpoint upload** (`sync.ts`, `sync-session.ts`, `post-checkpoint.ts`,
`acknowledge-checkpoint.ts`; modelled by `CheckpointSync`).
*State*: the rows with their revision, acknowledged revision and drop mark; the
list an upload has read; the request in flight. *Hard*: rows that grow while
their upload is under way, two tabs uploading the same row, requests served
after their client gave them up, answers about older revisions. *Correct when*:
an acknowledgment retires exactly what the server has, and every closed run is
credited or rejected for good.

**Checkpoint endpoint** (`apps/api/src/reader/sessions`; modelled by
`CheckpointSync`). *State*: `ReadingSession`, its credited seconds, the user's
reading revision. One transaction per checkpoint under the locks of the item and
the session. *Hard*: cumulative checkpoints in any order, after the item was
deleted. *Correct when*: credited seconds are those of the greatest revision,
once, and an honest client is never answered with a conflict.

**Home reading statistics** (`features/offline/stats`, `buckets/home`,
`apps/api/src/home`; modelled by `CheckpointSync` as far as total seconds go).
*State*: the cached home snapshot with its revision and coverage. *Operations*:
fetch, keep the newer, add what the coverage lacks from local rows. *Hard*:
snapshots out of order over rows that are ahead of or behind them. *Correct
when*: no second is shown twice or left out, and the total does not fall.

**Local-day split** (`split-session-seconds.ts`, `session-segments.ts`): a pure
computation over time zones. Not modelled yet.

### Annotations

**Highlight bucket** (`buckets/highlights` over `buckets/shared`; the handlers of
`apps/api/src/annotations`; modelled by `AnnotationBucket`).
*State*: confirmed rows and the queue in memory, the chain of IndexedDB writes
nobody waits for, the tables, one flush slot, a version that fences lists.
*Operations*: upsert and delete with coalescing, flush, acknowledge or drop,
hydrate, apply a list. *Hard*: edits of what is in flight, lists read before an
answer and applied after it, hydration joining newer state, a reload at any
point of the chain, requests served late. *Correct when*: no edit is lost or
overtaken, what the reader wrote stays on the page, and the tables follow memory.

**AI comment bucket** (`buckets/ai-comments`, `apps/api/src/ai-comments`): the
same shared core with create and delete. Not modelled separately.

### Reading position

**Reading progress** (`buckets/progress`, `features/reader/resume.ts`, the reader's
`progress-sync` hooks, `apps/api/src/reader/progress`; modelled by `ReadingProgress`).
*State*: per device one row per book with a dirty mark and the time of the reading,
the resume snapshot in `localStorage`, what the open reader shows and last had
acknowledged; on the server one stored position with its reading time.
*Operations*: open, turn, close, upload by the open reader (on a timer and when the
page is hidden) and by the background runner, the primer's GET. *Hard*: a row that
moves on, even back to the same place, while its upload is in flight; two uploads of
one device and uploads of several devices in any order; a GET that answers after a
local reading; an effect that runs again because an answer changed something it
depends on. *Correct when*: no reading is forgotten, the most recent one wins, a
clean row is current, and a dirty row is settled in the end.

### Library

**Finish-date queue** (`buckets/library/finish-date`), **completion counts**
(`features/offline/completion`) and **library views and deletion** (`buckets/library`,
`buckets/home`, `apps/api/src/library/items`; modelled together by
`CompletionCounts`, as far as finish dates go).
*State*: the queue of finish dates, the completion and finish-date revisions, the
acknowledged changes kept per book, the cached home, collection and book pages with
the revision each was asked for at, the tombstones. *Operations*: set or clear a
finish date, drain, acknowledge or fail, ask for and apply each aggregate, remove
what the server no longer has. *Hard*: aggregates refresh one by one, before or after
the acknowledgment of a date they may or may not contain; a date edited or its book
deleted while its request is in flight; answers that still name a removed book.
*Correct when*: no page takes back an edit, each edit is kept until it was handled,
old dates are not sent after newer ones, and a removed book stays removed.

**Membership, offline-intent and catalog-link queues**
(`buckets/library/{membership,offline-intent,catalog-link}`): three queues with
coalescings of their own. Not modelled (the local flags of an offline intent are,
in `BookDownloads`).

### Offline copies

**Book content cache** (`buckets/book`, the book-info card, the pass of the primer
over wanted books; modelled by `BookDownloads`).
*State*: `books`, `bookChapters` and three flags of the library row in IndexedDB; in
memory of each tab a status, a slot and the waiters per book, and the runs of
`saveBookOffline`. *Operations*: request, cancel, abort, keep, release and remove on
the card; automatic save and eviction by the reader; fetching in windows by several
workers, the pass over the gaps, the row last. *Hard*: three callers and one slot;
workers that go on after their run has failed; deletions that do not ask the slot; a
run that was superseded and cleans up. *Correct when*: a book's row is there only
with all its chapters, a failing run takes nothing a successful one has made, and
every run ends and tells who waits for it.

**Translations** (`buckets/translations`): demand and state of chapter
translations. Not modelled.

### The rest of the offline layer (not modelled)

- **Preferences, profile, readers**: one dirty row each, the smaller siblings of
  reading progress.
- **Identity and database lifecycle**: one database per account; every queue
  re-checks `db !== getDb()` after an await. An account switch between reading
  pending rows and sending or answering one (`sessions/sync.ts:33`) is a hazard no
  property here covers.
- **Connectivity, service worker, the lighter passes of the primer**: when requests
  are tried, and caches.

### Servers and the rest (not modelled)

**Catalog importer, linking, publication** (`apps/catalog`): batches with retries
and crashes between them; candidates for a later stage. **Home payload, catalog
browsing, accounts, feedback**: handlers of one transaction or read-only
aggregation over PostgreSQL. **Book analysis, narration**: calls of external
models. **Reader**: parsing, layout and rendering. **Mobile**: no code yet.

## 2. Modules

| module | models | role |
|---|---|---|
| `SessionRows` | the promise of the sessions table, abstractly | abstract specification |
| `SessionRowsProofs` | what that promise comes to | proofs |
| `SessionTracker` | tabs, queues, locks, leases, transactions, recovery | implements `SessionRows` |
| `SessionTrackerProofs` | one open run, foreground time only, the tracker refines `SessionRows` | proofs |
| `CheckpointSync` | rows, uploads, network, endpoint, home total | takes its rows' steps from `SessionRows` |
| `CheckpointSyncProofs` | no rejection, no false acknowledgment | proofs |
| `CheckpointTotals` | why the displayed total is right | proofs |
| `AnnotationBucket` | edits, flush, mirror, hydration, lists, crash | one tab, one book |
| `AnnotationBucketProofs` | its invariants and action properties | proofs |
| `ReadingProgress` | rows, readers, uploads and GETs of several devices, the endpoint | one book |
| `ReadingProgressProofs` | nothing forgotten, most recent wins | proofs |
| `CompletionCounts` | finish dates, their queue, the aggregates, deletion | tabs of one account, other devices |
| `CompletionCountsProofs` | its five safety properties | proofs |
| `BookDownloads` | runs, slots, workers, card, reader, primer, eviction | one tab, several books |
| `BookDownloadsProofs` | whole books, spared books | proofs |
| `MCSessionTracker`, `MCCheckpointSync`, `MCAnnotationBucket`, `MCReadingProgress`, `MCCompletionCounts`, `MCBookDownloads` | instances for TLC | constants, symmetry |

`SessionRows` is where the two halves of reading time meet. `SessionTracker` shows
that the tabs of a profile write rows of that shape: `TableSpec`, the abstract
specification under the identity, checked and proved. `CheckpointSync` *assumes* rows
that change in just those ways (its `Claim`, `Checkpoint` and `Recover` are the steps
of `SessionRows` with the upload's columns added) and follows them to the server and
back; the tracker's refinement is what discharges that assumption, so the upload states
no refinement of its own. So the upload need not repeat tabs and locks, and the
tracker need not repeat the network.

### SessionTracker and the code

| code | model |
|---|---|
| `record()` freezes a moment and chains a job (`tracker.ts:22`) | `Record` inside `OpenPage`, `Show`, `Hide`, `Heartbeat` |
| the `pending` promise chain (`tracker.ts:32`) | `queue`; `phase` is where the head job waits |
| generation and moment checks of `persist` (`tracker.ts:51`) | `Stale`, `DropStaleTick` |
| `createTrackerOwner` (`tracker-owner.ts`) | `active`, `lock`, `Acquire`, `AfterCheckpoint`, `Release` |
| `measureReadingTick`, `advanceSession` | `Interrupted`, `Advance` |
| the transactions of `checkpointSession`, `claimSession` | `SaveCheckpoint` / `LoseSession`, `ClaimSession` / `RefuseClaim`; they run in the order they were opened (`txs`) |
| a stop that aborts a lock request | `Record` with `stop` on a tab that waits |
| `retryFinalCheckpoint` | `FinalFails`: a stop keeps its job, its run and the lock, and opens a new transaction behind those opened meanwhile |
| `recoverSessions` | `Recover` |

A document runs its promise jobs before time passes (`Settled`); between two
jobs, and between a transaction and its continuation, everything else may
happen. Both kinds of browser are checked in one run: `webLocks` is chosen at
the start and never changes.

### CheckpointSync and the code

| code | model |
|---|---|
| `uploadPendingCheckpoints` reads a list, then works through it (`sync.ts:31`) | `StartUpload`, `Send`, `StopUpload`; `batch` holds copies as read |
| deadline, lost request, lost answer (`post-checkpoint.ts`) | `GiveUp` (the request joins `stray`), `Refuse` |
| `saveReadingCheckpoint` | `Save`: `HasAccess`, then `checkpointShouldAdvance` as `Mismatch`, `Known`, `Reopens`, `Shortens` in its order, then `Credit` |
| `readCheckpointResponse`, `acknowledgeCheckpoint` | `Answer`, `AfterReply` |
| `readingCoverage` in the home transaction | `RequestHome` |
| `retainNewerReading`, `composeHomeReading` | `ApplyHome`, `Displayed` |

Segments per local day and minutes per book are one credited number, `total`.

### AnnotationBucket and the code

| code | model |
|---|---|
| `commit`, `enqueueDelete` (`mutations-core.ts`) | `Upsert`, `Delete`, `Enqueue` |
| `flushBucket`, `doFlush` (`sync-core.ts`) | `Kick`, `StartFlush`, `Drain`, `SendHead`, `NoToken`, `Retry`, `Acknowledge`; `flush` is the slot |
| `trackPersist` (`bucket-core.ts`) | `chain`, `RunWrite`, `FailWrite` |
| `hydrate` (`bucket-registry.ts`) | `Hydrate`, `FailHydrate`, `Restored` |
| `loadAnnotations` with its version fence | `LoadAnnotations`, `AskList`, `AnswerList`, `ApplyList`, `DropList`; every `persist` clears `fresh` |
| `revalidateHighlights` (primer) | `PrimeHighlights` |
| `upsert`, `remove` of the annotations service | `Apply` |

An edit is a number. It stands for the content it writes, which makes "older"
and "newer" expressible without modelling text or colours; the number of a
delete is kept for the properties alone and no guard reads it.

### ReadingProgress and the code

| code | model |
|---|---|
| `useLocalProgressSnapshot` writes `localStorage` and the row | `Snapshot`, inside `Open`, `Move` and `Restamp` (the effect that runs again) |
| `selectPreferredReaderResumeSnapshot` (`resume.ts`) | `Resumed` |
| `persistPendingProgress`, `flushDirtyProgress` | `ReaderUpload`, `RunnerUpload` |
| `updateReadingProgress` on the server: read with the item, compare, write | `Load`, then `Save` with `Older` |
| `markProgressSyncedIfUnchanged`, then the reader's refs | `Acknowledge`, `SameWrite`, `Adopted`, `Answered` |
| the GET of the primer and its fence by the completion revision | `StartGet`, `ServeGet`, `ApplyGet`, `Fence` |
| lost requests, deadlines, destroyed pages | `Lose`, `GiveUp`, `Crash` |

### CompletionCounts and the code

| code | model |
|---|---|
| `setBookFinishedAt` (`finish-date/mutation.ts`) | `Edit`, `Put` |
| `drainWithLock`, `drain` (`finish-date/sync.ts`) | `MayDrain`, `Send`, `Lose`; one record of `drains` per tab that holds the lock |
| `setFinishedAt`, `deleteLibraryItem` (API) | `Handle`, `HandleStray`, `OtherEdit`, `Delete` |
| `acknowledgeFinishDate` | `Acknowledge`: `Settled`, `Record` |
| `effectiveCompletion`, `composeCompletedCount`, `readBookInfoSnapshot` | `Shown`, `ShownInfo` |
| the GETs of `revalidate.ts` and `buckets/home` | `Request`, `Respond`, `LoseGet`, `Apply` |
| the checks and merges when an answer is stored | `Admitted`, `Merged`, `Store`, `Absent`, `ApplyNotFound` |
| `removeCachedItemsTx`, `removeCachedHomeItems` | `RemoveBooks`, `HomeWithout`, `Unqueued` |

A count is the sum over the items it counts; the model keeps the finish date of each
item instead, which is what the counts are summed from and what the pages of the
books show.

### BookDownloads and the code

| code | model |
|---|---|
| the effects of the card and of `BookContextProvider`, `primeBookContent` | `CardAsks`, `ReaderAsks`, `PrimerReads` (the wanted books and the one home would continue with), `PrimerTakes`; an `ask` is a save that still looks at the quota |
| `saveBookOffline` up to its first fetch, `registerInFlight`, `abortInFlightExcept` | `Start`, `Aborts` |
| `fetchReaderPayload`, cache first, and the server's window | `Fetch`, `Cached`, `Answer`, `Window`; an answer about another chapter (`reader-payload.ts:75`) is `AnswerOther`, one that is not READY (`:48`) `AnswerNothing` |
| `withConcurrency` | `Take`; `crew` counts the idle workers, `jobs` are the fetches of the busy ones |
| `pickStrideTargets`, the gaps pass | `StrideTargets`, `Missing`, `FillGaps` |
| `persistChaptersFromPayload`, `readCachedChapterIds`, `applyBookContent`, `markBookSaved` | `Persist`, `ReadCachedChapters`, `Finish`, `ReadFlags` then `WriteFlags` (a read and a write in two transactions) |
| `handleFailure`, `clearInFlight`, `abortSaveAndWait` | `HandleFailure`, `Owns`, `Close`, `ClearInFlight`, `AbortSave`; `aborting` is the card's own state, lost when it is left |
| the card's other clicks | `Request`, `CancelSave`, `KeepOffline`, `ReleaseOffline`, `RemoveDownload` then `Remove` |
| `evictStaleAutoSaves` | `ListStale`, then `Evict` book by book |

`pickStrideTargets` is a loop over a growing set in the code; as the slices of its
anchors do not overlap, what an anchor adds to that set never decides about another,
so the model states the result as a set.

## 3. Runs

Each run answers one question; its bounds are constants of its cfg.

| run | checks | instance | states |
|---|---|---|---|
| `tracker` | `TypeOK`, `OneOpenRunLeased`, `ActiveHoldsLock`, `OnlyForegroundCredited`, `TableSpec` | 2 tabs, 2 ids, 2 ticks, gap 1, 2 faults, locks and leases | 0.9 M |
| `tracker_live` | `RunsEnd` | 1 tick, 1 fault, no symmetry | 110 k |
| `upload` | `TypeOK`, `NeverRejected`, `AckedIsCredited`, `Settles` | 2 tabs, 1 run of up to 2 revisions, 1 stray request | 81 k |
| `shown` | `CreditIsRecorded`, `NeverDoubleCounted`, `NothingMissing`, `DisplayNeverFalls` | 1 tab, 2 home requests at once, 1 foreign credit | 0.9 M |
| `bucket` | `EditsKept`, `InOrder`, `ListsOnlyCatchUp`, `EditsStayShown`, `RowsMirrored`, `NoGhost` | 2 highlights, 3 edits, 1 crash, chain up to 3 | 2.3 M |
| `bucket_live` | `TypeOK`, `OnePerHighlight`, `Drains` | 1 highlight, 2 edits, 1 each of crash, fault, stray; primer | 0.5 M |
| `bucket_queue` | `QueueMirrored` violated | 1 highlight, 2 edits | finding 1 |
| `bucket_deleted` | `DeletedStaysGone` violated | 1 highlight, 2 edits | finding 2 |
| `progress` | `TypeOK`, `NoReadingForgotten`, `NewestWins`, `CleanIsCurrent`, `Settles` | 1 device, 3 instants, 2 uploads at once, 2 faults | 202 k |
| `progress_restamp` | `NoStaleRewind` violated | 2 devices | finding 3 |
| `completion` | `TypeOK`, `EditsKept`, `NeverTakenBack`, `NoOldResend`, `DeletedStaysGone`, `Drains`, `DeletionArrives` | 1 tab, 1 book, 2 edits, 1 GET at a time, 1 change elsewhere, 1 fault | 672 k |
| `downloads` | `TypeOK`, `WholeBook`, `FailuresTakeNothing`, `Settles` | books of 4 and 1 chapters, 2 runs at once, 2 workers, 2 intents, 1 fault | 0.9 M |

### What the properties say

*Tracker.* `OneOpenRunLeased`: an open run is always the one the lease names, over
claims, takeovers, crashes and recovery. `ActiveHoldsLock`: with locks, only the
holder ever has a session, which is why a recovery that finds the lock free
cannot close a live run. `OnlyForegroundCredited`: a checkpoint never gives a run
more than the time its own tab spent visible since the run began (`seen` is a
history variable kept by the clock, not by the code's arithmetic). `RunsEnd`: a
run whose tab is hidden, dead or robbed is closed in the end.

*Upload.* `NeverRejected`: no copy in any list, request or stray request would be
refused as reopening, shortening or contradicting. `AckedIsCredited`: the server
has at least what a row counts as uploaded, and a row with nothing to upload is
credited to the second. `CreditIsRecorded`: the server's total is the sum of what
it credits and never more than was recorded. `NeverDoubleCounted`,
`NothingMissing`, `DisplayNeverFalls`: the total on the page. `Settles`: every
closed run is credited in full or rejected for good.

*Bucket.* `EditsKept`: the last upsert of a highlight is queued, on the server, or
reported as failed. `InOrder`: the server never goes back to an older edit.
`ListsOnlyCatchUp`: a list never undoes an answer. `EditsStayShown`: what the
reader wrote is what is on the page. These four speak of a tab that lives: one
that dies takes the writes it still owed IndexedDB with it, so the next tab may
honestly know less. `RowsMirrored`, `NoGhost`: once the chain is through, the
tables hold the confirmed rows and no mutation that has left the queue, and
these hold across the crash. `OnePerHighlight`: coalescing survives hydration.
`Drains`: the queue empties again and again.

*Progress.* `NoReadingForgotten`: a row is clean only when the server has compared the
device's last reading with its own; neither an acknowledgment of an earlier write nor
a response asked for before the reading clears it. `NewestWins`: once compared, that
reading or a later one is what the server holds. `CleanIsCurrent`: a clean row shows
it. `Settles`: a dirty row is settled, whether the reader stays open or not.

*Completion.* `NeverTakenBack`: on each page, a finish date is the last local edit or
something the server has held since that edit got there. `EditsKept`: the last edit
is queued, or was handled, or its failure is on record. `NoOldResend`: no date is sent
once a later one was handled. `DeletedStaysGone`: a removed book is not in the cached
rows, not in the counts of home, not in the overlay and not in the queue, and does not
come back there however late an answer names it. It does *not* speak of the
collections: what a removal leaves in their rows is observation 4, and a later
collections answer that still names the book is kept out by its tombstone
(`ShelfForgets`). `Drains`: every edit leaves the queue. `DeletionArrives`: a book deleted
elsewhere is removed here, in the end from the collections too, although edits keep
fencing off the answers that would say so.

*Downloads.* `WholeBook`: the row of a book comes only with all its chapters, but for
those in `lacks`: deleted by a removal or an eviction while a run of the book was
fetching (observation 5), or left out of the server's answer to the gaps pass
(observation 6). So overlapping runs, failures, aborts, crashes and answers the pool
went without cost no chapter; without the exceptions, as the code's comments state it,
the property is false of the code.
`FailuresTakeNothing`: a whole book is deleted by a removal, by an eviction, or by the
run that owns it when that was aborted, never by the failure or the end of another.
`Settles`: again and again no book has a run or anyone waiting for one, and a wanted
book whose card is open is there; a book that came without its first chapter is
exempt (observation 7).

### Why the bounds are enough

- Two tabs are what it takes to fight over a lock, a lease or a row; with two
  ids a run can replace another. Two ticks with a gap of one allow a run to grow,
  to be suspended over the limit, to lose its lease, and to reach the (scaled) 24
  hours; two faults allow a crash after a failed transaction or a second crash.
- A first revision and a closing one, with two tabs and a stray request, allow an old
  copy to be served after a newer one and an answer to arrive for a row that moved on;
  for longer runs there are the theorems. Runs do not interact in the endpoint (each
  has its own advisory lock), so a second run adds only its place in the sum.
  In `shown` the instants 0, 400 and 1600 ms round to 0 and to 2 s, and their difference,
  1200 ms, to 1 s, so seconds round down, up, and not at all to what they add up to.
- A third edit is needed for a mutation, its replacement in flight, and one of
  another highlight between them. `ShortChain` bounds how far IndexedDB lags.
- One device with two uploads at once has what a row, its acknowledgment and its late
  copies can do to each other; what a second device adds is a third writer of the
  server's row, which the theorems cover and `progress_restamp` needs.
- One book and one tab suffice for the aggregates: the tabs share the database, and a
  second one differs only in who holds the drain lock; books meet only in the
  tombstones and in the answers that name them all. The theorems cover any number.
- Two books are what it takes for a run to abort another and for an eviction; two runs
  of one book overlap, and the worker that outlives its run is the third party. A book
  of four chapters has an anchor, a last chapter no slice reaches, and a chapter the
  walk leaves to the pass over the gaps (when the first answer brings an anchor but
  not its neighbour, or an answer comes without its chapter), and one of a single
  chapter is the other branch of `pickStrideTargets`. The server adds one chapter on
  each side, as the repository's does; the theorems hold for any window, the asymmetric
  one the client is written for (`download.ts:345`, `:375`) included.
- `MaxFaults`, `MaxCrashes`, `MaxStray` bound how often something goes wrong, not
  when. `CHECK_DEADLOCK FALSE` is set where the bounded clock, ids or revisions
  run out and the model may really stop; the bucket's runs check deadlock.

### Fairness

- `SessionTracker!Fairness`: the clock goes on (to its bound); a promise chain and
  its transactions go on; the browser grants a free lock to a waiting tab (strong
  fairness, since the lock may be taken and freed in between); a visible tab's
  timer fires (`subscribeToReaderLifecycle`); the upload, which recovers first,
  runs again (`AccountSyncRunner` starts it every 30 seconds while the app is visible
  and online, and on each network or visibility event). The clock's
  bound stands for a moment past every lease (`LeaseExpired`).
- `CheckpointSync!Fairness`: uploads are started while a row needs one, and the loop
  goes on to the next row whatever became of the last; a row sent again and again
  is served and its answer received at last. Nothing is assumed of `GiveUp`,
  `StopUpload` or `Refuse`, which may happen forever in between.
- `AnnotationBucket!Fairness`: a queued edit is tried again (retry timer, network and
  visibility events, page load), a request tried again and again is answered at
  last. No crash, fault or list is assumed to happen or not to.

- `ReadingProgress!FairSpec`: the runner tries again while a row is dirty, what reaches
  the server is worked off, what is answered is delivered. Faults are bounded.
- `CompletionCounts!FairSpec`: a tab drains while something is queued (on the edit,
  `mutation.ts:32`; by the re-check after a drain, `sync.ts:22`, the retry timer,
  `sync.ts:68`, reconnection, `sync.ts:12`, and at start, `resume-pending-work.ts:45`);
  GETs are answered and applied; the library is asked for again and again (at
  start, on reconnection, when the tab becomes visible). That request needs strong
  fairness only because `MaxGets` can keep it waiting, a bound the code does not have.
- `BookDownloads!FairSpec`: for each book, weak fairness of everything the page has
  begun for it: an effect of the open card, a run about to start, a worker, an answer.
  It is stated book by book because one book may be saved again without end
  (observation 7), and that does not keep the promises of the others from going on.
  Navigation, clicks and deletions are not assumed to happen.

## 4. Theorems

Every safety invariant and action property of the passing runs is also a theorem,
proved for every value of the constants that satisfies the module's assumption.
Where a theorem needs more than that, it says so in its statement.

### Reading time

`SessionTrackerProofs` proves, for any tabs and ids, any clock, gap, length of a run,
tolerance, queue and number of faults, with Web Locks or without
(`TrackerAssumption`: the numbers are natural, the gap is shorter than the longest run,
a queue holds a job):

- `TrackerTyped`: `Spec => []TypeOK`;
- `OneOpenRun`: `Spec => []OneOpenRunLeased`;
- `LockHolderOnly`: `Spec => []ActiveHoldsLock`;
- `ForegroundOnly`: `Spec => OnlyForegroundCredited`;
- `TrackerRefinesTable`: `Spec => TableSpec`, and by it `TrackerRunsApart`: no two runs
  share time.

All rest on `TrackerInvariant`, an inductive invariant of ten parts. A tab's queue, its
phase and its session fit each other (`JobsWell`), and exactly the tabs that wait for a
transaction have one opened (`TxsWell`). With locks, a tab that has a session or is
claiming one holds the lock (`LocksWell`); the session of a tracker is a run of the
table and no other tracker's (`OwnRows`); an open row is the one the lease names
(`OneOpenRunLeased`). The moments a tab has read and may still use are ordered on both
clocks (`ClocksWell`), and transactions opened before a claim's carry no later moment
(`TxsInOrder`), so a claim begins no earlier than every other run has ended
(`EndsWell`), which is what the refinement of `SessionRows` needs.
`OnlyForegroundCredited` compares a sum of differences of clock readings, taken at
different moments and used later or never, with the time the page was visible.
`Credited` ties them together: some function gives the run's foreground time at each
monotonic time it is or will be measured between, never more than there was and, for
two times that are no gap apart, growing at least as much as they differ; and the run
is credited with no more than the function gives at its last moment. A difference
over the gap is not counted (`measureReadingTick`), and so neither is a suspension.

`SessionRowsProofs` proves of the abstract table, for any ids and any instants that
are natural numbers: `OneRunAtATime`, `RunsApart` and `RunsGrow`. That runs stay apart
is not inductive: the open run may grow, and that this does not reach into
another run rests on all others having ended before it began (`OpenIsLast`). By the
tracker's refinement these hold of the rows the tabs write (`TrackerRunsApart`).

`CheckpointSyncProofs` proves, for any tabs and readers, any finite set of session ids, any
instants, any cap and any bounds (`SyncAssumption`: the numbers are natural):

- `TypeCorrect`: `Spec => []TypeOK`;
- `Accepted`: `Spec => []NeverRejected`;
- `Acknowledged`: `Spec => []AckedIsCredited`.

The argument: the row, every copy in a list, in flight or stray, and the server's
session are *versions* of one run, and of two versions the one with the greater
revision extends the other (`OneLine`, through `Extends`: same start, no shorter,
and equal if the older was closed or the revisions are). Then the order in which
versions reach the server cannot matter: a newer one always looks like growth,
an older one is known. `NeverRejected` by itself is not inductive, since it speaks
only of copies against the server and says nothing of the row the next copy is
taken from. The inductive invariant `IInv` adds to `TypeOK`: `RowsWell` (a row has
a revision exactly if it was begun), `VersionsWell` (no version is ahead of its
row), `OneLine`, `SessionsWell` (credited seconds are those of the stored span) and
`AcksWell` (an acknowledgment, on its way or recorded, names a revision the server
has). Two lemmas carry the steps: `VersionsKept` for those that only move or drop
versions and `VersionsGrow` for those that make a row's next version.

`CheckpointTotals` proves, under the same assumption, what the reader sees of it:

- `CreditsAddUp`: `Spec => []CreditIsRecorded`;
- `CountedOnce`: `Spec => []NeverDoubleCounted`;
- `NoneLeftOut`: `Spec => []NothingMissing`;
- `NeverFalls`: `Spec => DisplayNeverFalls`.

Its invariant `TotalsInvariant` adds to `IInv` that a row not in use spans nothing
(`FreshRows`), that the server's total is the sum of what the sessions are credited
and what other devices added (`TotalAdds`), and that
each snapshot there is, shown or on its way, is a cut of the server's history (`Cuts`):
of two snapshots the one of the greater revision covers no less of any session, and what
is left of its total is no less either. So replacing a snapshot by a newer one cannot
take away what a row no longer adds. The sums are over any finite set of sessions. The
library's recursion theorems are out of reach here, so the lemmas at the head of the
module argue by a smallest counterexample: among the subsets for which a law of sums fails
one has no smaller such subset, and taking the element `CHOOSE` picks out of it gives
one.

### Annotations

`AnnotationBucketProofs` proves, for any finite set of highlights and any bounds
(`BoundsAssumption`):

- `BucketTyped`: `Spec => []TypeOK`;
- `OneEach`: `Spec => []OnePerHighlight`;
- `NoGhosts`: `MaxFaults = 0 /\ Spec => []NoGhost`;
- `RowsFollow`: `MaxFaults = 0 /\ ~Primes /\ Spec => []RowsMirrored`;
- `NoEditLost`: `MaxStray = 0 /\ Spec => []EditsKept`;
- `AppliedInOrder`: `MaxStray = 0 /\ Spec => InOrder`;
- `ListsCatchUp`: `MaxStray = 0 /\ ~Primes /\ Spec => ListsOnlyCatchUp`;
- `PageShowsEdits`: `MaxStray = 0 /\ ~Primes /\ Spec => []ShownAsWritten`;
- `EditsStay`: `MaxStray = 0 /\ ~Primes /\ Spec => EditsStayShown`.

The hypotheses are not conveniences of the proof; without any of them the property is
false of this code, as TLC shows with one highlight, two edits and that constant
changed (and one reload for `Primes` in `RowsFollow`). A request that outlives its
client overwrites a newer edit (`MaxStray`, observation 10); the primer's unfenced list
replaces an answer, or empties stored rows before hydration (`Primes`, observations 8
and 9); and a write IndexedDB refuses is not tried again, so the tables stay behind
memory (`MaxFaults`). Each theorem names only those it needs: edits stay on the page
also where writes fail, and no stored mutation outlives its place in the queue also
where requests are late.

The base is `BucketInvariant`: wherever an edit is found (queue, request, write, table,
list, server, page) it is one the reader made, no later than the last of its highlight,
and its number tells which, so two places that agree on a number agree on the edit.
What a table will hold of a highlight is what the *last* write about it in the chain
says, or what it holds where there is none; in these terms the stored queue follows the
queue (`Backed`) and the stored rows follow the confirmed ones once hydrated, and are
untouched before (`Mirroring`). While the first tab lives and no request outlives it,
the queue holds last edits, the server is behind what is on its way, and the last
upsert of a highlight waits, has arrived, or was refused (`OneTab`). For the page,
`Page` adds that confirmed rows are never ahead of the server, that a list lies between
the two as long as the page's version has not changed since it was asked for, and that
the last upsert of a highlight is queued, confirmed, or refused.

### Reading position, library, offline copies

`ReadingProgressProofs` proves, for any devices, positions and bounds (`ProgressAssumption`):

- `ProgressTyped`: `Spec => []TypeOK`;
- `ReadingsKept`: `Spec => []NoReadingForgotten`;
- `MostRecentWins`: `~Overlap /\ Spec => []NewestWins`;
- `CleanRowsCurrent`: `~Overlap /\ Spec => []CleanIsCurrent`.

The stamps of a device's readings grow, so an upload is about the last reading exactly
when it carries the last stamp (`Known`); an answer is never older than the write it
answers, and the server compares before it answers (`Answers`); a response that is
still admitted belongs to a clean row (`Fenced`). Where the server works on one write
of the row at a time, what a write has read is still what is stored (`Serial`), so the
server's stamp never falls. With overlapping writes an older one can win; the comment
at `update-progress.ts:38` accepts that, and the theorem says where the line is.

`CompletionCountsProofs` proves, for any tabs, books, dates and bounds
(`CompletionAssumption`): `CompletionTyped`, `EditsNeverLost` (`EditsKept`),
`ShownNeverTakenBack` (`NeverTakenBack`), `OldDatesStayBehind` (`NoOldResend`) and
`DeletedBooksStayGone` (`[]DeletedStaysGone`, and `[][ShelfForgets]_vars`: no
collections answer is stored with a removed book in it). `NeverTakenBack` is far from
inductive: it speaks of what is shown, which the next acknowledgment or answer changes.
The invariant adds that the queue holds last edits (`Pending`), that what is under way is
the last edit or an earlier one (`Flight`), that a book with nothing queued has had its
last edit handled (`Held`, `Calm`), and that a GET whose revision is still current was
answered with a date that may be shown, or with one the queue still covers (`Fresh`):
a book leaves the queue only together with a new revision.

`BookDownloadsProofs` proves, for any books of any lengths, any window of the server,
any numbers of workers and runs (`DownloadsAssumption`): `DownloadsTyped`,
`BooksAreWhole` (`WholeBook`) and `FailuresSpareBooks` (`FailuresTakeNothing`). A run that
is fetching and not aborted owns its book (`Holds`), so a book has at most one of them
and no other run's cleanup deletes what it has fetched: what it counts as covered is
stored, or was deleted unasked and is lacking (`Covers`). In the gaps pass each chapter is
covered, listed, asked for by a request that may still bring it, or lacking because the
answer left it out (`Gapless`), so nothing else is missing when nothing is left. Where a
book is whole a fetch is answered from the cache (`Near`), so a run cannot fail over it.
Every action is one lemma; `OneRun` reduces the steps of a run to what they do to that
run and that they are `Benign` to all others.

### Only model-checked

The liveness properties (`RunsEnd`, the two `Settles` of upload and progress, that of
`downloads`, `Drains` of bucket and library, `DeletionArrives`): the proof system does
not reason about fairness and `ENABLED`. The properties the three `violation` runs
refute are of course no theorems. The assertion that `pickStrideTargets` may be stated
as a set is an argument in a comment, not a theorem.

## 5. Assumptions and limits

- The wall clock is not set back *between* two runs of a profile (within one it
  may jump: that tick is interrupted). The code makes no promise otherwise.
- One row is one run of one book; the id of the book is not told apart.
- `advanceSession` closes a run one gap before 24 hours; the models scale both
  numbers down and do not show that the real ones satisfy the server's limit.
- The account does not change: `db !== getDb()` is always false.
- The bucket has one tab and no other device, one list request at a time, and the
  store is read at the start of a document, before its own writes.
- A mutation that the server refuses for good is reported, not rolled back; the
  properties about the page and the queue exempt what was reported.

- *Progress*: one book, which stays in the library: `writeProgress` returns early for a
  deleted item (`progress/storage.ts:33`), after which nothing of it is shown or uploaded.
  Percentages follow positions; a device's clock does not go back
  (consecutive writes of one instant are told apart as `Stamp` does).
- *Completion*: Web Locks exist (without them `finish-date/sync.ts:36` drains unlocked,
  and `NoOldResend` fails as its mutant shows); the date of each item stands for the
  count; percentages, memberships and the offline flag of the same records, items
  without a cached baseline, generations kept in memory (they only reject more), and
  `clearHome` are left out. `Rendered = FALSE`: a page rendered before does not apply its
  old payload anew; the theorems also hold for `TRUE`.
- *Downloads*: one tab. To its first request the server answers READY or it counts as
  failed; to later ones it may answer anything, and each answer without its chapter is
  one of the bounded faults. A table of contents is the same for all requests of a run.
  IndexedDB does not fail, the chapters of one answer are written in one step, a page
  sees what IndexedDB holds at once (the live query of the card lags behind it), being
  offline is requests that fail. Quota refusals, covers and books removed from the
  library are left out.
- Not modelled: see the inventory. The map covers a few percent of the lines of the
  repository: most of it is rendering, parsing, generated or service code with no
  protocol of its own. Each component's note in `PROJECT.json` says what it leaves out.

## 6. Findings

1. **The stored queue loses a replacement** (`bucket_queue`,
   `buckets/shared/sync-core.ts:167`). An answer removes the stored mutation by
   highlight id. If the highlight was edited again while its mutation was in
   flight, the row under that id is the newer edit: memory keeps it, IndexedDB
   does not, and a reload before its own answer loses it.
2. **A deleted highlight comes back** (`bucket_deleted`,
   `buckets/shared/mutations-core.ts:73`). A delete while the first upsert is in
   flight finds no confirmed row and cancels locally; the upsert's answer then
   puts the highlight back on the page, and it stays on the server.

3. **A lost upload takes the position back** (`progress_restamp`,
   `use-local-progress-snapshot.ts:131`). When the upload of an open reader loses to a
   later reading of another device, the answer changes the payload's percentage, on
   which the snapshot effect depends; the effect runs again and stamps the position
   still on the page with the present time, and the next upload takes the server back
   to it. `docs/specs/6-reading-sessions-progress.md:109` promises the opposite.

Four more disagreements of the code with its documents, which no run is listed for;
each is seen by checking the formula given:

4. *A removed book is still counted* (`buckets/library/remove-cached-items-tx.ts:80`).
   When the page of a book is answered 404, the removal takes the book out of the cached
   rows, the memberships and home, but not out of the items by which `db.collections`
   counts (`completion/counts.ts:87`): its collections list it no more and go on counting
   it until a library or collections answer is applied, where
   `docs/specs/4-offline/4.11-completion-counts.md:13` speaks of active members.
   `\A b \in deleted : b \notin DOMAIN views["shelf"].dates` fails in `completion` after
   five states; that the collections are cleaned in the end is part of `DeletionArrives`.
5. *A removal cuts a download short* (`buckets/book/hooks.ts:126`, `evict.ts:22`). A
   removal or an eviction deletes the chapters of a book without asking whether a run
   is downloading it; the run goes on to count them as stored and writes the row
   without them. `has-book-content.ts:14` calls the row alone a reliable signal.
   `\A b \in Books : content[b] => Chapters(b) \subseteq chapters[b]` fails with one book
   of two chapters, `MaxIntents = 3` and no fault.
6. *A gap that is not filled* (`buckets/book/download.ts:393`). A request of the gaps
   pass that is answered non-READY, or about another chapter, leaves its chapter out, and
   the row is written all the same; the comment at `download.ts:377` says "until all
   covered". The formula of observation 5 fails with one book of three chapters,
   `MaxIntents = 1` and one fault.
7. *A book that is saved without end* (`buckets/book/reader-cache.ts:44`). A wanted book
   whose row came without its *first* chapter does not count as present, so its card
   saves it again; the save finds the neighbour in the cache, never asks the server, ends,
   and the card starts the next one. `4.3-save-button.md:65` promises that the content
   arrives. `[]<>(\A b \in Books : Shows("card", b) /\ flags[b].wanted => Has(b))` fails
   under `FairSpec` with the constants of observation 6.

More limits met while modelling, each reproducible by changing a constant of a run:

8. With `Primes = TRUE`, `ListsOnlyCatchUp` fails: the primer
   (`buckets/highlights/revalidate.ts:39`) applies its list without the version
   check of the reader's page, so a list read before an answer replaces it.
9. With `Primes = TRUE` and a crash, `RowsMirrored` fails: hydration takes the stored
   rows whenever the snapshot in memory is empty (`bucket-registry.ts:119`), also
   when a list has just said that it is, and has emptied the table.
10. With `MaxStray = 1`, `InOrder` fails: a request given up by the client and served
   late overwrites a newer edit (`sync-core.ts:152`); nothing in the request tells
   the server that it is old. The checkpoint endpoint, by contrast, is safe against
   exactly this by its revisions (`Accepted`).

And some that the models leave open, met while reading:

11. `progress`: the acknowledgment of a write that the server has already answered once
   may take the row back to what the server held then; the next GET repairs it.
12. `downloads`: each tab has slots of its own, so a run that fails in one tab may delete
   what another tab is downloading or has completed (docs/specs 4.1 says overlapping
   saves never do).
13. `downloads`: after an eviction the status of a book stays `saved` in that tab, so the
   reader does not save it again automatically until the page is reloaded
   (`context.tsx:105`). Cancelling a run that superseded a completed download deletes
   the completed copy, which `FailuresTakeNothing` allows although
   `4.1-offline-reading.md:121` can be read to forbid it. `markBookSaved` reads and writes the
   library row in two steps, so a click between them is lost (`mark-book-saved.ts:10`).

## 7. Plan

Done: reading time, annotations, reading position, finish dates and the views made
of them, offline copies; the theorems above.

Next: a second tab in `BookDownloads` and in `AnnotationBucket` (observation 12 and the
shared queue of `sync-core.ts:115`); the membership, offline-intent and catalog-link
queues, abstractly: each intent takes effect once; the account switch.

Then: the catalog importer and the publication of reading assets (batches, retries
and crashes against a staged dump); the local-day split as bounded operators
against a reference definition.

Theorems to come: those of the modules above as they are written; what the bucket still
promises where requests are late (the page shows the last edit while it is queued) and
across a reload (`EditsKept` for what the chain had already written); that the gaps
pass of `downloads` ends, as a measure that falls with every step.
