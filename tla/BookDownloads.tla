--------------------------- MODULE BookDownloads ---------------------------
(***************************************************************************)
(* Saving whole books for reading offline, in one tab                      *)
(* (apps/web/features/offline/buckets/book, the book-info card             *)
(* components/app/library/book-info/download-offline-card.tsx and the      *)
(* primer's content pass prime/prime-content.ts).                          *)
(*                                                                         *)
(* The card, the reader and the primer each decide to save a book and,     *)
(* after a look at the storage quota, start a run of saveBookOffline.  A   *)
(* run fetches the chapters in windows, several at a time, and writes the  *)
(* book's row last.  It owns its book through a slot in memory: a later    *)
(* run of the same book takes the slot over, a run of another book aborts  *)
(* it, and only the owner may clean up.  Removals and evictions delete     *)
(* without asking the slot.                                                *)
(*                                                                         *)
(* `lacks' is history: the chapters a run may take for stored although they  *)
(* are not, deleted under it or left out of the answer to its last request. *)
(***************************************************************************)
EXTENDS Integers

CONSTANTS Books,
          Length,      \* [Books -> Nat \ {0}]: the chapters a table of contents lists
          Back, Ahead, \* the neighbours the server adds to the chapter asked for: 1 and 1
               \* today, the client is written for any
          Workers,     \* concurrency
          Runs,        \* bound: runs under way at once
          NoRun, NoBook,
          Shelf,       \* [Books -> sets of Flags], bound: what an earlier visit may have left
          MaxIntents,  \* bound: what the user and the primer's triggers begin
          MaxFaults    \* bound: requests that fail or are answered without their chapter, pages
               \* destroyed

ASSUME DownloadsAssumption ==
  /\ Length \in [Books -> Nat \ {0}]
  /\ {Back, Ahead, MaxIntents, MaxFaults} \subseteq Nat
  /\ Workers \in Nat \ {0}
  /\ NoRun \notin Runs /\ NoBook \notin Books

VARIABLES
  chapters, \* [Books -> sets of chapters]: db.bookChapters
  content,  \* [Books -> BOOLEAN]: db.books has the row
  flags,    \* [Books -> Flags]: the three flags of the library row
  status,   \* [Books -> Status]: byBook
  slot,     \* [Books -> Runs]: inFlight
  waiting,  \* [Books -> BOOLEAN]: settleWaiters
  runs,     \* [Runs -> Run]: the calls of saveBookOffline
  asks,     \* the saves decided upon that still look at the storage quota
  page,     \* the page on screen
  aborting, \* the card on screen waits for the run it has aborted
  todo,     \* sets of Ask: the saves the primer's pass has left
  evicting, \* the books an eviction has listed and not yet deleted
  removing, \* the books whose removal has cleared the intent so far
  lacks,    \* [Books -> sets of chapters]: history
  intents, faults

stored == <<chapters, content, flags>>
bucket == <<status, slot, waiting>>
others == <<page, aborting, todo, evicting, removing>>
bounds == <<intents, faults>>
vars   == <<stored, bucket, runs, asks, others, lacks, bounds>>

Chapters(b) == 1 .. Length[b]
Clip(b, s)  == s \cap Chapters(b)
Around(b, c) == Clip(b, {c - 1, c, c + 1})       \* three chapters
Window(b, c) == Clip(b, (c - Back) .. (c + Ahead)) \* what the server answers

\* "home" is the primer on behalf of the book to continue with.
Callers == {"card", "reader", "primer", "home"}
Primer  == {"primer", "home"}
Flags   == [wanted : BOOLEAN, kept : BOOLEAN, auto : BOOLEAN]
Status  == {"idle", "saving", "saved", "failed"}
Ask     == [book : Books, by : Callers]
Pages   == [at : {"card", "reader"}, book : Books] \cup {[at |-> "away", book |-> NoBook]}
Some    == UNION {Chapters(b) : b \in Books}

\* A fetch: `asked' is 0 for the first one, `answer' is empty while the request is out.
Job == [asked : Some \cup {0}, answer : SUBSET Some]

\* discover, note, pool, gaps: fetching.  mark, put: the row is written, its flags are not.
\* cancelled, failed: the owner's cleanup.  over: only its workers are left.
\* `jobs' are what its busy workers fetch, `crew' counts the idle ones.
Stages == {"free", "discover", "note", "pool", "gaps", "mark", "put", "cancelled", "failed", "over"}
Fetching == {"discover", "note", "pool", "gaps"}
Run == [stage : Stages, book : Books \cup {NoBook}, by : Callers, aborted : BOOLEAN,
        covered : SUBSET Some, targets : SUBSET Some, jobs : SUBSET Job,
        crew : Nat, row : Flags]

NoFlags == [wanted |-> FALSE, kept |-> FALSE, auto |-> FALSE]
Free == [stage |-> "free", book |-> NoBook, by |-> "card", aborted |-> FALSE,
         covered |-> {}, targets |-> {}, jobs |-> {}, crew |-> 0, row |-> NoFlags]

\* Once its workers have all stopped a run has no use for what it fetched, and is no
\* more when it is over.
Settled(run) ==
  IF run.stage \in Fetching \/ run.jobs # {} \/ (run.targets # {} /\ run.crew # 0) THEN run
  ELSE IF run.stage = "over" THEN Free
  ELSE [run EXCEPT !.covered = {}, !.targets = {}, !.crew = 0]

\* What earlier visits have left: whole books, and wishes synced from anywhere.
Init ==
  /\ content \in [Books -> BOOLEAN]
  /\ chapters = [b \in Books |-> IF content[b] THEN Chapters(b) ELSE {}]
  /\ flags \in [Books -> Flags]
  /\ \A b \in Books : flags[b] \in Shelf[b]
  /\ \A b \in Books : content[b] = (flags[b].kept \/ flags[b].auto)
  /\ status = [b \in Books |-> "idle"]
  /\ slot = [b \in Books |-> NoRun]
  /\ waiting = [b \in Books |-> FALSE]
  /\ runs = [r \in Runs |-> Free]
  /\ asks = {}
  /\ page = [at |-> "away", book |-> NoBook]
  /\ aborting = FALSE /\ todo = {} /\ evicting = {} /\ removing = {}
  /\ lacks = [b \in Books |-> {}]
  /\ intents = 0 /\ faults = 0

-----------------------------------------------------------------------------
(* Starting a run.                                                         *)

Intend == intents < MaxIntents /\ intents' = intents + 1
Shows(at, b) == page = [at |-> at, book |-> b]

\* hasBookContent, which looks for the row and the first chapter.
Has(b) == content[b] /\ 1 \in chapters[b]
Queued(b) == flags[b].wanted /\ ~Has(b)

Asks(b, by) ==
  /\ [book |-> b, by |-> by] \notin asks
  /\ asks' = asks \cup {[book |-> b, by |-> by]}

\* DownloadOfflineCard: a queued request downloads as soon as its card is shown.
CardAsks(b) ==
  /\ Shows("card", b) /\ Queued(b) /\ status[b] # "saving" /\ ~aborting
  /\ Asks(b, "card")
  /\ UNCHANGED <<stored, bucket, runs, others, lacks, bounds>>

\* BookContextProvider: an open book that is not cached is saved automatically.
ReaderAsks(b) ==
  /\ Shows("reader", b) /\ ~Has(b) /\ status[b] \notin {"saving", "saved"}
  /\ Asks(b, "reader")
  /\ UNCHANGED <<stored, bucket, runs, others, lacks, bounds>>

PrimerWorks == \/ \E a \in asks : a.by \in Primer
               \/ \E r \in Runs : runs[r].by \in Primer /\ runs[r].stage \notin {"free", "over"}

\* primeBookContent reads once for the pass which books are wanted, and which one,
\* if any, home would continue with ...
PrimerReads(current) ==
  /\ Intend
  /\ todo = {} /\ ~PrimerWorks
  /\ todo' = {[book |-> b, by |-> IF flags[b].wanted THEN "primer" ELSE "home"] :
                b \in {c \in Books : flags[c].wanted \/ c = current}}
  /\ UNCHANGED <<stored, bucket, runs, asks, page, aborting, evicting, removing, lacks, faults>>

\* ... and takes them one by one, giving up when any save is in flight.
PrimerTakes(a) ==
  /\ a \in todo /\ ~PrimerWorks
  /\ IF \E c \in Books : slot[c] # NoRun
     THEN todo' = {} /\ UNCHANGED asks
     ELSE /\ todo' = todo \ {a}
          /\ IF Has(a.book) THEN UNCHANGED asks ELSE Asks(a.book, a.by)
  /\ UNCHANGED <<stored, bucket, runs, page, aborting, evicting, removing, lacks, bounds>>

\* (Mutant of Aborts: the run that holds the book's own slot goes on.)
AbortsOthers(b) == {slot[c] : c \in Books \ {b}}

\* registerInFlight and abortInFlightExcept: every run that holds a slot, the
\* book's own one included.
Aborts(b) == {slot[c] : c \in Books}

\* saveBookOffline, up to its first fetch.
Start(a, r) ==
  /\ a \in asks /\ runs[r].stage = "free"
  /\ asks' = asks \ {a}
  /\ runs' = [s \in Runs |->
       IF s = r THEN [Free EXCEPT !.stage = "discover", !.book = a.book, !.by = a.by]
       ELSE IF s \in Aborts(a.book) THEN [runs[s] EXCEPT !.aborted = TRUE] ELSE runs[s]]
  /\ slot' = [slot EXCEPT ![a.book] = r]
  /\ status' = [status EXCEPT ![a.book] = "saving"]
  /\ lacks' = [lacks EXCEPT ![a.book] = IF content[a.book] THEN @ ELSE {}]
  /\ UNCHANGED <<stored, waiting, others, bounds>>

-----------------------------------------------------------------------------
(* Fetching.                                                               *)

\* loadReaderPayloadFromCache: what a window of the cached book still holds.
Cached(b, c) == IF content[b] THEN Around(b, IF c = 0 THEN 1 ELSE c) \cap chapters[b] ELSE {}

\* fetchReaderPayload, cache first.
Fetch(r, c) == [asked |-> c, answer |-> Cached(runs[r].book, c)]

Discover(r) ==
  /\ runs[r].stage = "discover" /\ runs[r].jobs = {}
  /\ runs' = [runs EXCEPT ![r].jobs = {Fetch(r, 0)}]
  /\ UNCHANGED <<stored, bucket, asks, others, lacks, bounds>>

\* What a run is told to be without: the chapter asked for, if nobody asks again.
Misses(r, j) ==
  lacks' = IF runs[r].stage = "gaps" THEN [lacks EXCEPT ![runs[r].book] = @ \cup {j.asked}]
           ELSE lacks

\* The server answers about the chapter asked for, the first time about the one last
\* read ...
Answer(r, j) ==
  /\ j \in runs[r].jobs /\ j.answer = {} /\ ~runs[r].aborted
  /\ \E c \in IF j.asked = 0 THEN Chapters(runs[r].book) ELSE {j.asked} :
       runs' = [runs EXCEPT ![r].jobs =
                  (@ \ {j}) \cup {[j EXCEPT !.answer = Window(runs[r].book, c)]}]
  /\ UNCHANGED <<stored, bucket, asks, others, lacks, bounds>>

\* ... or, if its package no longer has that chapter, about another one ...
AnswerOther(r, j) ==
  /\ j \in runs[r].jobs /\ j.answer = {} /\ ~runs[r].aborted /\ j.asked # 0
  /\ faults < MaxFaults /\ faults' = faults + 1
  /\ \E c \in Chapters(runs[r].book) \ {j.asked} :
       runs' = [runs EXCEPT ![r].jobs =
                  (@ \ {j}) \cup {[j EXCEPT !.answer = Window(runs[r].book, c) \ {j.asked}]}]
  /\ Misses(r, j)
  /\ UNCHANGED <<stored, bucket, asks, others, intents>>

\* ... or that the book is not READY, of which persistChaptersFromPayload keeps nothing.
\* (To the first request that is a failure: Reject.)
AnswerNothing(r, j) ==
  /\ j \in runs[r].jobs /\ j.answer = {} /\ ~runs[r].aborted /\ j.asked # 0
  /\ faults < MaxFaults /\ faults' = faults + 1
  /\ runs' = [runs EXCEPT ![r] = Settled([runs[r] EXCEPT !.jobs = @ \ {j}, !.crew = @ + 1])]
  /\ Misses(r, j)
  /\ UNCHANGED <<stored, bucket, asks, others, intents>>

\* readCachedChapterIds: which chapters are already there.
ReadCachedChapters(r) ==
  /\ runs[r].stage = "discover" /\ \E j \in runs[r].jobs : j.answer # {}
  /\ runs' = [runs EXCEPT ![r].stage = "note", ![r].covered = chapters[runs[r].book]]
  /\ UNCHANGED <<stored, bucket, asks, others, lacks, bounds>>

\* (Mutant of StrideTargets: the walk goes one past the last chapter.)
StrideBeyond(b, covered) ==
  {i \in 1 .. (Length[b] + 1) : i % 3 = 2 /\ ~(Around(b, i) \subseteq covered)}

\* pickStrideTargets: every third chapter whose slice is not all there, and the
\* last one if no slice reaches it.
StrideTargets(b, covered) ==
  LET anchors == {i \in Chapters(b) : (i % 3 = 2 \/ Length[b] = 1)
                                      /\ ~(Around(b, i) \subseteq covered)}
      reached == covered \cup UNION {Around(b, i) : i \in anchors}
  IN  anchors \cup ({Length[b]} \ reached)

\* persistChaptersFromPayload for an answer at hand, whether or not the run has
\* meanwhile ended.  After the first one the anchors are picked.
Persist(r, j) ==
  LET b == runs[r].book
      covered == runs[r].covered \cup j.answer
      rest == [runs[r] EXCEPT !.jobs = @ \ {j}, !.crew = @ + 1, !.covered = covered]
  IN /\ j \in runs[r].jobs /\ j.answer # {} /\ runs[r].stage # "discover"
     /\ chapters' = [chapters EXCEPT ![b] = @ \cup j.answer]
     /\ runs' = [runs EXCEPT ![r] =
          IF j.asked = 0 THEN [rest EXCEPT !.stage = "pool", !.crew = Workers,
                                           !.targets = StrideTargets(b, covered)]
          ELSE Settled(rest)]
     /\ UNCHANGED <<content, flags, bucket, asks, others, lacks, bounds>>

\* A worker takes the next target; it stops once the run is aborted, but not when
\* another worker's failure has ended the run.  The gaps pass has one worker.
Take(r, c) ==
  LET run == runs[r]
  IN /\ c \in run.targets /\ \A d \in run.targets : c <= d
     /\ run.crew > 0
     /\ ~(run.stage = "gaps" /\ run.aborted)
     /\ runs' = [runs EXCEPT ![r] = Settled(
          IF run.aborted THEN [run EXCEPT !.targets = {}]
          ELSE IF c \in run.covered THEN [run EXCEPT !.targets = @ \ {c}]
          ELSE [run EXCEPT !.targets = @ \ {c}, !.crew = @ - 1,
                            !.jobs = @ \cup {Fetch(r, c)}])]
     /\ UNCHANGED <<stored, bucket, asks, others, lacks, bounds>>

\* stillMissing
Missing(r) == Chapters(runs[r].book) \ runs[r].covered

FillGaps(r) ==
  /\ runs[r].stage = "pool" /\ runs[r].targets = {} /\ runs[r].jobs = {}
  /\ runs' = [runs EXCEPT ![r].stage = "gaps", ![r].targets = Missing(r), ![r].crew = 1]
  /\ UNCHANGED <<stored, bucket, asks, others, lacks, bounds>>

-----------------------------------------------------------------------------
(* Ending a run.                                                           *)

\* deleteBookContent
Emptied(b) ==
  /\ content' = [content EXCEPT ![b] = FALSE]
  /\ chapters' = [chapters EXCEPT ![b] = {}]
  /\ flags' = [flags EXCEPT ![b].kept = FALSE, ![b].auto = FALSE]

\* (Mutant of Owns: no ownership fence.)
OwnsAnyway(r) == TRUE

\* isCurrentInFlight
Owns(r) == slot[runs[r].book] = r

\* handleFailure, up to the end of the deletion.
HandleFailure(r, run) ==
  /\ IF Owns(r)
     THEN /\ Emptied(run.book)
          /\ lacks' = [lacks EXCEPT ![run.book] = {}]
          /\ runs' = [runs EXCEPT ![r] =
               Settled([run EXCEPT !.stage = IF run.aborted THEN "cancelled" ELSE "failed"])]
     ELSE /\ runs' = [runs EXCEPT ![r] = Settled([run EXCEPT !.stage = "over"])]
          /\ UNCHANGED <<stored, lacks>>
  /\ todo' = IF run.by \in Primer /\ run.aborted THEN {} ELSE todo
  /\ UNCHANGED <<bucket, asks, page, aborting, evicting, removing>>

\* A request fails, or is aborted.  It ends its worker and, the first time, the run.
Reject(r, j) ==
  LET run == [runs[r] EXCEPT !.jobs = @ \ {j}]
  IN /\ j \in runs[r].jobs /\ j.answer = {}
     /\ \/ run.aborted /\ UNCHANGED faults
        \/ ~run.aborted /\ faults < MaxFaults /\ faults' = faults + 1
     /\ IF run.stage \in Fetching
        THEN HandleFailure(r, run)
        ELSE /\ runs' = [runs EXCEPT ![r] = Settled(run)]
             /\ UNCHANGED <<stored, bucket, asks, others, lacks>>
     /\ UNCHANGED intents

\* The last look at the signal; applyBookContent follows at once.
Finish(r) ==
  LET run == runs[r]
  IN /\ run.stage = "gaps" /\ run.jobs = {} /\ (run.aborted \/ run.targets = {})
     /\ IF run.aborted
        THEN HandleFailure(r, [run EXCEPT !.crew = 0])
        ELSE /\ content' = [content EXCEPT ![run.book] = TRUE]
             /\ runs' = [runs EXCEPT ![r] = Settled([run EXCEPT !.stage = "mark"])]
             /\ UNCHANGED <<chapters, flags, bucket, asks, others, lacks>>
     /\ UNCHANGED bounds

\* markBookSaved reads the row of the library ...
ReadFlags(r) ==
  /\ runs[r].stage = "mark"
  /\ runs' = [runs EXCEPT ![r].stage = "put", ![r].row = flags[runs[r].book]]
  /\ UNCHANGED <<stored, bucket, asks, others, lacks, bounds>>

\* (Mutant of ClearInFlight: who waits for the run to stop is forgotten.)
ClearSlot(r) ==
  /\ slot' = IF Owns(r) THEN [slot EXCEPT ![runs[r].book] = NoRun] ELSE slot
  /\ UNCHANGED <<waiting, aborting>>

\* clearInFlight, which a run that has lost its slot leaves alone.  The card that
\* waits for it is told.
ClearInFlight(r) ==
  LET b == runs[r].book
  IN IF Owns(r)
     THEN /\ slot' = [slot EXCEPT ![b] = NoRun] /\ waiting' = [waiting EXCEPT ![b] = FALSE]
          /\ aborting' = (aborting /\ ~(Shows("card", b) /\ waiting[b]))
     ELSE UNCHANGED <<slot, waiting, aborting>>

\* The run is over: its status is shown, whoever owns the book by now.
Close(r, outcome) ==
  /\ status' = [status EXCEPT ![runs[r].book] = outcome]
  /\ ClearInFlight(r)
  /\ runs' = [runs EXCEPT ![r] = Settled([@ EXCEPT !.stage = "over"])]

\* ... and writes it back whole.
WriteFlags(r) ==
  /\ runs[r].stage = "put"
  /\ flags' = [flags EXCEPT ![runs[r].book] =
       [runs[r].row EXCEPT !.kept = @ \/ runs[r].by \in {"card", "primer"},
                           !.auto = @ \/ runs[r].by \in {"reader", "home"}]]
  /\ Close(r, "saved")
  /\ UNCHANGED <<chapters, content, asks, page, todo, evicting, removing, lacks, bounds>>

GiveUp(r) ==
  /\ runs[r].stage \in {"cancelled", "failed"}
  /\ Close(r, IF runs[r].stage = "cancelled" THEN "idle" ELSE "failed")
  /\ UNCHANGED <<stored, asks, page, todo, evicting, removing, lacks, bounds>>

-----------------------------------------------------------------------------
(* The book-info card.                                                     *)

Settling(b) == status[b] = "saving" \/ aborting
Wish(b, w) == flags' = [flags EXCEPT ![b].wanted = w]

Request(b) ==
  /\ Intend /\ Shows("card", b) /\ ~Settling(b)
  /\ ~Has(b) /\ ~flags[b].wanted /\ Wish(b, TRUE)
  /\ UNCHANGED <<chapters, content, bucket, runs, asks, others, lacks, faults>>

CancelSave(b) ==
  /\ Intend /\ Shows("card", b) /\ ~Settling(b)
  /\ Queued(b) /\ Wish(b, FALSE)
  /\ UNCHANGED <<chapters, content, bucket, runs, asks, others, lacks, faults>>

\* abortSave, with abortSaveAndWait
AbortSave(b) ==
  /\ Intend /\ Shows("card", b) /\ status[b] = "saving" /\ ~aborting
  /\ Wish(b, FALSE)
  /\ IF slot[b] = NoRun THEN UNCHANGED <<runs, waiting, aborting>>
     ELSE /\ waiting' = [waiting EXCEPT ![b] = TRUE] /\ aborting' = TRUE
          /\ runs' = [runs EXCEPT ![slot[b]].aborted = TRUE]
  /\ UNCHANGED <<chapters, content, status, slot, asks, page, todo, evicting, removing,
                 lacks, faults>>

KeepOffline(b) ==
  /\ Intend /\ Shows("card", b) /\ ~Settling(b)
  /\ Has(b) /\ ~flags[b].kept
  /\ flags' = [flags EXCEPT ![b].kept = TRUE, ![b].wanted = TRUE]
  /\ UNCHANGED <<chapters, content, bucket, runs, asks, others, lacks, faults>>

ReleaseOffline(b) ==
  /\ Intend /\ Shows("card", b) /\ ~Settling(b)
  /\ Has(b) /\ flags[b].kept /\ flags[b].auto
  /\ flags' = [flags EXCEPT ![b].kept = FALSE, ![b].wanted = FALSE]
  /\ UNCHANGED <<chapters, content, bucket, runs, asks, others, lacks, faults>>

\* removeDownload clears the intent ...
RemoveDownload(b) ==
  /\ Intend /\ Shows("card", b) /\ ~Settling(b)
  /\ Has(b) /\ flags[b].kept /\ ~flags[b].auto
  /\ Wish(b, FALSE) /\ removing' = removing \cup {b}
  /\ UNCHANGED <<chapters, content, bucket, runs, asks, page, aborting, todo, evicting,
                 lacks, faults>>

\* A deletion that does not ask the slot, perhaps under a run that counts on what is there.
DeletedUnasked(b) ==
  /\ Emptied(b)
  /\ lacks' = [lacks EXCEPT ![b] =
       IF \E r \in Runs : /\ runs[r].book = b /\ ~runs[r].aborted
                          /\ runs[r].stage \in Fetching \ {"discover"}
       THEN @ \cup chapters[b] ELSE {}]

\* ... and then the content.
Remove(b) ==
  /\ b \in removing /\ removing' = removing \ {b}
  /\ DeletedUnasked(b)
  /\ UNCHANGED <<bucket, runs, asks, page, aborting, todo, evicting, bounds>>

-----------------------------------------------------------------------------
(* The reader, the pages, the tab.                                         *)

\* findEvictableAutoSavedIds
Stale(b) == {c \in Books \ {b} : flags[c].auto /\ ~flags[c].kept /\ ~flags[c].wanted}

\* useEvictStaleAutoSaves: while a cached book is open the others may go ...
ListStale(b) ==
  /\ Shows("reader", b) /\ Has(b) /\ evicting = {} /\ Stale(b) # {}
  /\ evicting' = Stale(b)
  /\ UNCHANGED <<stored, bucket, runs, asks, page, aborting, todo, removing, lacks, bounds>>

\* ... one after the other.
Evict(b) ==
  /\ b \in evicting /\ evicting' = evicting \ {b}
  /\ DeletedUnasked(b)
  /\ UNCHANGED <<bucket, runs, asks, page, aborting, todo, removing, bounds>>

Go(p) ==
  /\ Intend /\ p # page /\ page' = p /\ aborting' = FALSE
  /\ UNCHANGED <<stored, bucket, runs, asks, todo, evicting, removing, lacks, faults>>

\* The document dies; what Dexie holds stays.
Crash ==
  /\ faults < MaxFaults /\ faults' = faults + 1
  /\ status' = [b \in Books |-> "idle"]
  /\ slot' = [b \in Books |-> NoRun]
  /\ waiting' = [b \in Books |-> FALSE]
  /\ runs' = [r \in Runs |-> Free]
  /\ asks' = {}
  /\ page' = [at |-> "away", book |-> NoBook]
  /\ aborting' = FALSE /\ todo' = {} /\ evicting' = {} /\ removing' = {}
  /\ lacks' = [b \in Books |-> IF content[b] THEN lacks[b] ELSE {}]
  /\ UNCHANGED <<stored, intents>>

-----------------------------------------------------------------------------
Click(b) == \/ Request(b) \/ CancelSave(b) \/ AbortSave(b)
            \/ KeepOffline(b) \/ ReleaseOffline(b) \/ RemoveDownload(b)

Proceed(r) ==
  \/ Discover(r)
  \/ \E j \in runs[r].jobs : Answer(r, j) \/ Persist(r, j)
  \/ ReadCachedChapters(r)
  \/ \E j \in runs[r].jobs : runs[r].aborted /\ Reject(r, j)
  \/ \E c \in runs[r].targets : Take(r, c)
  \/ FillGaps(r) \/ Finish(r) \/ ReadFlags(r) \/ WriteFlags(r) \/ GiveUp(r)

Begin == \E a \in asks, r \in Runs : Start(a, r)

Next ==
  \/ \E b \in Books : CardAsks(b) \/ ReaderAsks(b)
  \/ \E b \in Books \cup {NoBook} : PrimerReads(b)
  \/ \E a \in todo : PrimerTakes(a)
  \/ Begin
  \/ \E r \in Runs : Proceed(r)
  \/ \E r \in Runs : \E j \in runs[r].jobs :
       Reject(r, j) \/ AnswerOther(r, j) \/ AnswerNothing(r, j)
  \/ \E b \in Books : Click(b) \/ Remove(b) \/ ListStale(b) \/ Evict(b)
  \/ \E p \in Pages : Go(p)
  \/ Crash

Spec == Init /\ [][Next]_vars

\* What the page has begun for a book goes on, whatever it does for the others: an
\* effect of the card, a run about to start, a worker, an answer of the server.
Work(b) == \/ CardAsks(b)
           \/ \E a \in asks, r \in Runs : a.book = b /\ Start(a, r)
           \/ \E r \in Runs : runs[r].book = b /\ Proceed(r)

FairSpec == Spec /\ \A b \in Books : WF_vars(Work(b))

-----------------------------------------------------------------------------
TypeOK ==
  /\ chapters \in [Books -> SUBSET Some]
  /\ content \in [Books -> BOOLEAN]
  /\ flags \in [Books -> Flags]
  /\ status \in [Books -> Status]
  /\ slot \in [Books -> Runs \cup {NoRun}]
  /\ waiting \in [Books -> BOOLEAN]
  /\ runs \in [Runs -> Run]
  /\ asks \subseteq Ask
  /\ page \in Pages
  /\ aborting \in BOOLEAN
  /\ todo \subseteq Ask /\ evicting \subseteq Books /\ removing \subseteq Books
  /\ lacks \in [Books -> SUBSET Some]
  /\ intents \in 0 .. MaxIntents /\ faults \in 0 .. MaxFaults

\* The row of a book is there only with all its chapters (download.ts:408), through
\* overlapping runs of one book, failures, aborts and crashes, but for the chapters that
\* a removal or an eviction deleted under the run (evict.ts:20), or that the server left out of
\* its answer to the gaps pass: what the pool has missed the gaps pass makes up for, and
\* nothing makes up for what it misses itself.
WholeBook ==
  \A b \in Books : content[b] => Chapters(b) \subseteq chapters[b] \cup lacks[b]

\* A save that fails never takes away a book that another save has completed
\* (download.ts:256): a book with all its chapters goes by removal, by eviction or with
\* the cancellation of the run that owns it.
FailuresTakeNothing ==
  [][\A b \in Books :
       content[b] /\ lacks[b] = {} /\ ~content'[b] =>
         \/ b \in removing \cup evicting
         \/ slot[b] # NoRun /\ runs[slot[b]].aborted]_vars

\* Every run ends and releases its book, whoever waits for it is told (bucket.ts:145),
\* and a wanted book whose card stays open gets its row, however often its run is
\* aborted by the others (download-offline-card.tsx:109), but for a book that has its
\* row and not its first chapter: its card saves it again without end, from the cache.
Settles ==
  []<>(\A b \in Books : \/ content[b] /\ ~Has(b)
                        \/ /\ slot[b] = NoRun /\ ~waiting[b] /\ ~Settling(b)
                           /\ Shows("card", b) /\ flags[b].wanted => content[b])
=============================================================================
