------------------------ MODULE BookDownloadsProofs ------------------------
(***************************************************************************)
(* Safety of BookDownloads for every set of books, any lengths and         *)
(* windows, any number of workers and runs.  The argument:                 *)
(*                                                                         *)
(*  - a run that is still fetching and not aborted holds its book's slot   *)
(*    (Owns), so a book has at most one of them and nobody else's failure  *)
(*    deletes what it has fetched (Covers);                                *)
(*  - in the gaps pass every chapter is covered, listed, being fetched by  *)
(*    a request that will bring it, or known to be left out (Gapless): the *)
(*    row follows when nothing is listed or being fetched any more;        *)
(*  - where the row of a whole book is there a fetch is answered from the  *)
(*    cache (Near), so it cannot fail.                                     *)
(***************************************************************************)
EXTENDS BookDownloads, TLAPS

Live(run) == run.stage \in Fetching /\ ~run.aborted

\* A run is about a book, its targets are chapters of it, and the fetch about no
\* chapter in particular is the first and alone.
Assigned(run) ==
  /\ IF run.stage = "free" THEN run.jobs = {} /\ run.targets = {}
     ELSE run.book \in Books /\ run.targets \subseteq Chapters(run.book)
  /\ \A j \in run.jobs : j.asked = 0 => run.stage \in {"discover", "note"}
  /\ run.stage \in {"discover", "note"} => run.targets = {} /\ \A i, j \in run.jobs : i = j

Holds(r, run) == Live(run) => slot[run.book] = r

Near(run) ==
  Live(run) /\ content[run.book] /\ lacks[run.book] = {} => \A j \in run.jobs : j.answer # {}

Covers(run) ==
  Live(run) /\ run.stage # "discover" =>
    run.covered \subseteq chapters[run.book] \cup lacks[run.book]

Brings(run, c) == \E j \in run.jobs : j.asked = c /\ (j.answer = {} \/ c \in j.answer)

Gapless(run) ==
  Live(run) /\ run.stage = "gaps" =>
    \A c \in Chapters(run.book) :
      c \in run.covered \cup run.targets \cup lacks[run.book] \/ Brings(run, c)

Sound(r, run) ==
  run \in Run /\ Assigned(run) /\ Holds(r, run) /\ Near(run) /\ Covers(run) /\ Gapless(run)

Sounds == \A r \in Runs : Sound(r, runs[r])

IInv == TypeOK /\ Sounds /\ WholeBook

-----------------------------------------------------------------------------
(* Chapters, runs, and what a step may do to a run it does not move.       *)

\* Chapters are counted from 1, and a window has the chapter it is about.
LEMMA ChapterFacts ==
  ASSUME NEW b \in Books
  PROVE  /\ Chapters(b) \subseteq Some /\ 0 \notin Some /\ Length[b] \in Chapters(b)
         /\ 1 \in Chapters(b)
         /\ \A c \in Chapters(b) : c \in Around(b, c) /\ c \in Window(b, c)
         /\ \A c : Around(b, c) \subseteq Chapters(b) /\ Window(b, c) \subseteq Chapters(b)
<1>1. Length[b] \in Nat \ {0} /\ \A a \in Books : Length[a] \in Nat
  BY DownloadsAssumption
<1>2. Back \in Nat /\ Ahead \in Nat
  BY DownloadsAssumption
<1>3. Chapters(b) \subseteq Some
  BY DEF Some
<1>4. 0 \notin Some
  BY <1>1, SMT DEF Some, Chapters
<1>5. Length[b] \in Chapters(b) /\ 1 \in Chapters(b)
  BY <1>1, SMT DEF Chapters
<1>6. \A c \in Chapters(b) : c \in Around(b, c)
  BY SMT DEF Around, Clip, Chapters
<1>7. \A c \in Chapters(b) : c \in Window(b, c)
  BY <1>1, <1>2, SMT DEF Window, Clip, Chapters
<1>8. \A c : Around(b, c) \subseteq Chapters(b) /\ Window(b, c) \subseteq Chapters(b)
  BY DEF Around, Window, Clip
<1> QED
  BY <1>3, <1>4, <1>5, <1>6, <1>7, <1>8

\* A free run is well formed.
LEMMA FreeTyped == Free \in Run /\ Assigned(Free) /\ ~Live(Free)
BY SMT DEF Free, Run, Stages, Callers, Flags, NoFlags, Assigned, Live, Fetching

\* Letting go of what no worker needs keeps a run well formed, and moves none that fetches.
LEMMA SettledTyped ==
  ASSUME NEW run \in Run, Assigned(run)
  PROVE  /\ Settled(run) \in Run /\ Assigned(Settled(run))
         /\ run.stage \in Fetching => Settled(run) = run
         /\ ~Live(run) => ~Live(Settled(run))
<1>1. CASE run.stage \in Fetching \/ run.jobs # {} \/ (run.targets # {} /\ run.crew # 0)
  BY <1>1 DEF Settled
<1>2. CASE ~(run.stage \in Fetching \/ run.jobs # {} \/ (run.targets # {} /\ run.crew # 0))
  <2>1. CASE run.stage = "over"
    BY <1>2, <2>1, FreeTyped DEF Settled
  <2>2. CASE run.stage # "over"
    <3> DEFINE rest == [run EXCEPT !.covered = {}, !.targets = {}, !.crew = 0]
    <3>1. Settled(run) = rest
      BY <1>2, <2>2 DEF Settled
    <3>2. rest \in Run
      <4>1. {} \in SUBSET Some /\ 0 \in Nat
        BY SMT
      <4> QED
        BY <4>1, Zenon DEF Run
    <3>3. rest.stage = run.stage /\ rest.jobs = run.jobs /\ rest.targets = {}
          /\ rest.book = run.book
      BY DEF Run
    <3>4. Assigned(rest)
      BY <3>3 DEF Assigned
    <3>5. rest.stage \notin Fetching
      BY <3>3, <1>2
    <3> QED
      BY <1>2, <3>1, <3>2, <3>4, <3>5 DEF Live
  <2> QED
    BY <2>1, <2>2
<1> QED
  BY <1>1, <1>2

\* A run that no longer fetches for its book is sound whatever happens to it.
LEMMA QuietSound ==
  ASSUME NEW r \in Runs, NEW run \in Run, Assigned(run), ~Live(run)
  PROVE  Sound(r, run)'
BY DEF Sound, Holds, Near, Covers, Gapless

\* What a step may do to the book of a run that goes on.
Benign(run) ==
  Live(run) =>
    /\ slot'[run.book] = slot[run.book]
    /\ content'[run.book] /\ lacks'[run.book] = {} => content[run.book] /\ lacks[run.book] = {}
    /\ run.stage # "discover" =>
         /\ lacks[run.book] \subseteq lacks'[run.book]
         /\ chapters[run.book] \subseteq chapters'[run.book] \cup lacks'[run.book]

LEMMA BenignKeeps ==
  ASSUME NEW r \in Runs, NEW run, Sound(r, run), Benign(run)
  PROVE  Sound(r, run)'
<1>1. CASE ~Live(run)
  BY <1>1, QuietSound DEF Sound
<1>2. CASE Live(run)
  <2>1. run \in Run /\ Assigned(run)
    BY DEF Sound
  <2>2. Holds(r, run)'
    BY <1>2 DEF Sound, Holds, Benign
  <2>3. Near(run)'
    BY <1>2 DEF Sound, Near, Benign
  <2>4. Covers(run)'
    BY <1>2 DEF Sound, Covers, Benign
  <2>5. Gapless(run)'
    BY <1>2 DEF Sound, Gapless, Benign, Brings
  <2> QED
    BY <2>1, <2>2, <2>3, <2>4, <2>5 DEF Sound
<1> QED
  BY <1>1, <1>2

\* A step that moves one run.
LEMMA OneRun ==
  ASSUME IInv, NEW r \in Runs, NEW run, runs' = [runs EXCEPT ![r] = run],
         Sound(r, run)', \A s \in Runs \ {r} : Benign(runs[s])
  PROVE  Sounds' /\ runs' \in [Runs -> Run]
<1>1. runs \in [Runs -> Run]
  BY DEF IInv, TypeOK
<1>2. run \in Run
  BY DEF Sound
<1>3. runs' \in [Runs -> Run]
  BY <1>1, <1>2
<1>4. Sound(r, runs[r])'
  <2>1. runs'[r] = run
    BY <1>1
  <2> QED
    BY <2>1 DEF Sound, Holds, Near, Covers, Gapless, Brings, Assigned, Live
<1>5. ASSUME NEW s \in Runs \ {r}
      PROVE  Sound(s, runs[s])'
  <2>1. runs'[s] = runs[s]
    BY <1>1
  <2>2. Sound(s, runs[s]) /\ Benign(runs[s])
    BY DEF IInv, Sounds
  <2>3. PICK old : old = runs[s]
    OBVIOUS
  <2>4. Sound(s, old)'
    BY <2>2, <2>3, BenignKeeps
  <2> QED
    BY <2>1, <2>3, <2>4 DEF Sound, Holds, Near, Covers, Gapless, Brings, Assigned, Live
<1> QED
  BY <1>3, <1>4, <1>5 DEF Sounds

\* What no step has touched is benign.
LEMMA UntouchedBenign ==
  ASSUME UNCHANGED <<chapters, content, slot, lacks>>
  PROVE  /\ \A run : Benign(run)
         /\ WholeBook => WholeBook'
<1>1. \A run : Benign(run)
  BY DEF Benign
<1>2. WholeBook => WholeBook'
  BY DEF WholeBook
<1> QED
  BY <1>1, <1>2

\* Nor does it disturb a run to learn that chapters are left out.
LEMMA LearningBenign ==
  ASSUME IInv, UNCHANGED <<chapters, content, slot>>,
         \A b \in Books : lacks[b] \subseteq lacks'[b]
  PROVE  /\ \A s \in Runs : Benign(runs[s])
         /\ WholeBook'
<1>1. ASSUME NEW s \in Runs
      PROVE  Benign(runs[s])
  <2>1. Live(runs[s]) => runs[s].book \in Books
    BY DEF IInv, Sounds, Sound, Assigned, Live, Fetching
  <2> QED
    BY <2>1 DEF Benign
<1>2. WholeBook'
  BY DEF IInv, WholeBook
<1> QED
  BY <1>1, <1>2

\* A fetch is a job about its chapter. Where the book is whole the cache has the answer.
LEMMA FetchFacts ==
  ASSUME IInv, NEW r \in Runs, runs[r].book \in Books,
         NEW c \in Chapters(runs[r].book) \cup {0}
  PROVE  /\ Fetch(r, c) \in Job /\ Fetch(r, c).asked = c
         /\ content[runs[r].book] /\ lacks[runs[r].book] = {} => Fetch(r, c).answer # {}
         /\ Fetch(r, c).answer = {} \/ c = 0 \/ c \in Fetch(r, c).answer \cup lacks[runs[r].book]
<1> DEFINE b == runs[r].book
<1> DEFINE at == IF c = 0 THEN 1 ELSE c
<1>1. at \in Chapters(b) /\ at \in Around(b, at) /\ Around(b, at) \subseteq Some
  BY ChapterFacts
<1>2. Fetch(r, c).asked = c /\ Fetch(r, c).answer = Cached(b, c)
  BY DEF Fetch
<1>3. Cached(b, c) = IF content[b] THEN Around(b, at) \cap chapters[b] ELSE {}
  BY DEF Cached
<1>4. Fetch(r, c) \in Job
  <2>1. Chapters(b) \subseteq Some
    BY ChapterFacts
  <2>2. Cached(b, c) \subseteq Some
    BY <1>1, <1>3
  <2> QED
    BY <2>1, <2>2 DEF Fetch, Job
<1>5. content[b] => at \in Cached(b, c) \cup lacks[b]
  BY <1>1, <1>3 DEF IInv, WholeBook
<1>6. ~content[b] => Cached(b, c) = {}
  BY <1>3
<1> QED
  BY <1>2, <1>4, <1>5, <1>6

-----------------------------------------------------------------------------
(* The steps of a run that leave the tables alone.                         *)

LEMMA DiscoverKeeps ==
  ASSUME IInv, NEW r \in Runs, Discover(r)
  PROVE  Sounds' /\ runs' \in [Runs -> Run]
<1>0. PICK run : run = [runs[r] EXCEPT !.jobs = {Fetch(r, 0)}]
  OBVIOUS
<1>1. runs[r] \in Run /\ Sound(r, runs[r]) /\ runs[r].stage = "discover"
  BY DEF IInv, TypeOK, Sounds, Discover
<1>2. runs' = [runs EXCEPT ![r] = run] /\ UNCHANGED <<chapters, content, slot, lacks>>
  BY <1>0 DEF Discover, stored, bucket
<1>3. runs[r].book \in Books
  BY <1>1 DEF Sound, Assigned
<1>4. Fetch(r, 0) \in Job
  BY <1>3, FetchFacts
<1>5. run \in Run
  BY <1>0, <1>1, <1>4, Zenon DEF Run
<1>6. /\ run.jobs = {Fetch(r, 0)} /\ run.stage = "discover"
      /\ run.book = runs[r].book /\ run.targets = runs[r].targets
      /\ run.aborted = runs[r].aborted
  BY <1>0, <1>1 DEF Run
<1>7. Assigned(run)
  BY <1>1, <1>6 DEF Sound, Assigned
<1>8. Near(run)'
  BY <1>2, <1>3, <1>6, FetchFacts DEF Near
<1>9. Holds(r, run)' /\ Covers(run)' /\ Gapless(run)'
  BY <1>1, <1>2, <1>6 DEF Sound, Holds, Covers, Gapless, Live
<1>10. Sound(r, run)'
  BY <1>5, <1>7, <1>8, <1>9 DEF Sound
<1> QED
  BY <1>2, <1>10, UntouchedBenign, OneRun

LEMMA MissesFacts ==
  ASSUME IInv, NEW r \in Runs, NEW j \in runs[r].jobs, runs[r].book \in Books, j.asked # 0,
         Misses(r, j)
  PROVE  /\ lacks' \in [Books -> SUBSET Some] /\ \A a \in Books : lacks[a] \subseteq lacks'[a]
         /\ runs[r].stage = "gaps" => j.asked \in lacks'[runs[r].book]
<1>1. lacks \in [Books -> SUBSET Some] /\ j \in Job
  BY DEF IInv, TypeOK, Run
<1>2. j.asked \in Some
  BY <1>1 DEF Job
<1> QED
  BY <1>1, <1>2 DEF Misses

\* An answer with the chapter asked for, or with others where that one is now known to
\* be left out or will be asked for again.
LEMMA AnsweredKeeps ==
  ASSUME IInv, NEW r \in Runs, NEW j \in runs[r].jobs, j.answer = {},
         NEW k \in Job, k.asked = j.asked,
         runs[r].stage = "gaps" /\ j.asked \in Chapters(runs[r].book) =>
           j.asked \in k.answer \cup lacks'[runs[r].book],
         runs' = [runs EXCEPT ![r].jobs = (@ \ {j}) \cup {k}],
         UNCHANGED <<chapters, content, slot>>,
         \A b \in Books : lacks[b] \subseteq lacks'[b]
  PROVE  Sounds' /\ runs' \in [Runs -> Run] /\ WholeBook'
<1>1. runs[r] \in Run /\ Sound(r, runs[r]) /\ j \in Job
  BY DEF IInv, TypeOK, Sounds, Run
<1> DEFINE b == runs[r].book
<1>2. Live(runs[r]) => b \in Books
  BY <1>1 DEF Sound, Assigned, Live, Fetching
<1>0. PICK run : run = [runs[r] EXCEPT !.jobs = (@ \ {j}) \cup {k}]
  OBVIOUS
<1>4. runs' = [runs EXCEPT ![r] = run]
  BY <1>0
<1>6. run \in Run
  <2>1. (runs[r].jobs \ {j}) \cup {k} \subseteq Job
    BY <1>1 DEF Run
  <2> QED
    BY <1>0, <1>1, <2>1, Zenon DEF Run
<1>7. /\ run.jobs = (runs[r].jobs \ {j}) \cup {k} /\ run.stage = runs[r].stage
      /\ run.book = b /\ run.targets = runs[r].targets
      /\ run.aborted = runs[r].aborted /\ run.covered = runs[r].covered
  BY <1>0, <1>1 DEF Run
<1>8. Assigned(run)
  BY <1>1, <1>7 DEF Sound, Assigned
<1>9. Near(run)'
  BY <1>1, <1>2, <1>7 DEF Sound, Near, Live
<1>10. Holds(r, run)' /\ Covers(run)'
  BY <1>1, <1>2, <1>7 DEF Sound, Holds, Covers, Live
<1>11. Gapless(run)'
  <2>1. SUFFICES ASSUME Live(run), run.stage = "gaps", NEW d \in Chapters(b),
                        d \notin run.covered \cup run.targets \cup lacks'[b]
                 PROVE  Brings(run, d)
    BY <1>7 DEF Gapless, Brings, Live
  <2>2. PICK i \in runs[r].jobs : i.asked = d /\ (i.answer = {} \/ d \in i.answer)
    BY <1>1, <1>2, <1>7, <2>1 DEF Sound, Gapless, Brings, Live
  <2>3. CASE i # j
    BY <1>7, <2>2, <2>3 DEF Brings
  <2>4. CASE i = j
    <3>1. k \in run.jobs /\ k.asked = d /\ d \in k.answer
      BY <1>7, <2>1, <2>2, <2>4
    <3> QED
      BY <3>1 DEF Brings
  <2> QED
    BY <2>3, <2>4
<1>12. Sound(r, run)'
  BY <1>6, <1>8, <1>9, <1>10, <1>11 DEF Sound
<1> QED
  BY <1>4, <1>12, LearningBenign, OneRun

LEMMA AnswerKeeps ==
  ASSUME IInv, NEW r \in Runs, NEW j \in runs[r].jobs, Answer(r, j) \/ AnswerOther(r, j)
  PROVE  /\ Sounds' /\ runs' \in [Runs -> Run] /\ WholeBook'
         /\ lacks' \in [Books -> SUBSET Some]
<1> DEFINE b == runs[r].book
<1>1. /\ runs[r] \in Run /\ Assigned(runs[r]) /\ j \in Job /\ j.answer = {}
      /\ lacks \in [Books -> SUBSET Some]
  BY DEF IInv, TypeOK, Sounds, Sound, Answer, AnswerOther, Run
<1>2. b \in Books
  BY <1>1 DEF Assigned
<1>3. UNCHANGED <<chapters, content, slot>>
  BY DEF Answer, AnswerOther, stored, bucket
<1>4. CASE Answer(r, j)
  <2>1. PICK c \in IF j.asked = 0 THEN Chapters(b) ELSE {j.asked} :
          runs' = [runs EXCEPT ![r].jobs =
                     (@ \ {j}) \cup {[j EXCEPT !.answer = Window(b, c)]}]
    BY <1>4 DEF Answer
  <2>2. PICK k : k = [j EXCEPT !.answer = Window(b, c)]
    OBVIOUS
  <2>3. k \in Job /\ k.asked = j.asked /\ k.answer = Window(b, c)
    <3>1. Window(b, c) \subseteq Some
      BY <1>2, ChapterFacts
    <3> QED
      BY <1>1, <2>2, <3>1 DEF Job
  <2>4. j.asked \in Chapters(b) => j.asked \in k.answer
    BY <1>2, <2>1, <2>3, ChapterFacts
  <2>5. lacks' = lacks
    BY <1>4 DEF Answer
  <2> QED
    BY <1>1, <1>3, <2>1, <2>2, <2>3, <2>4, <2>5, AnsweredKeeps
<1>5. CASE AnswerOther(r, j)
  <2>1. PICK c \in Chapters(b) \ {j.asked} :
          runs' = [runs EXCEPT ![r].jobs =
                     (@ \ {j}) \cup {[j EXCEPT !.answer = Window(b, c) \ {j.asked}]}]
    BY <1>5 DEF AnswerOther
  <2>2. PICK k : k = [j EXCEPT !.answer = Window(b, c) \ {j.asked}]
    OBVIOUS
  <2>3. k \in Job /\ k.asked = j.asked
    <3>1. Window(b, c) \ {j.asked} \subseteq Some
      BY <1>2, ChapterFacts
    <3> QED
      BY <1>1, <2>2, <3>1 DEF Job
  <2>4. /\ lacks' \in [Books -> SUBSET Some] /\ \A a \in Books : lacks[a] \subseteq lacks'[a]
        /\ runs[r].stage = "gaps" => j.asked \in lacks'[b]
    BY <1>1, <1>2, <1>5, MissesFacts DEF AnswerOther
  <2> QED
    BY <1>1, <1>3, <2>1, <2>2, <2>3, <2>4, AnsweredKeeps
<1> QED
  BY <1>4, <1>5

\* A worker whose answer has nothing to keep goes on.
LEMMA AnswerNothingKeeps ==
  ASSUME IInv, NEW r \in Runs, NEW j \in runs[r].jobs, AnswerNothing(r, j)
  PROVE  /\ Sounds' /\ runs' \in [Runs -> Run] /\ WholeBook'
         /\ lacks' \in [Books -> SUBSET Some]
<1> DEFINE b == runs[r].book
<1>1. /\ runs[r] \in Run /\ Sound(r, runs[r]) /\ Assigned(runs[r])
      /\ lacks \in [Books -> SUBSET Some] /\ j \in Job /\ j.asked # 0
  BY DEF IInv, TypeOK, Sounds, Sound, AnswerNothing, Run
<1>2. b \in Books
  BY <1>1 DEF Assigned
<1>3. UNCHANGED <<chapters, content, slot>>
  BY DEF AnswerNothing, stored, bucket
<1>4. /\ lacks' \in [Books -> SUBSET Some] /\ \A a \in Books : lacks[a] \subseteq lacks'[a]
      /\ runs[r].stage = "gaps" => j.asked \in lacks'[b]
  BY <1>1, <1>2, MissesFacts DEF AnswerNothing
<1>5. PICK run : run = [runs[r] EXCEPT !.jobs = @ \ {j}, !.crew = @ + 1]
  OBVIOUS
<1>6. runs' = [runs EXCEPT ![r] = Settled(run)]
  BY <1>5 DEF AnswerNothing
<1>7. run \in Run
  <2>1. runs[r].jobs \ {j} \in SUBSET Job /\ runs[r].crew + 1 \in Nat
    BY <1>1, SMT DEF Run
  <2> QED
    BY <1>1, <1>5, <2>1, Zenon DEF Run
<1>8. /\ run.jobs = runs[r].jobs \ {j} /\ run.stage = runs[r].stage
      /\ run.book = b /\ run.targets = runs[r].targets
      /\ run.aborted = runs[r].aborted /\ run.covered = runs[r].covered
  BY <1>1, <1>5 DEF Run
<1>9. Assigned(run)
  BY <1>1, <1>8 DEF Assigned
<1>10. CASE ~Live(run)
  <2>1. PICK last : last = Settled(run)
    OBVIOUS
  <2>2. last \in Run /\ Assigned(last) /\ ~Live(last)
    BY <1>7, <1>9, <1>10, <2>1, SettledTyped
  <2> QED
    BY <1>3, <1>4, <1>6, <2>1, <2>2, QuietSound, LearningBenign, OneRun
<1>11. CASE Live(run)
  <2>1. runs' = [runs EXCEPT ![r] = run] /\ Live(runs[r])
    BY <1>6, <1>7, <1>8, <1>9, <1>11, SettledTyped DEF Live
  <2>2. Holds(r, run)' /\ Near(run)' /\ Covers(run)'
    BY <1>1, <1>2, <1>3, <1>4, <1>8, <2>1 DEF Sound, Holds, Near, Covers
  <2>3. Gapless(run)'
    <3>1. SUFFICES ASSUME run.stage = "gaps", NEW d \in Chapters(b),
                          d \notin run.covered \cup run.targets \cup lacks'[b]
                   PROVE  Brings(run, d)
      BY <1>8 DEF Gapless, Brings
    <3>2. PICK i \in runs[r].jobs : i.asked = d /\ (i.answer = {} \/ d \in i.answer)
      BY <1>1, <1>2, <1>4, <1>8, <2>1, <3>1 DEF Sound, Gapless, Brings
    <3>3. i # j
      BY <1>4, <1>8, <3>1, <3>2
    <3> QED
      BY <1>8, <3>2, <3>3 DEF Brings
  <2>4. Sound(r, run)'
    BY <1>7, <1>9, <2>2, <2>3 DEF Sound
  <2> QED
    BY <1>3, <1>4, <2>1, <2>4, LearningBenign, OneRun
<1> QED
  BY <1>4, <1>10, <1>11

\* What a run has read of the table is there.
LEMMA ReadCachedKeeps ==
  ASSUME IInv, NEW r \in Runs, ReadCachedChapters(r)
  PROVE  Sounds' /\ runs' \in [Runs -> Run]
<1>1. /\ runs[r] \in Run /\ Sound(r, runs[r]) /\ Assigned(runs[r])
      /\ runs[r].stage = "discover" /\ chapters \in [Books -> SUBSET Some]
  BY DEF IInv, TypeOK, Sounds, Sound, ReadCachedChapters
<1>2. runs[r].book \in Books
  BY <1>1 DEF Assigned
<1>3. PICK run : run = [runs[r] EXCEPT !.stage = "note", !.covered = chapters[runs[r].book]]
  OBVIOUS
<1>4. runs' = [runs EXCEPT ![r] = run] /\ UNCHANGED <<chapters, content, slot, lacks>>
  BY <1>3 DEF ReadCachedChapters, stored, bucket
<1>5. run \in Run
  <2>1. "note" \in Stages /\ chapters[runs[r].book] \in SUBSET Some
    BY <1>1, <1>2 DEF Stages
  <2> QED
    BY <1>1, <1>3, <2>1, Zenon DEF Run
<1>6. /\ run.stage = "note" /\ run.jobs = runs[r].jobs /\ run.targets = runs[r].targets
      /\ run.book = runs[r].book /\ run.covered = chapters[runs[r].book]
      /\ run.aborted = runs[r].aborted
  BY <1>1, <1>3 DEF Run
<1>7. Assigned(run)
  BY <1>1, <1>6 DEF Assigned
<1>8. Live(run) => Live(runs[r])
  BY <1>1, <1>6 DEF Live, Fetching
<1>9. Holds(r, run)' /\ Near(run)' /\ Covers(run)' /\ Gapless(run)'
  BY <1>1, <1>4, <1>6, <1>8 DEF Sound, Holds, Near, Covers, Gapless
<1>10. Sound(r, run)'
  BY <1>5, <1>7, <1>9 DEF Sound
<1> QED
  BY <1>4, <1>10, UntouchedBenign, OneRun

LEMMA TakeKeeps ==
  ASSUME IInv, NEW r \in Runs, NEW c \in runs[r].targets, Take(r, c)
  PROVE  Sounds' /\ runs' \in [Runs -> Run]
<1> DEFINE dropped == [runs[r] EXCEPT !.targets = {}]
<1> DEFINE skipped == [runs[r] EXCEPT !.targets = @ \ {c}]
<1> DEFINE fetched == [runs[r] EXCEPT !.targets = @ \ {c}, !.crew = @ - 1,
                                      !.jobs = @ \cup {Fetch(r, c)}]
<1> DEFINE b == runs[r].book
<1>1. runs[r] \in Run /\ Sound(r, runs[r]) /\ Assigned(runs[r])
  BY DEF IInv, TypeOK, Sounds, Sound
<1>2. b \in Books /\ c \in Chapters(b) /\ runs[r].stage # "discover"
  BY <1>1 DEF Assigned
<1>3. UNCHANGED <<chapters, content, slot, lacks>>
  BY DEF Take, stored, bucket
<1>4. runs[r].crew \in Nat /\ runs[r].crew > 0 /\ runs[r].targets \in SUBSET Some
      /\ runs[r].jobs \in SUBSET Job
  BY <1>1 DEF Take, Run
<1>5. Fetch(r, c) \in Job
  BY <1>2, FetchFacts
<1>f. PICK f : f = Fetch(r, c)
  OBVIOUS
<1>6. PICK run : /\ runs' = [runs EXCEPT ![r] = Settled(run)]
                 /\ \/ runs[r].aborted /\ run = dropped
                    \/ ~runs[r].aborted /\ c \in runs[r].covered /\ run = skipped
                    \/ ~runs[r].aborted /\ run = fetched
  BY DEF Take
<1>7. run \in Run
  <2>1. dropped \in Run /\ skipped \in Run
    <3>1. {} \in SUBSET Some /\ runs[r].targets \ {c} \in SUBSET Some
      BY <1>4
    <3> QED
      BY <1>1, <3>1, Zenon DEF Run
  <2>2. fetched \in Run
    <3>1. runs[r].targets \ {c} \in SUBSET Some
      BY <1>4
    <3>2. runs[r].jobs \cup {Fetch(r, c)} \in SUBSET Job
      BY <1>4, <1>5
    <3>3. runs[r].crew - 1 \in Nat
      BY <1>4, SMT
    <3> QED
      BY <1>1, <3>1, <3>2, <3>3, Zenon DEF Run
  <2> QED
    BY <1>6, <2>1, <2>2
<1>8. /\ run.stage = runs[r].stage /\ run.book = b /\ run.aborted = runs[r].aborted
      /\ run.covered = runs[r].covered /\ run.targets \subseteq runs[r].targets
      /\ runs[r].jobs \subseteq run.jobs
      /\ run.jobs \subseteq runs[r].jobs \cup {f}
      /\ ~runs[r].aborted => /\ runs[r].targets \subseteq run.targets \cup {c}
                             /\ c \in run.covered \/ f \in run.jobs
  BY <1>1, <1>6, <1>f DEF Run
<1> HIDE DEF dropped, skipped, fetched
<1>9. /\ f.asked = c /\ c # 0
      /\ content[b] /\ lacks[b] = {} => f.answer # {}
      /\ f.answer = {} \/ c \in f.answer \cup lacks[b]
  BY <1>2, <1>f, FetchFacts, ChapterFacts
<1>10. Assigned(run)
  <2>1. runs[r].stage # "free"
    BY <1>1 DEF Assigned
  <2>2. run.stage # "free" /\ run.book \in Books /\ run.targets \subseteq Chapters(run.book)
    BY <1>1, <1>2, <1>8, <2>1 DEF Assigned
  <2>3. runs[r].stage \notin {"discover", "note"}
    BY <1>1, <1>2 DEF Assigned
  <2>4. ASSUME NEW j \in run.jobs
        PROVE  j.asked # 0
    <3>1. j \in runs[r].jobs \/ j = f
      BY <1>8
    <3> QED
      BY <1>1, <1>9, <2>3, <3>1 DEF Assigned
  <2> QED
    BY <1>8, <2>2, <2>3, <2>4 DEF Assigned
<1>11. CASE ~Live(run)
  <2>1. Settled(run) \in Run /\ Assigned(Settled(run)) /\ ~Live(Settled(run))
    BY <1>7, <1>10, <1>11, SettledTyped
  <2>2. PICK end : end = Settled(run)
    OBVIOUS
  <2> QED
    BY <1>3, <1>6, <2>1, <2>2, QuietSound, UntouchedBenign, OneRun
<1>12. CASE Live(run)
  <2>1. runs' = [runs EXCEPT ![r] = run] /\ Live(runs[r])
    BY <1>6, <1>7, <1>8, <1>10, <1>12, SettledTyped DEF Live
  <2>2. Holds(r, run)' /\ Covers(run)'
    BY <1>1, <1>2, <1>3, <1>8, <2>1 DEF Sound, Holds, Covers
  <2>3. Near(run)'
    BY <1>1, <1>3, <1>8, <1>9, <2>1 DEF Sound, Near
  <2>4. Gapless(run)'
    <3>1. SUFFICES ASSUME run.stage = "gaps", NEW d \in Chapters(b),
                          d \notin run.covered \cup run.targets \cup lacks[b]
                   PROVE  Brings(run, d)
      BY <1>3, <1>8 DEF Gapless, Brings
    <3>2. CASE d = c
      BY <1>8, <1>9, <2>1, <3>1, <3>2 DEF Brings, Live
    <3>3. CASE d # c
      <4>1. Brings(runs[r], d)
        BY <1>1, <1>8, <2>1, <3>1, <3>3 DEF Sound, Gapless, Live
      <4> QED
        BY <1>8, <4>1 DEF Brings
    <3> QED
      BY <3>2, <3>3
  <2>5. Sound(r, run)'
    BY <1>7, <1>10, <2>2, <2>3, <2>4 DEF Sound
  <2> QED
    BY <1>3, <2>1, <2>5, UntouchedBenign, OneRun
<1> QED
  BY <1>11, <1>12

LEMMA FillGapsKeeps ==
  ASSUME IInv, NEW r \in Runs, FillGaps(r)
  PROVE  Sounds' /\ runs' \in [Runs -> Run]
<1>1. runs[r] \in Run /\ Sound(r, runs[r]) /\ runs[r].stage = "pool"
      /\ runs[r].jobs = {} /\ runs[r].book \in Books
  BY DEF IInv, TypeOK, Sounds, Sound, Assigned, FillGaps
<1>2. PICK run : run = [runs[r] EXCEPT !.stage = "gaps", !.targets = Missing(r), !.crew = 1]
  OBVIOUS
<1>3. runs' = [runs EXCEPT ![r] = run] /\ UNCHANGED <<chapters, content, slot, lacks>>
  BY <1>2 DEF FillGaps, stored, bucket
<1>4. Missing(r) = Chapters(runs[r].book) \ runs[r].covered /\ Missing(r) \in SUBSET Some
  BY <1>1, ChapterFacts DEF Missing
<1>5. run \in Run
  <2>1. "gaps" \in Stages /\ 1 \in Nat
    BY SMT DEF Stages
  <2> QED
    BY <1>1, <1>2, <1>4, <2>1, Zenon DEF Run
<1>6. /\ run.stage = "gaps" /\ run.targets = Missing(r) /\ run.jobs = {}
      /\ run.book = runs[r].book /\ run.covered = runs[r].covered
      /\ run.aborted = runs[r].aborted
  BY <1>1, <1>2 DEF Run
<1>7. Assigned(run)
  BY <1>1, <1>4, <1>6 DEF Assigned
<1>8. Live(run) => Live(runs[r])
  BY <1>1, <1>6 DEF Live, Fetching
<1>9. Holds(r, run)' /\ Near(run)' /\ Covers(run)'
  BY <1>1, <1>3, <1>6, <1>8 DEF Sound, Holds, Near, Covers
<1>10. Gapless(run)'
  BY <1>4, <1>6 DEF Gapless
<1>11. Sound(r, run)'
  BY <1>5, <1>7, <1>9, <1>10 DEF Sound
<1> QED
  BY <1>3, <1>11, UntouchedBenign, OneRun

LEMMA ReadFlagsKeeps ==
  ASSUME IInv, NEW r \in Runs, ReadFlags(r)
  PROVE  Sounds' /\ runs' \in [Runs -> Run]
<1>1. runs[r] \in Run /\ Assigned(runs[r]) /\ runs[r].stage = "mark"
      /\ runs[r].book \in Books /\ flags \in [Books -> Flags]
  BY DEF IInv, TypeOK, Sounds, Sound, Assigned, ReadFlags
<1>2. PICK run : run = [runs[r] EXCEPT !.stage = "put", !.row = flags[runs[r].book]]
  OBVIOUS
<1>3. runs' = [runs EXCEPT ![r] = run] /\ UNCHANGED <<chapters, content, slot, lacks>>
  BY <1>2 DEF ReadFlags, stored, bucket
<1>4. run \in Run
  <2>1. "put" \in Stages /\ flags[runs[r].book] \in Flags
    BY <1>1 DEF Stages
  <2> QED
    BY <1>1, <1>2, <2>1, Zenon DEF Run
<1>5. /\ run.stage = "put" /\ run.targets = runs[r].targets /\ run.jobs = runs[r].jobs
      /\ run.book = runs[r].book
  BY <1>1, <1>2 DEF Run
<1>6. Assigned(run) /\ ~Live(run)
  BY <1>1, <1>5 DEF Assigned, Live, Fetching
<1> QED
  BY <1>3, <1>4, <1>6, QuietSound, UntouchedBenign, OneRun

-----------------------------------------------------------------------------
(* The steps of a run that write the tables or end it.                     *)

\* The targets of the stride pass are chapters of the book.
LEMMA StrideFacts ==
  ASSUME NEW b \in Books, NEW covered
  PROVE  StrideTargets(b, covered) \subseteq Chapters(b)
BY ChapterFacts DEF StrideTargets

LEMMA PersistKeeps ==
  ASSUME IInv, NEW r \in Runs, NEW j \in runs[r].jobs, Persist(r, j)
  PROVE  /\ Sounds' /\ runs' \in [Runs -> Run]
         /\ chapters' \in [Books -> SUBSET Some] /\ WholeBook'
<1> DEFINE b == runs[r].book
<1> DEFINE first == j.asked = 0
<1>1. /\ runs[r] \in Run /\ Sound(r, runs[r]) /\ Assigned(runs[r])
      /\ j \in Job /\ j.answer # {} /\ j.answer \subseteq Some /\ runs[r].stage # "discover"
      /\ chapters \in [Books -> SUBSET Some]
  BY DEF IInv, TypeOK, Sounds, Sound, Persist, Run, Job
<1>2. b \in Books
  BY <1>1 DEF Assigned
<1>3. PICK cov : cov = runs[r].covered \cup j.answer
  OBVIOUS
<1>4. PICK rest : rest = [runs[r] EXCEPT !.jobs = @ \ {j}, !.crew = @ + 1, !.covered = cov]
  OBVIOUS
<1>5. PICK run : run = IF first THEN [rest EXCEPT !.stage = "pool", !.crew = Workers,
                                                  !.targets = StrideTargets(b, cov)]
                       ELSE rest
  OBVIOUS
<1>6. /\ chapters' = [chapters EXCEPT ![b] = @ \cup j.answer]
      /\ runs' = [runs EXCEPT ![r] = IF first THEN run ELSE Settled(run)]
      /\ UNCHANGED <<content, slot, lacks>>
  BY <1>3, <1>4, <1>5 DEF Persist, bucket
<1>7. cov \in SUBSET Some
  BY <1>1, <1>2, <1>3 DEF Run
<1>8. rest \in Run
  <2>1. runs[r].jobs \ {j} \in SUBSET Job /\ runs[r].crew + 1 \in Nat
    BY <1>1, SMT DEF Run
  <2> QED
    BY <1>1, <1>4, <1>7, <2>1, Zenon DEF Run
<1>9. /\ rest.stage = runs[r].stage /\ rest.book = b /\ rest.aborted = runs[r].aborted
      /\ rest.targets = runs[r].targets /\ rest.jobs = runs[r].jobs \ {j}
      /\ rest.covered = cov
  BY <1>1, <1>4 DEF Run
<1>10. StrideTargets(b, cov) \in SUBSET Chapters(b) /\ StrideTargets(b, cov) \in SUBSET Some
  BY <1>2, StrideFacts, ChapterFacts
<1>11. run \in Run
  <2>1. "pool" \in Stages /\ Workers \in Nat
    BY DownloadsAssumption DEF Stages
  <2> QED
    BY <1>5, <1>8, <1>10, <2>1, Zenon DEF Run
<1>12. /\ run.book = b /\ run.aborted = runs[r].aborted
       /\ run.jobs = runs[r].jobs \ {j} /\ run.covered = cov
       /\ first => run.stage = "pool" /\ run.targets \subseteq Chapters(b) /\ runs[r].stage = "note"
       /\ ~first => run.stage = runs[r].stage /\ run.targets = runs[r].targets
  BY <1>1, <1>5, <1>8, <1>9, <1>10 DEF Run, Assigned
<1>13. Assigned(run)
  BY <1>1, <1>2, <1>12 DEF Assigned
<1>14. \A s \in Runs \ {r} : Benign(runs[s])
  BY <1>1, <1>2, <1>6 DEF Benign
<1>15. chapters' \in [Books -> SUBSET Some] /\ WholeBook'
  <2>1. chapters' \in [Books -> SUBSET Some]
    BY <1>1, <1>2, <1>6
  <2>2. \A a \in Books : chapters[a] \subseteq chapters'[a]
    BY <1>1, <1>2, <1>6
  <2> QED
    BY <1>6, <2>1, <2>2 DEF IInv, WholeBook
<1>16. CASE ~Live(run)
  <2>1. PICK end : end = IF first THEN run ELSE Settled(run)
    OBVIOUS
  <2>2. end \in Run /\ Assigned(end) /\ ~Live(end)
    BY <1>11, <1>13, <1>16, <2>1, SettledTyped
  <2> QED
    BY <1>6, <1>14, <1>15, <2>1, <2>2, QuietSound, OneRun
<1>17. CASE Live(run)
  <2>1. runs' = [runs EXCEPT ![r] = run] /\ Live(runs[r])
    BY <1>6, <1>11, <1>12, <1>13, <1>17, SettledTyped DEF Live, Fetching
  <2>2. Holds(r, run)' /\ Near(run)'
    BY <1>1, <1>6, <1>12, <2>1 DEF Sound, Holds, Near
  <2>3. Covers(run)'
    <3>1. chapters'[b] = chapters[b] \cup j.answer
      BY <1>1, <1>2, <1>6
    <3> QED
      BY <1>1, <1>3, <1>6, <1>12, <2>1, <3>1 DEF Sound, Covers, Assigned
  <2>4. Gapless(run)'
    <3>1. SUFFICES ASSUME run.stage = "gaps", NEW d \in Chapters(b),
                          d \notin run.covered \cup run.targets \cup lacks[b]
                   PROVE  Brings(run, d)
      BY <1>6, <1>12 DEF Gapless, Brings
    <3>2. ~first /\ runs[r].stage = "gaps" /\ d \notin runs[r].covered \cup runs[r].targets
          /\ d \notin j.answer
      BY <1>3, <1>12, <3>1
    <3>3. PICK i \in runs[r].jobs : i.asked = d /\ (i.answer = {} \/ d \in i.answer)
      BY <1>1, <2>1, <3>1, <3>2 DEF Sound, Gapless, Brings
    <3>4. i # j
      BY <1>1, <3>2, <3>3
    <3> QED
      BY <1>12, <3>3, <3>4 DEF Brings
  <2>5. Sound(r, run)'
    BY <1>11, <1>13, <2>2, <2>3, <2>4 DEF Sound
  <2> QED
    BY <1>14, <1>15, <2>1, <2>5, OneRun
<1> QED
  BY <1>16, <1>17

\* A failure deletes only what no other run is fetching.
LEMMA FailureKeeps ==
  ASSUME IInv, NEW r \in Runs, runs[r].stage \in Fetching,
         NEW run \in Run, Assigned(run), run.book = runs[r].book, run.stage \in Fetching,
         \A j \in run.jobs : j.asked # 0,
         HandleFailure(r, run)
  PROVE  /\ Sounds' /\ runs' \in [Runs -> Run] /\ WholeBook'
         /\ chapters' \in [Books -> SUBSET Some] /\ content' \in [Books -> BOOLEAN]
         /\ flags' \in [Books -> Flags] /\ lacks' \in [Books -> SUBSET Some]
<1> DEFINE b == run.book
<1>1. /\ b \in Books /\ chapters \in [Books -> SUBSET Some] /\ content \in [Books -> BOOLEAN]
      /\ flags \in [Books -> Flags] /\ lacks \in [Books -> SUBSET Some]
  BY DEF IInv, TypeOK, Assigned, Fetching
<1>2. PICK end : end = [run EXCEPT !.stage = IF ~Owns(r) THEN "over" ELSE
                                             IF run.aborted THEN "cancelled" ELSE "failed"]
  OBVIOUS
<1>3. runs' = [runs EXCEPT ![r] = Settled(end)] /\ UNCHANGED slot
  BY <1>2 DEF HandleFailure, bucket
<1>4. end \in Run
  <2>1. {"over", "cancelled", "failed"} \subseteq Stages
    BY DEF Stages
  <2> QED
    BY <1>2, <2>1, Zenon DEF Run
<1>5. end.stage \in {"over", "cancelled", "failed"} /\ end.book = b
      /\ end.targets = run.targets /\ end.jobs = run.jobs
  BY <1>2 DEF Run
<1>6. Assigned(end) /\ ~Live(end)
  BY <1>1, <1>5 DEF Assigned, Live, Fetching
<1>7. PICK last : last = Settled(end)
  OBVIOUS
<1>8. last \in Run /\ Assigned(last) /\ ~Live(last)
  BY <1>4, <1>6, <1>7, SettledTyped
<1>9. Sound(r, last)'
  BY <1>8, QuietSound
<1>10. runs' = [runs EXCEPT ![r] = last]
  BY <1>3, <1>7
<1>11. CASE ~Owns(r)
  <2>1. UNCHANGED <<chapters, content, flags, slot, lacks>>
    BY <1>3, <1>11 DEF HandleFailure, stored
  <2> QED
    BY <1>1, <1>9, <1>10, <2>1, UntouchedBenign, OneRun DEF IInv
<1>12. CASE Owns(r)
  <2>1. Emptied(b) /\ lacks' = [lacks EXCEPT ![b] = {}]
    BY <1>12 DEF HandleFailure
  <2>2. chapters' \in [Books -> SUBSET Some]
    BY <1>1, <2>1 DEF Emptied
  <2>3. content' \in [Books -> BOOLEAN] /\ lacks' \in [Books -> SUBSET Some]
    BY <1>1, <2>1 DEF Emptied
  <2>4. flags' \in [Books -> Flags]
    BY <1>1, <2>1 DEF Emptied, Flags
  <2>5. ~content'[b] /\ \A a \in Books \ {b} : /\ content'[a] = content[a] /\ lacks'[a] = lacks[a]
                                            /\ chapters'[a] = chapters[a]
    BY <1>1, <2>1 DEF Emptied
  <2>6. WholeBook'
    BY <2>5 DEF IInv, WholeBook
  <2>7. ASSUME NEW s \in Runs \ {r}
        PROVE  Benign(runs[s])
    <3>1. CASE ~Live(runs[s])
      BY <3>1 DEF Benign
    <3>2. CASE Live(runs[s])
      <4>1. runs[s].book \in Books /\ slot[runs[s].book] = s
        BY <3>2 DEF IInv, Sounds, Sound, Assigned, Holds, Live, Fetching
      <4>2. runs[s].book # b
        BY <1>12, <4>1 DEF Owns
      <4> QED
        BY <1>3, <2>5, <4>1, <4>2 DEF Benign
    <3> QED
      BY <3>1, <3>2
  <2> QED
    BY <1>9, <1>10, <2>2, <2>3, <2>4, <2>6, <2>7, OneRun
<1> QED
  BY <1>11, <1>12

\* A request that fails or is aborted.
LEMMA RejectKeeps ==
  ASSUME IInv, NEW r \in Runs, NEW j \in runs[r].jobs, Reject(r, j)
  PROVE  /\ Sounds' /\ runs' \in [Runs -> Run] /\ WholeBook'
         /\ chapters' \in [Books -> SUBSET Some] /\ content' \in [Books -> BOOLEAN]
         /\ flags' \in [Books -> Flags] /\ lacks' \in [Books -> SUBSET Some]
<1>1. /\ runs[r] \in Run /\ Assigned(runs[r]) /\ runs[r].stage # "free"
  BY DEF IInv, TypeOK, Sounds, Sound, Assigned
<1>2. PICK run : run = [runs[r] EXCEPT !.jobs = @ \ {j}]
  OBVIOUS
<1>3. run \in Run
  <2>1. runs[r].jobs \ {j} \in SUBSET Job
    BY <1>1 DEF Run
  <2> QED
    BY <1>1, <1>2, <2>1, Zenon DEF Run
<1>4. /\ run.stage = runs[r].stage /\ run.book = runs[r].book
      /\ run.targets = runs[r].targets /\ run.jobs = runs[r].jobs \ {j}
      /\ run.aborted = runs[r].aborted
  BY <1>1, <1>2 DEF Run
<1>5. Assigned(run) /\ \A i \in run.jobs : i.asked # 0
  BY <1>1, <1>4 DEF Assigned
<1>6. CASE run.stage \in Fetching
  <2>1. HandleFailure(r, run)
    BY <1>2, <1>6 DEF Reject
  <2> QED
    BY <1>3, <1>4, <1>5, <1>6, <2>1, FailureKeeps
<1>7. CASE run.stage \notin Fetching
  <2>1. PICK last : last = Settled(run)
    OBVIOUS
  <2>2. /\ runs' = [runs EXCEPT ![r] = last]
        /\ UNCHANGED <<chapters, content, flags, slot, lacks>>
    BY <1>2, <1>7, <2>1 DEF Reject, stored, bucket
  <2>3. last \in Run /\ Assigned(last) /\ ~Live(last)
    BY <1>3, <1>5, <1>7, <2>1, SettledTyped DEF Live
  <2> QED
    BY <2>2, <2>3, QuietSound, UntouchedBenign, OneRun DEF IInv, TypeOK
<1> QED
  BY <1>6, <1>7

\* The row comes when every chapter is there.
LEMMA FinishKeeps ==
  ASSUME IInv, NEW r \in Runs, Finish(r)
  PROVE  /\ Sounds' /\ runs' \in [Runs -> Run] /\ WholeBook'
         /\ chapters' \in [Books -> SUBSET Some] /\ content' \in [Books -> BOOLEAN]
         /\ flags' \in [Books -> Flags] /\ lacks' \in [Books -> SUBSET Some]
<1> DEFINE b == runs[r].book
<1>1. /\ runs[r] \in Run /\ Assigned(runs[r]) /\ Sound(r, runs[r])
      /\ runs[r].stage = "gaps" /\ runs[r].jobs = {} /\ b \in Books
      /\ content \in [Books -> BOOLEAN]
  BY DEF IInv, TypeOK, Sounds, Sound, Assigned, Finish
<1>2. CASE runs[r].aborted
  <2>1. PICK run : run = [runs[r] EXCEPT !.crew = 0]
    OBVIOUS
  <2>2. run \in Run
    <3>1. 0 \in Nat
      BY SMT
    <3> QED
      BY <1>1, <2>1, <3>1, Zenon DEF Run
  <2>3. run.stage = "gaps" /\ run.book = b /\ run.targets = runs[r].targets /\ run.jobs = {}
    BY <1>1, <2>1 DEF Run
  <2>4. Assigned(run)
    BY <1>1, <2>3 DEF Assigned
  <2>5. HandleFailure(r, run)
    BY <1>2, <2>1 DEF Finish
  <2> QED
    BY <1>1, <2>2, <2>3, <2>4, <2>5, FailureKeeps DEF Fetching
<1>3. CASE ~runs[r].aborted
  <2>1. PICK run : run = [runs[r] EXCEPT !.stage = "mark"]
    OBVIOUS
  <2>2. PICK last : last = Settled(run)
    OBVIOUS
  <2>3. /\ runs' = [runs EXCEPT ![r] = last]
        /\ content' = [content EXCEPT ![b] = TRUE] /\ runs[r].targets = {}
        /\ UNCHANGED <<chapters, flags, slot, lacks>>
    BY <1>3, <2>1, <2>2 DEF Finish, bucket
  <2>4. run \in Run
    <3>1. "mark" \in Stages
      BY DEF Stages
    <3> QED
      BY <1>1, <2>1, <3>1, Zenon DEF Run
  <2>5. run.stage = "mark" /\ run.book = b /\ run.targets = {} /\ run.jobs = {}
    BY <1>1, <2>1, <2>3 DEF Run
  <2>6. Assigned(run) /\ ~Live(run)
    BY <1>1, <2>5 DEF Assigned, Live, Fetching
  <2>7. last \in Run /\ Assigned(last) /\ ~Live(last)
    BY <2>2, <2>4, <2>6, SettledTyped
  <2>8. Live(runs[r]) /\ slot[b] = r
    BY <1>1, <1>3 DEF Live, Fetching, Sound, Holds
  <2>9. ASSUME NEW s \in Runs \ {r}
        PROVE  Benign(runs[s])
    <3>1. CASE ~Live(runs[s])
      BY <3>1 DEF Benign
    <3>2. CASE Live(runs[s])
      <4>1. runs[s].book \in Books /\ slot[runs[s].book] = s
        BY <3>2 DEF IInv, Sounds, Sound, Assigned, Holds, Live, Fetching
      <4>2. runs[s].book # b
        BY <2>8, <4>1
      <4> QED
        BY <1>1, <2>3, <4>1, <4>2 DEF Benign
    <3> QED
      BY <3>1, <3>2
  <2>10. Chapters(b) \subseteq chapters[b] \cup lacks[b]
    BY <1>1, <2>3, <2>8 DEF Sound, Gapless, Covers, Brings
  <2>11. WholeBook'
    BY <1>1, <2>3, <2>10 DEF IInv, WholeBook
  <2> QED
    BY <1>1, <2>3, <2>7, <2>9, <2>11, QuietSound, OneRun DEF IInv, TypeOK
<1> QED
  BY <1>2, <1>3

\* The end of a run frees the slot only of the book it owns.
LEMMA CloseKeeps ==
  ASSUME IInv, NEW r \in Runs, NEW outcome \in Status, Close(r, outcome),
         runs[r].stage \notin Fetching, runs[r].stage # "free",
         UNCHANGED <<chapters, content, lacks>>
  PROVE  /\ Sounds' /\ runs' \in [Runs -> Run] /\ WholeBook'
         /\ status' \in [Books -> Status] /\ slot' \in [Books -> Runs \cup {NoRun}]
         /\ waiting' \in [Books -> BOOLEAN] /\ aborting' \in BOOLEAN
<1> DEFINE b == runs[r].book
<1>1. /\ runs[r] \in Run /\ Assigned(runs[r]) /\ b \in Books
      /\ status \in [Books -> Status] /\ slot \in [Books -> Runs \cup {NoRun}]
      /\ waiting \in [Books -> BOOLEAN] /\ aborting \in BOOLEAN
  BY DEF IInv, TypeOK, Sounds, Sound, Assigned
<1>2. status' \in [Books -> Status]
  BY <1>1 DEF Close
<1>3. slot' \in [Books -> Runs \cup {NoRun}]
  BY <1>1 DEF Close, ClearInFlight
<1>4. waiting' \in [Books -> BOOLEAN] /\ aborting' \in BOOLEAN
  BY <1>1 DEF Close, ClearInFlight
<1>5. \A a \in Books : slot[a] # r \/ a # b => slot'[a] = slot[a]
  BY <1>1 DEF Close, ClearInFlight, Owns
<1>6. PICK over : over = [runs[r] EXCEPT !.stage = "over"]
  OBVIOUS
<1>7. PICK last : last = Settled(over)
  OBVIOUS
<1>8. runs' = [runs EXCEPT ![r] = last]
  BY <1>6, <1>7 DEF Close
<1>9. over \in Run
  <2>1. "over" \in Stages
    BY DEF Stages
  <2> QED
    BY <1>1, <1>6, <2>1, Zenon DEF Run
<1>10. over.stage = "over" /\ over.book = b /\ over.targets = runs[r].targets
       /\ over.jobs = runs[r].jobs
  BY <1>1, <1>6 DEF Run
<1>11. Assigned(over) /\ ~Live(over)
  BY <1>1, <1>10 DEF Assigned, Live, Fetching
<1>12. last \in Run /\ Assigned(last) /\ ~Live(last)
  BY <1>7, <1>9, <1>11, SettledTyped
<1>13. ASSUME NEW s \in Runs \ {r}
       PROVE  Benign(runs[s])
  <2>1. CASE ~Live(runs[s])
    BY <2>1 DEF Benign
  <2>2. CASE Live(runs[s])
    <3>1. runs[s].book \in Books /\ slot[runs[s].book] = s
      BY <2>2 DEF IInv, Sounds, Sound, Assigned, Holds, Live, Fetching
    <3> QED
      BY <1>5, <3>1 DEF Benign
  <2> QED
    BY <2>1, <2>2
<1>14. WholeBook'
  BY UntouchedBenign DEF IInv, WholeBook
<1> QED
  BY <1>2, <1>3, <1>4, <1>8, <1>12, <1>13, <1>14, QuietSound, OneRun

-----------------------------------------------------------------------------
(* The steps of the others.                                                *)

\* Aborting a run keeps it well formed and makes it a failure to come.
LEMMA AbortedTyped ==
  ASSUME NEW run \in Run, Assigned(run)
  PROVE  LET aborted == [run EXCEPT !.aborted = TRUE]
         IN  aborted \in Run /\ Assigned(aborted) /\ ~Live(aborted)
<1> DEFINE aborted == [run EXCEPT !.aborted = TRUE]
<1>1. aborted \in Run
  BY Zenon DEF Run
<1>2. /\ aborted.stage = run.stage /\ aborted.book = run.book /\ aborted.aborted
      /\ aborted.targets = run.targets /\ aborted.jobs = run.jobs
  BY DEF Run
<1> HIDE DEF aborted
<1>3. Assigned(aborted) /\ ~Live(aborted)
  BY <1>2 DEF Assigned, Live
<1> QED
  BY <1>1, <1>3 DEF aborted

\* A run that starts takes the slot, and whoever held a slot is aborted.
LEMMA StartKeeps ==
  ASSUME IInv, NEW a \in asks, NEW r \in Runs, Start(a, r)
  PROVE  /\ Sounds' /\ runs' \in [Runs -> Run] /\ WholeBook'
         /\ asks' \subseteq Ask /\ slot' \in [Books -> Runs \cup {NoRun}]
         /\ status' \in [Books -> Status] /\ lacks' \in [Books -> SUBSET Some]
<1>1. /\ a \in Ask /\ a.book \in Books /\ a.by \in Callers /\ asks \subseteq Ask
      /\ content \in [Books -> BOOLEAN] /\ lacks \in [Books -> SUBSET Some]
      /\ status \in [Books -> Status] /\ slot \in [Books -> Runs \cup {NoRun}]
      /\ \A s \in Runs : runs[s] \in Run /\ Assigned(runs[s]) /\ Holds(s, runs[s])
  BY DEF IInv, TypeOK, Ask, Sounds, Sound
<1> DEFINE b == a.book
<1>2. PICK new : new = [Free EXCEPT !.stage = "discover", !.book = b, !.by = a.by]
  OBVIOUS
<1>3. runs' = [s \in Runs |-> IF s = r THEN new
                             ELSE IF s \in Aborts(b) THEN [runs[s] EXCEPT !.aborted = TRUE]
                                  ELSE runs[s]]
  BY <1>2 DEF Start
<1>4. /\ asks' \subseteq Ask /\ slot' = [slot EXCEPT ![b] = r] /\ UNCHANGED <<content, chapters>>
      /\ status' = [status EXCEPT ![b] = "saving"]
      /\ lacks' = [lacks EXCEPT ![b] = IF content[b] THEN @ ELSE {}]
  BY <1>1 DEF Start, stored
<1>5. slot' \in [Books -> Runs \cup {NoRun}] /\ slot'[b] = r
  BY <1>1, <1>4
<1>6. status' \in [Books -> Status]
  <2>1. "saving" \in Status
    BY DEF Status
  <2> QED
    BY <1>1, <1>4, <2>1
<1>7. lacks' \in [Books -> SUBSET Some] /\ (\A c \in Books : content[c] => lacks'[c] = lacks[c])
  BY <1>1, <1>4
<1>8. WholeBook'
  BY <1>4, <1>7 DEF IInv, WholeBook
<1>9. new \in Run
  <2>1. "discover" \in Stages
    BY DEF Stages
  <2> QED
    BY <1>1, <1>2, <2>1, FreeTyped, Zenon DEF Run
<1>10. /\ new.stage = "discover" /\ new.book = b /\ new.jobs = {} /\ new.targets = {}
  BY <1>2, FreeTyped DEF Run, Free
<1>11. Sound(r, new)'
  <2>1. Assigned(new)
    BY <1>1, <1>10 DEF Assigned
  <2>2. Holds(r, new)' /\ Near(new)' /\ Covers(new)' /\ Gapless(new)'
    BY <1>5, <1>10 DEF Holds, Near, Covers, Gapless
  <2> QED
    BY <1>9, <2>1, <2>2 DEF Sound
<1>12. ASSUME NEW s \in Runs
       PROVE  runs'[s] \in Run /\ Sound(s, runs[s])'
  <2>1. PICK next : next = runs'[s]
    OBVIOUS
  <2>2. next \in Run /\ Sound(s, next)'
    <3>1. CASE s = r
      BY <1>3, <1>9, <1>11, <2>1, <3>1
    <3>2. CASE s # r /\ s \in Aborts(b)
      <4>1. next = [runs[s] EXCEPT !.aborted = TRUE]
        BY <1>3, <2>1, <3>2
      <4>2. next \in Run /\ Assigned(next) /\ ~Live(next)
        BY <1>1, <4>1, AbortedTyped
      <4> QED
        BY <4>2, QuietSound
    <3>3. CASE s # r /\ s \notin Aborts(b)
      <4>1. next = runs[s]
        BY <1>3, <2>1, <3>3
      <4>2. next \in Run /\ Assigned(next) /\ ~Live(next)
        BY <1>1, <3>3, <4>1 DEF Holds, Aborts, Assigned, Live, Fetching
      <4> QED
        BY <4>2, QuietSound
    <3> QED
      BY <3>1, <3>2, <3>3
  <2> QED
    BY <2>1, <2>2 DEF Sound, Holds, Near, Covers, Gapless, Brings, Assigned, Live
<1>13. Sounds' /\ runs' \in [Runs -> Run]
  <2>1. runs' \in [Runs -> Run]
    BY <1>3, <1>12
  <2> QED
    BY <1>12, <2>1 DEF Sounds
<1> QED
  BY <1>4, <1>5, <1>6, <1>7, <1>8, <1>13

LEMMA AbortSaveKeeps ==
  ASSUME IInv, NEW b \in Books, AbortSave(b)
  PROVE  Sounds' /\ runs' \in [Runs -> Run] /\ WholeBook'
<1>1. UNCHANGED <<chapters, content, slot, lacks>>
  BY DEF AbortSave
<1>2. WholeBook'
  BY <1>1, UntouchedBenign DEF IInv
<1>3. CASE slot[b] = NoRun
  <2>1. UNCHANGED runs
    BY <1>3 DEF AbortSave
  <2>2. ASSUME NEW s \in Runs
        PROVE  Sound(s, runs[s])'
    <3>1. PICK old : old = runs[s] /\ old = runs'[s]
      BY <2>1
    <3>2. Sound(s, old)'
      BY <1>1, <3>1, BenignKeeps, UntouchedBenign DEF IInv, Sounds
    <3> QED
      BY <3>1, <3>2 DEF Sound, Holds, Near, Covers, Gapless, Brings, Assigned, Live
  <2> QED
    BY <1>2, <2>1, <2>2 DEF IInv, TypeOK, Sounds
<1>4. CASE slot[b] # NoRun
  <2>1. PICK r : r = slot[b] /\ r \in Runs
    BY <1>4 DEF IInv, TypeOK
  <2>2. PICK end : end = [runs[r] EXCEPT !.aborted = TRUE]
    OBVIOUS
  <2>3. runs' = [runs EXCEPT ![r] = end]
    BY <1>4, <2>1, <2>2 DEF AbortSave
  <2>4. end \in Run /\ Assigned(end) /\ ~Live(end)
    BY <2>1, <2>2, AbortedTyped DEF IInv, TypeOK, Sounds, Sound
  <2> QED
    BY <1>1, <1>2, <2>1, <2>3, <2>4, QuietSound, UntouchedBenign, OneRun
<1> QED
  BY <1>3, <1>4

\* A deletion under a run is on record.
LEMMA DeletedKeeps ==
  ASSUME IInv, NEW b \in Books, DeletedUnasked(b), UNCHANGED <<bucket, runs>>
  PROVE  /\ Sounds' /\ WholeBook'
         /\ chapters' \in [Books -> SUBSET Some] /\ content' \in [Books -> BOOLEAN]
         /\ flags' \in [Books -> Flags] /\ lacks' \in [Books -> SUBSET Some]
<1>1. /\ chapters \in [Books -> SUBSET Some] /\ content \in [Books -> BOOLEAN]
      /\ flags \in [Books -> Flags] /\ lacks \in [Books -> SUBSET Some]
  BY DEF IInv, TypeOK
<1>2. Emptied(b)
  BY DEF DeletedUnasked
<1>3. chapters' \in [Books -> SUBSET Some]
  BY <1>1, <1>2 DEF Emptied
<1>4. content' \in [Books -> BOOLEAN]
  BY <1>1, <1>2 DEF Emptied
<1>5. flags' \in [Books -> Flags]
  BY <1>1, <1>2 DEF Emptied, Flags
<1>6. /\ lacks' \in [Books -> SUBSET Some]
      /\ (\E r \in Runs : runs[r].book = b /\ Live(runs[r]) /\ runs[r].stage # "discover")
           => lacks'[b] = lacks[b] \cup chapters[b]
  <2>1. lacks[b] \cup chapters[b] \in SUBSET Some /\ {} \in SUBSET Some
    BY <1>1
  <2>2. CASE \E r \in Runs : /\ runs[r].book = b /\ ~runs[r].aborted
                             /\ runs[r].stage \in Fetching \ {"discover"}
    <3>1. lacks' = [lacks EXCEPT ![b] = lacks[b] \cup chapters[b]]
      BY <2>2 DEF DeletedUnasked
    <3> QED
      BY <1>1, <2>1, <3>1
  <2>3. CASE ~\E r \in Runs : /\ runs[r].book = b /\ ~runs[r].aborted
                              /\ runs[r].stage \in Fetching \ {"discover"}
    <3>1. lacks' = [lacks EXCEPT ![b] = {}]
      BY <2>3 DEF DeletedUnasked
    <3> QED
      BY <1>1, <2>1, <2>3, <3>1 DEF Live
  <2> QED
    BY <2>2, <2>3
<1>7. ~content'[b] /\ \A a \in Books \ {b} : /\ content'[a] = content[a] /\ lacks'[a] = lacks[a]
                                          /\ chapters'[a] = chapters[a]
  BY <1>1, <1>2 DEF Emptied, DeletedUnasked
<1>8. WholeBook'
  BY <1>7 DEF IInv, WholeBook
<1>9. ASSUME NEW s \in Runs
      PROVE  Sound(s, runs[s])'
  <2>1. Benign(runs[s])
    <3>1. SUFFICES ASSUME Live(runs[s])
                   PROVE  Benign(runs[s])
      BY DEF Benign
    <3>2. runs[s].book \in Books
      BY <3>1 DEF IInv, Sounds, Sound, Assigned, Live, Fetching
    <3>3. CASE runs[s].book # b
      BY <1>7, <3>2, <3>3 DEF Benign, bucket
    <3>4. CASE runs[s].book = b
      <4>1. runs[s].stage # "discover" => lacks'[b] = lacks[b] \cup chapters[b]
        BY <1>6, <3>1, <3>4
      <4> QED
        BY <1>7, <3>4, <4>1 DEF Benign, bucket
    <3> QED
      BY <3>3, <3>4
  <2>2. PICK old : old = runs[s] /\ old = runs'[s]
    OBVIOUS
  <2>3. Sound(s, old)'
    BY <2>1, <2>2, BenignKeeps DEF IInv, Sounds
  <2> QED
    BY <2>2, <2>3 DEF Sound, Holds, Near, Covers, Gapless, Brings, Assigned, Live
<1> QED
  BY <1>3, <1>4, <1>5, <1>6, <1>8, <1>9 DEF Sounds

LEMMA CrashKeeps ==
  ASSUME IInv, Crash
  PROVE  Sounds' /\ WholeBook' /\ TypeOK'
<1>1. /\ runs' = [r \in Runs |-> Free] /\ UNCHANGED <<chapters, content, flags, intents>>
      /\ lacks' = [b \in Books |-> IF content[b] THEN lacks[b] ELSE {}]
  BY DEF Crash, stored
<1>2. runs' \in [Runs -> Run]
  BY <1>1, FreeTyped
<1>3. ASSUME NEW s \in Runs
      PROVE  Sound(s, runs[s])'
  <2>1. PICK free : free = runs'[s] /\ free = Free
    BY <1>1
  <2>2. Sound(s, free)'
    BY <2>1, FreeTyped, QuietSound
  <2> QED
    BY <2>1, <2>2 DEF Sound, Holds, Near, Covers, Gapless, Brings, Assigned, Live
<1>4. WholeBook'
  BY <1>1 DEF IInv, WholeBook
<1>5. lacks' \in [Books -> SUBSET Some]
  BY <1>1 DEF IInv, TypeOK
<1>6. status' \in [Books -> Status]
  BY DEF Crash, Status
<1>7. slot' \in [Books -> Runs \cup {NoRun}] /\ waiting' \in [Books -> BOOLEAN]
  BY DEF Crash
<1>8. page' \in Pages
  BY DEF Crash, Pages
<1>9. faults' \in 0 .. MaxFaults
  BY DownloadsAssumption, SMT DEF Crash, IInv, TypeOK
<1>10. /\ asks' = {} /\ aborting' \in BOOLEAN
       /\ todo' = {} /\ evicting' = {} /\ removing' = {}
  BY DEF Crash
<1> QED
  BY <1>1, <1>2, <1>3, <1>4, <1>5, <1>6, <1>7, <1>8, <1>9, <1>10 DEF IInv, TypeOK, Sounds

\* A step that moves no run and writes neither chapters nor slots.
LEMMA CalmKeeps ==
  ASSUME IInv, UNCHANGED <<chapters, content, slot, lacks, runs>>
  PROVE  Sounds' /\ WholeBook'
<1>1. ASSUME NEW s \in Runs
      PROVE  Sound(s, runs[s])'
  <2>1. PICK old : old = runs[s] /\ old = runs'[s]
    OBVIOUS
  <2>2. Sound(s, old)'
    BY <2>1, UntouchedBenign, BenignKeeps DEF IInv, Sounds
  <2> QED
    BY <2>1, <2>2 DEF Sound, Holds, Near, Covers, Gapless, Brings, Assigned, Live
<1> QED
  BY <1>1, UntouchedBenign DEF IInv, Sounds

\* A click of the card writes the row of the library.
LEMMA ClickKeeps ==
  ASSUME IInv, NEW b \in Books, Click(b)
  PROVE  IInv'
<1>1. flags \in [Books -> Flags] /\ waiting \in [Books -> BOOLEAN]
      /\ intents \in 0 .. MaxIntents /\ MaxIntents \in Nat
  BY DownloadsAssumption DEF IInv, TypeOK
<1>2. Intend => intents' \in 0 .. MaxIntents
  BY <1>1, SMT DEF Intend
<1>3. ASSUME NEW w \in BOOLEAN, Wish(b, w)
      PROVE  flags' \in [Books -> Flags]
  BY <1>1, <1>3 DEF Wish, Flags
<1>4. CASE Request(b) \/ CancelSave(b)
  BY <1>2, <1>3, <1>4, CalmKeeps
     DEF Request, CancelSave, IInv, TypeOK, stored, bucket, others
<1>5. CASE AbortSave(b)
  <2>1. waiting' \in [Books -> BOOLEAN] /\ aborting' \in BOOLEAN
    BY <1>1, <1>5 DEF AbortSave, IInv, TypeOK
  <2> QED
    BY <1>2, <1>3, <1>5, <2>1, AbortSaveKeeps DEF AbortSave, IInv, TypeOK, others
<1>6. CASE KeepOffline(b)
  <2>1. flags' \in [Books -> Flags]
    BY <1>1, <1>6 DEF KeepOffline, Flags
  <2> QED
    BY <1>2, <1>6, <2>1, CalmKeeps DEF KeepOffline, IInv, TypeOK, bucket, others
<1>7. CASE ReleaseOffline(b)
  <2>1. flags' \in [Books -> Flags]
    BY <1>1, <1>7 DEF ReleaseOffline, Flags
  <2> QED
    BY <1>2, <1>7, <2>1, CalmKeeps DEF ReleaseOffline, IInv, TypeOK, bucket, others
<1>8. CASE RemoveDownload(b)
  BY <1>2, <1>3, <1>8, CalmKeeps DEF RemoveDownload, IInv, TypeOK, bucket
<1> QED
  BY <1>4, <1>5, <1>6, <1>7, <1>8 DEF Click

\* A step of a run.
LEMMA RunKeeps ==
  ASSUME IInv, NEW r \in Runs,
         \/ Proceed(r)
         \/ \E j \in runs[r].jobs : Reject(r, j) \/ AnswerOther(r, j) \/ AnswerNothing(r, j)
  PROVE  IInv'
<1>1. ASSUME Discover(r) \/ ReadCachedChapters(r) \/ FillGaps(r) \/ ReadFlags(r)
             \/ (\E j \in runs[r].jobs : Answer(r, j)) \/ (\E c \in runs[r].targets : Take(r, c))
      PROVE  IInv'
  <2>1. Sounds' /\ runs' \in [Runs -> Run]
    BY <1>1, DiscoverKeeps, ReadCachedKeeps, FillGapsKeeps, ReadFlagsKeeps, AnswerKeeps, TakeKeeps
  <2>2. UNCHANGED <<stored, bucket, asks, others, lacks, bounds>>
    BY <1>1 DEF Discover, ReadCachedChapters, FillGaps, ReadFlags, Answer, Take
  <2> QED
    BY <2>1, <2>2, UntouchedBenign DEF IInv, TypeOK, stored, bucket, others, bounds
<1>2. ASSUME NEW j \in runs[r].jobs, Persist(r, j)
      PROVE  IInv'
  BY <1>2, PersistKeeps DEF Persist, IInv, TypeOK, bucket, others, bounds
<1>3. ASSUME NEW j \in runs[r].jobs, Reject(r, j)
      PROVE  IInv'
  <2>1. UNCHANGED <<bucket, asks, page, aborting, evicting, removing, intents>>
    BY <1>3 DEF Reject, HandleFailure, others
  <2>2. todo' = todo \/ todo' = {}
    BY <1>3 DEF Reject, HandleFailure, others
  <2>3. faults' \in 0 .. MaxFaults
    BY <1>3, DownloadsAssumption, SMT DEF Reject, IInv, TypeOK
  <2> QED
    BY <1>3, <2>1, <2>2, <2>3, RejectKeeps DEF IInv, TypeOK, bucket
<1>4. CASE Finish(r)
  <2>1. UNCHANGED <<bucket, asks, page, aborting, evicting, removing, bounds>>
    BY <1>4 DEF Finish, HandleFailure, others
  <2>2. todo' = todo \/ todo' = {}
    BY <1>4 DEF Finish, HandleFailure, others
  <2> QED
    BY <1>4, <2>1, <2>2, FinishKeeps DEF IInv, TypeOK, bucket, bounds
<1>5. CASE WriteFlags(r)
  <2>1. runs[r].row \in Flags /\ flags \in [Books -> Flags]
    BY DEF IInv, TypeOK, Run
  <2>2. flags' \in [Books -> Flags]
    <3>1. PICK row : row = [runs[r].row EXCEPT
                              !.kept = @ \/ runs[r].by \in {"card", "primer"},
                              !.auto = @ \/ runs[r].by \in {"reader", "home"}]
      OBVIOUS
    <3>2. row \in Flags
      BY <2>1, <3>1 DEF Flags
    <3>3. flags' = [flags EXCEPT ![runs[r].book] = row]
      BY <1>5, <3>1 DEF WriteFlags
    <3> QED
      BY <2>1, <3>2, <3>3
  <2>3. /\ Close(r, "saved") /\ "saved" \in Status /\ runs[r].stage = "put"
        /\ UNCHANGED <<chapters, content, asks, page, todo, evicting, removing, lacks, bounds>>
    BY <1>5 DEF WriteFlags, Status
  <2> QED
    BY <2>2, <2>3, CloseKeeps DEF IInv, TypeOK, Fetching, bounds
<1>6. CASE GiveUp(r)
  <2>1. PICK outcome \in Status : Close(r, outcome)
    BY <1>6 DEF GiveUp, Status
  <2>2. /\ runs[r].stage \notin Fetching /\ runs[r].stage # "free"
        /\ UNCHANGED <<stored, asks, page, todo, evicting, removing, lacks, bounds>>
    BY <1>6 DEF GiveUp, Fetching
  <2> QED
    BY <2>1, <2>2, CloseKeeps DEF IInv, TypeOK, stored, bounds
<1>7. ASSUME NEW j \in runs[r].jobs, AnswerOther(r, j) \/ AnswerNothing(r, j)
      PROVE  IInv'
  <2>1. UNCHANGED <<stored, bucket, asks, others, intents>>
    BY <1>7 DEF AnswerOther, AnswerNothing
  <2>2. faults < MaxFaults /\ faults' = faults + 1
    BY <1>7 DEF AnswerOther, AnswerNothing
  <2>3. faults' \in 0 .. MaxFaults
    BY <2>2, DownloadsAssumption, SMT DEF IInv, TypeOK
  <2> QED
    BY <1>7, <2>1, <2>3, AnswerKeeps, AnswerNothingKeeps
       DEF IInv, TypeOK, stored, bucket, others
<1> QED
  BY <1>1, <1>2, <1>3, <1>4, <1>5, <1>6, <1>7 DEF Proceed

-----------------------------------------------------------------------------
(* The invariant.                                                          *)

\* It holds of what earlier visits have left.
LEMMA InitSafe == Init => IInv
<1> SUFFICES ASSUME Init
             PROVE  IInv
  OBVIOUS
<1>1. ASSUME NEW s \in Runs
      PROVE  Sound(s, runs[s])
  <2>1. runs[s] = Free
    BY DEF Init
  <2> QED
    BY <2>1, FreeTyped DEF Sound, Holds, Near, Covers, Gapless
<1>2. WholeBook
  BY DEF Init, WholeBook
<1>3. chapters \in [Books -> SUBSET Some]
  BY ChapterFacts DEF Init
<1>4. runs \in [Runs -> Run]
  BY FreeTyped DEF Init
<1>5. page \in Pages
  BY DEF Init, Pages
<1>6. intents \in 0 .. MaxIntents /\ faults \in 0 .. MaxFaults
  BY DownloadsAssumption, SMT DEF Init
<1>7. status \in [Books -> Status]
  BY DEF Init, Status
<1> QED
  BY <1>1, <1>2, <1>3, <1>4, <1>5, <1>6, <1>7 DEF Init, IInv, TypeOK, Sounds

\* Every step preserves it.
LEMMA StepSafe == IInv /\ [Next]_vars => IInv'
<1> SUFFICES ASSUME IInv, [Next]_vars
             PROVE  IInv'
  OBVIOUS
<1>1. CASE UNCHANGED vars
  BY <1>1, CalmKeeps DEF IInv, TypeOK, vars, stored, bucket, others, bounds
<1>2. ASSUME NEW b \in Books, CardAsks(b) \/ ReaderAsks(b)
      PROVE  IInv'
  <2>1. asks' \subseteq Ask
    BY <1>2 DEF CardAsks, ReaderAsks, Asks, Ask, Callers, IInv, TypeOK
  <2>2. UNCHANGED <<stored, bucket, runs, others, lacks, bounds>>
    BY <1>2 DEF CardAsks, ReaderAsks
  <2> QED
    BY <2>1, <2>2, CalmKeeps DEF IInv, TypeOK, stored, bucket, others, bounds
<1>3. ASSUME NEW a \in todo, PrimerTakes(a)
      PROVE  IInv'
  <2>1. asks' \subseteq Ask
    BY <1>3 DEF PrimerTakes, Asks, Ask, IInv, TypeOK
  <2>2. todo' \subseteq Ask
    BY <1>3 DEF PrimerTakes, IInv, TypeOK
  <2>3. UNCHANGED <<stored, bucket, runs, page, aborting, evicting, removing, lacks, bounds>>
    BY <1>3 DEF PrimerTakes
  <2> QED
    BY <2>1, <2>2, <2>3, CalmKeeps DEF IInv, TypeOK, stored, bucket, bounds
<1>4. Intend => intents' \in 0 .. MaxIntents
  BY DownloadsAssumption, SMT DEF Intend, IInv, TypeOK
<1>5. ASSUME NEW b \in Books \cup {NoBook}, PrimerReads(b)
      PROVE  IInv'
  <2>1. todo' \subseteq Ask
    BY <1>5 DEF PrimerReads, Ask, Callers
  <2>2. /\ Intend
        /\ UNCHANGED <<stored, bucket, runs, asks, page, aborting, evicting, removing, lacks,
                      faults>>
    BY <1>5 DEF PrimerReads
  <2> QED
    BY <1>4, <2>1, <2>2, CalmKeeps DEF IInv, TypeOK, stored, bucket
<1>6. ASSUME NEW a \in asks, NEW r \in Runs, Start(a, r)
      PROVE  IInv'
  BY <1>6, StartKeeps DEF Start, IInv, TypeOK, stored, others, bounds
<1>7. ASSUME NEW b \in Books, Remove(b) \/ Evict(b)
      PROVE  IInv'
  <2>1. DeletedUnasked(b) /\ UNCHANGED <<bucket, runs, asks, page, aborting, todo, bounds>>
    BY <1>7 DEF Remove, Evict
  <2>2. removing' \subseteq Books /\ evicting' \subseteq Books
    BY <1>7 DEF Remove, Evict, IInv, TypeOK
  <2> QED
    BY <2>1, <2>2, DeletedKeeps DEF IInv, TypeOK, bucket, bounds
<1>8. ASSUME NEW b \in Books, ListStale(b)
      PROVE  IInv'
  BY <1>8, CalmKeeps DEF ListStale, Stale, IInv, TypeOK, stored, bucket, bounds
<1>9. ASSUME NEW p \in Pages, Go(p)
      PROVE  IInv'
  BY <1>4, <1>9, CalmKeeps DEF Go, IInv, TypeOK, stored, bucket
<1>10. CASE Crash
  BY <1>10, CrashKeeps DEF IInv
<1> QED
  BY <1>1, <1>2, <1>3, <1>5, <1>6, <1>7, <1>8, <1>9, <1>10, ClickKeeps, RunKeeps DEF Next, Begin

\* The invariant holds throughout.
THEOREM DownloadsSafe == Spec => []IInv
<1>1. Init => IInv
  BY InitSafe
<1>2. IInv /\ [Next]_vars => IInv'
  BY StepSafe
<1> QED
  BY <1>1, <1>2, PTL DEF Spec

\* Every variable keeps its type (the tables of buckets/book, the slots of bucket.ts).
THEOREM DownloadsTyped == Spec => []TypeOK
<1>1. IInv => TypeOK
  BY DEF IInv
<1> QED
  BY <1>1, DownloadsSafe, PTL

\* The row of a book is there only with all its chapters (download.ts:408), but for those
\* deleted under the run or left out of the answers to its gaps pass (lacks), for any
\* books, lengths, windows of the server, workers and overlapping runs.
THEOREM BooksAreWhole == Spec => []WholeBook
<1>1. IInv => WholeBook
  BY DEF IInv
<1> QED
  BY <1>1, DownloadsSafe, PTL

\* What a step may take from the shelf.
Spared(b) ==
  content[b] /\ lacks[b] = {} /\ ~content'[b] =>
    \/ b \in removing \cup evicting
    \/ slot[b] # NoRun /\ runs[slot[b]].aborted

\* A failing run deletes a whole book only when it owns it and was aborted: a run that
\* fetches where the book is whole is answered by the cache, so no request of it fails.
LEMMA FailureSpares ==
  ASSUME IInv, NEW r \in Runs, NEW run, run.book = runs[r].book, run.book \in Books,
         run.aborted = runs[r].aborted, HandleFailure(r, run), NEW b \in Books,
         runs[r].aborted \/ ~content[run.book] \/ lacks[run.book] # {}
  PROVE  Spared(b)
<1>1. CASE ~Owns(r) \/ b # run.book
  <2>1. content'[b] = content[b]
    BY <1>1 DEF HandleFailure, Emptied, stored, IInv, TypeOK
  <2> QED
    BY <2>1 DEF Spared
<1>2. CASE Owns(r) /\ b = run.book
  BY <1>2, DownloadsAssumption DEF Owns, Spared
<1> QED
  BY <1>1, <1>2

LEMMA StepSpares ==
  ASSUME IInv, Next, NEW b \in Books
  PROVE  Spared(b)
<1>1. content \in [Books -> BOOLEAN]
  BY DEF IInv, TypeOK
<1>2. ASSUME content'[b] = content[b]
      PROVE  Spared(b)
  BY <1>2 DEF Spared
<1>3. ASSUME NEW r \in Runs, NEW j \in runs[r].jobs, Reject(r, j)
      PROVE  Spared(b)
  <2>1. PICK run : run = [runs[r] EXCEPT !.jobs = @ \ {j}]
    OBVIOUS
  <2>2. /\ runs[r] \in Run /\ Assigned(runs[r]) /\ Near(runs[r]) /\ runs[r].stage # "free"
        /\ j.answer = {}
    BY <1>3 DEF IInv, TypeOK, Sounds, Sound, Assigned, Reject
  <2>3. /\ run.book = runs[r].book /\ run.stage = runs[r].stage
        /\ run.aborted = runs[r].aborted /\ run.book \in Books
    BY <2>1, <2>2 DEF Run, Assigned
  <2>4. CASE run.stage \in Fetching
    <3>1. HandleFailure(r, run)
      BY <1>3, <2>1, <2>4 DEF Reject
    <3>2. runs[r].aborted \/ ~content[run.book] \/ lacks[run.book] # {}
      BY <2>2, <2>3, <2>4 DEF Near, Live
    <3> QED
      BY <2>3, <3>1, <3>2, FailureSpares
  <2>5. CASE run.stage \notin Fetching
    BY <1>2, <1>3, <2>1, <2>5 DEF Reject, stored
  <2> QED
    BY <2>4, <2>5
<1>4. ASSUME NEW r \in Runs, Finish(r)
      PROVE  Spared(b)
  <2>1. runs[r] \in Run /\ runs[r].book \in Books
    BY <1>4 DEF IInv, TypeOK, Sounds, Sound, Assigned, Finish
  <2>2. CASE runs[r].aborted
    <3>1. PICK run : run = [runs[r] EXCEPT !.crew = 0]
      OBVIOUS
    <3>2. HandleFailure(r, run)
      BY <1>4, <2>2, <3>1 DEF Finish
    <3>3. run.book = runs[r].book /\ run.aborted = runs[r].aborted
      BY <2>1, <3>1 DEF Run
    <3> QED
      BY <2>1, <2>2, <3>2, <3>3, FailureSpares
  <2>3. CASE ~runs[r].aborted
    BY <1>1, <1>4, <2>1, <2>3 DEF Finish, Spared
  <2> QED
    BY <2>2, <2>3
<1>5. ASSUME NEW a \in Books, Remove(a) \/ Evict(a)
      PROVE  Spared(b)
  <2>1. Emptied(a) /\ a \in removing \cup evicting
    BY <1>5 DEF Remove, Evict, DeletedUnasked
  <2>2. CASE a = b
    BY <2>1, <2>2 DEF Spared
  <2>3. CASE a # b
    BY <1>1, <1>2, <2>1, <2>3 DEF Emptied
  <2> QED
    BY <2>2, <2>3
<1>6. ASSUME NEW r \in Runs, Proceed(r)
      PROVE  Spared(b)
  BY <1>2, <1>3, <1>4, <1>6
     DEF Proceed, Discover, Answer, ReadCachedChapters, Persist, Take, FillGaps, ReadFlags,
         WriteFlags, GiveUp, stored
<1>7. ASSUME NEW a \in Books, CardAsks(a) \/ ReaderAsks(a) \/ Click(a) \/ ListStale(a)
      PROVE  Spared(b)
  BY <1>2, <1>7 DEF CardAsks, ReaderAsks, Click, Request, CancelSave, AbortSave,
       KeepOffline, ReleaseOffline, RemoveDownload, ListStale, stored
<1>8. CASE \/ \E a \in Books \cup {NoBook} : PrimerReads(a)
           \/ \E a \in todo : PrimerTakes(a)
           \/ \E r \in Runs : \E j \in runs[r].jobs : AnswerOther(r, j) \/ AnswerNothing(r, j)
           \/ Begin \/ Crash \/ (\E p \in Pages : Go(p))
  BY <1>2, <1>8 DEF PrimerReads, PrimerTakes, AnswerOther, AnswerNothing, Begin, Start, Crash, Go,
                    stored
<1> QED
  BY <1>3, <1>5, <1>6, <1>7, <1>8 DEF Next

\* A save that fails never takes away a book that another save has completed
\* (download.ts:256).
THEOREM FailuresSpareBooks == Spec => FailuresTakeNothing
<1>1. IInv /\ [Next]_vars =>
        [\A b \in Books :
           content[b] /\ lacks[b] = {} /\ ~content'[b] =>
             \/ b \in removing \cup evicting
             \/ slot[b] # NoRun /\ runs[slot[b]].aborted]_vars
  BY StepSpares DEF Spared
<1> QED
  BY <1>1, DownloadsSafe, PTL DEF Spec, FailuresTakeNothing

=============================================================================
