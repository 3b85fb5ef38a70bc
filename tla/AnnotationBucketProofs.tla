----------------------- MODULE AnnotationBucketProofs -----------------------
(***************************************************************************)
(* Why the bucket of a book's highlights keeps its promises, for any       *)
(* highlights and any bounds: one queued mutation for each highlight, no   *)
(* edit lost in silence, stored rows that mirror the confirmed ones, no    *)
(* mutation stored that has left the queue, edits applied in order, lists  *)
(* that only catch up and edits that stay on the page.                     *)
(*                                                                         *)
(* Every entry and mutation there is, in memory, in the tables, in a write *)
(* not yet done, in a request or on the server, is one of the reader's     *)
(* edits, and an edit's number tells which.  So two places that agree on a *)
(* number agree on the edit.                                               *)
(***************************************************************************)
EXTENDS AnnotationBucket, Integers, FiniteSetTheorems, SequenceTheorems, TLAPS

-----------------------------------------------------------------------------
(* Ascending puts the keys of distinct numbers in order.                   *)

\* The number of keys up to one, which is its place.
Place(num, k) == Cardinality({j \in DOMAIN num : num[j] <= num[k]})

LEMMA PlaceBounds ==
  ASSUME NEW K, IsFiniteSet(K), NEW num \in [K -> Int], NEW k \in K
  PROVE  Place(num, k) \in 1 .. Cardinality(K)
<1> DEFINE B == {j \in K : num[j] <= num[k]}
<1>1. B \subseteq K /\ k \in B /\ Place(num, k) = Cardinality(B)
  BY DEF Place
<1> HIDE DEF B
<1>2. IsFiniteSet(B) /\ Cardinality(B) <= Cardinality(K)
  BY <1>1, FS_Subset
<1>3. Cardinality(B) \in Nat /\ Cardinality(K) \in Nat /\ Cardinality(B) # 0
  BY <1>1, <1>2, FS_CardinalityType, FS_EmptySet
<1> QED
  BY <1>1, <1>2, <1>3

LEMMA PlaceGrows ==
  ASSUME NEW K, IsFiniteSet(K), NEW num \in [K -> Int], NEW i \in K, NEW j \in K,
         num[i] < num[j]
  PROVE  Place(num, i) < Place(num, j)
<1> DEFINE A == {x \in K : num[x] <= num[i]}
           B == {x \in K : num[x] <= num[j]}
<1>1. Place(num, i) = Cardinality(A) /\ Place(num, j) = Cardinality(B) /\ B \subseteq K
  BY DEF Place
<1>2. A \subseteq B /\ j \in B /\ j \notin A
  OBVIOUS
<1> HIDE DEF A, B
<1>3. IsFiniteSet(B) /\ A # B
  BY <1>1, <1>2, FS_Subset
<1>4. Cardinality(A) < Cardinality(B)
  BY <1>2, <1>3, FS_Subset, FS_CardinalityType
<1> QED
  BY <1>1, <1>4

LEMMA PlacesTaken ==
  ASSUME NEW K, IsFiniteSet(K), NEW num \in [K -> Int],
         \A i, j \in K : num[i] = num[j] => i = j
  PROVE  /\ \A i, j \in K : Place(num, i) = Place(num, j) => i = j
         /\ \A p \in 1 .. Cardinality(K) : \E k \in K : Place(num, k) = p
<1> DEFINE N == Cardinality(K)
           f == [k \in K |-> Place(num, k)]
           I == {f[k] : k \in K}
<1>1. N \in Nat /\ f \in [K -> 1 .. N] /\ I \subseteq 1 .. N
  BY PlaceBounds, FS_CardinalityType
<1>2. ASSUME NEW i \in K, NEW j \in K, i # j PROVE Place(num, i) # Place(num, j)
  <2>1. num[i] \in Int /\ num[j] \in Int /\ num[i] # num[j]
    BY <1>2
  <2>2. Place(num, i) \in Int /\ Place(num, j) \in Int
    BY <1>1
  <2>3. CASE num[i] < num[j]
    BY <2>2, <2>3, PlaceGrows
  <2>4. CASE num[j] < num[i]
    BY <2>2, <2>4, PlaceGrows
  <2> QED
    BY <2>1, <2>3, <2>4
<1>3. f \in Bijection(K, I)
  BY <1>2 DEF Bijection, Injection, Surjection, IsInjective
<1>4. ExistsBijection(K, I)
  BY <1>3 DEF ExistsBijection
<1> HIDE DEF f, I
<1>5. IsFiniteSet(I) /\ Cardinality(I) = N
  BY <1>4, FS_Bijection
<1>6. IsFiniteSet(1 .. N) /\ Cardinality(1 .. N) = N
  BY <1>1, FS_Interval
<1>7. I = 1 .. N
  BY <1>1, <1>5, <1>6, FS_Subset
<1>8. \A p \in 1 .. N : \E k \in K : Place(num, k) = p
  BY <1>7 DEF I, f
<1> QED
  BY <1>2, <1>8

LEMMA AscendingKeys ==
  ASSUME NEW K, IsFiniteSet(K), NEW num \in [K -> Int],
         \A i, j \in K : num[i] = num[j] => i = j
  PROVE  /\ Ascending(num) \in Seq(K)
         /\ \A i, j \in DOMAIN Ascending(num) :
              Ascending(num)[i] = Ascending(num)[j] => i = j
         /\ \A k \in K : \E p \in DOMAIN Ascending(num) : Ascending(num)[p] = k
<1> DEFINE N == Cardinality(K)
           at(p) == CHOOSE k \in DOMAIN num : Place(num, k) = p
           s == [p \in 1 .. N |-> at(p)]
<1>1. Ascending(num) = s
  <2>1. Ascending(num) = [p \in 1 .. Cardinality(DOMAIN num) |-> at(p)]
    BY DEF Ascending, Place
  <2>2. DOMAIN num = K
    OBVIOUS
  <2> HIDE DEF at
  <2> QED
    BY <2>1, <2>2
<1>2. N \in Nat
  BY FS_CardinalityType
<1>3. \A p \in 1 .. N : at(p) \in K /\ Place(num, at(p)) = p
  <2> SUFFICES ASSUME NEW p \in 1 .. N PROVE at(p) \in K /\ Place(num, at(p)) = p
    OBVIOUS
  <2>1. \E k \in DOMAIN num : Place(num, k) = p
    BY PlacesTaken
  <2>2. at(p) \in DOMAIN num /\ Place(num, at(p)) = p
    BY <2>1
  <2> QED
    BY <2>2
<1> HIDE DEF at
<1>4. \A k \in K : Place(num, k) \in 1 .. N
  BY PlaceBounds
<1>5. s \in [1 .. N -> K] /\ DOMAIN s = 1 .. N /\ \A p \in 1 .. N : s[p] = at(p)
  BY <1>3
<1> HIDE DEF s, N
<1>6. ASSUME NEW k \in K PROVE s[Place(num, k)] = k
  <2>1. Place(num, k) \in 1 .. N
    BY <1>4
  <2>2. at(Place(num, k)) \in K /\ Place(num, at(Place(num, k))) = Place(num, k)
    BY <1>3, <2>1
  <2>3. at(Place(num, k)) = k
    BY <2>2, PlacesTaken
  <2> QED
    BY <1>5, <2>1, <2>3
<1>7. s \in Seq(K)
  BY <1>2, <1>5
<1>8. \A i, j \in 1 .. N : s[i] = s[j] => i = j
  BY <1>3, <1>5
<1> QED
  BY <1>1, <1>4, <1>5, <1>6, <1>7, <1>8

-----------------------------------------------------------------------------
(* Queues.                                                                 *)

\* At most one mutation of each highlight.
One(q) == \A i, j \in DOMAIN q : q[i].id = q[j].id => i = j

LEMMA QueueRange ==
  ASSUME NEW T, NEW q \in Seq(T)
  PROVE  /\ Range(q) \subseteq T
         /\ \A k \in DOMAIN q : q[k] \in Range(q)
         /\ \A m \in Range(q) : \E k \in DOMAIN q : q[k] = m
<1>1. \A k \in DOMAIN q : q[k] \in T
  OBVIOUS
<1>2. Range(q) = {q[k] : k \in DOMAIN q}
  BY DEF Range
<1>3. \A k \in DOMAIN q : q[k] \in Range(q)
  BY <1>2
<1>4. ASSUME NEW m \in Range(q) PROVE \E k \in DOMAIN q : q[k] = m
  BY <1>2
<1>5. Range(q) \subseteq T
  BY <1>1, <1>4
<1> QED
  BY <1>3, <1>4, <1>5

\* A filter keeps the members at the places it is given.
LEMMA OnlyThose ==
  ASSUME NEW T, NEW q \in Seq(T), NEW places, places \subseteq DOMAIN q
  PROVE  /\ Only(q, places) \in Seq(T)
         /\ Range(Only(q, places)) = {q[k] : k \in places}
         /\ \A i, j \in DOMAIN Only(q, places) :
              i # j => \E k, l \in places : /\ k # l
                                            /\ Only(q, places)[i] = q[k]
                                            /\ Only(q, places)[j] = q[l]
<1> DEFINE num == [k \in places |-> k]
           left == Ascending(num)
           only == Only(q, places)
<1>1. DOMAIN q = 1 .. Len(q) /\ Len(q) \in Nat /\ \A k \in DOMAIN q : q[k] \in T
  OBVIOUS
<1>2. IsFiniteSet(places) /\ places \subseteq Int
  <2>1. IsFiniteSet(1 .. Len(q))
    BY <1>1, FS_Interval
  <2> QED
    BY <1>1, <2>1, FS_Subset
<1>3. num \in [places -> Int] /\ \A i, j \in places : num[i] = num[j] => i = j
  BY <1>2
<1>4. only = [p \in DOMAIN left |-> q[left[p]]]
  BY DEF Only
<1> HIDE DEF num
<1>5. /\ left \in Seq(places)
      /\ \A i, j \in DOMAIN left : left[i] = left[j] => i = j
      /\ \A k \in places : \E p \in DOMAIN left : left[p] = k
  BY <1>2, <1>3, AscendingKeys
<1> HIDE DEF left
<1>6. DOMAIN left = 1 .. Len(left) /\ Len(left) \in Nat /\ \A p \in DOMAIN left : left[p] \in places
  BY <1>5
<1>7. \A p \in DOMAIN left : q[left[p]] \in T
  BY <1>1, <1>6
<1>8. only \in [1 .. Len(left) -> T]
  BY <1>4, <1>6, <1>7
<1>9. DOMAIN only = DOMAIN left /\ \A p \in DOMAIN left : only[p] = q[left[p]]
  BY <1>4
<1> HIDE DEF only
<1>10. only \in Seq(T)
  BY <1>6, <1>8
<1>11. Range(only) = {q[k] : k \in places}
  BY <1>5, <1>6, <1>9 DEF Range
<1>12. \A i, j \in DOMAIN only :
         i # j => \E k, l \in places : k # l /\ only[i] = q[k] /\ only[j] = q[l]
  BY <1>5, <1>6, <1>9
<1> QED
  BY <1>10, <1>11, <1>12 DEF only

\* Coalescing takes out the mutations of one highlight.
LEMMA OthersRest ==
  ASSUME NEW q \in Seq(Mutation), NEW id
  PROVE  /\ Others(q, id) \in Seq(Mutation)
         /\ Range(Others(q, id)) = {m \in Range(q) : m.id # id}
         /\ One(q) => One(Others(q, id))
<1> DEFINE places == {k \in DOMAIN q : q[k].id # id}
<1>1. Others(q, id) = Only(q, places) /\ places \subseteq DOMAIN q
  BY DEF Others
<1>2. {q[k] : k \in places} = {m \in Range(q) : m.id # id}
  BY QueueRange DEF Range
<1> HIDE DEF places
<1>3. /\ Others(q, id) \in Seq(Mutation)
      /\ Range(Others(q, id)) = {q[k] : k \in places}
      /\ \A i, j \in DOMAIN Others(q, id) :
           i # j => \E k, l \in places : /\ k # l
                                         /\ Others(q, id)[i] = q[k]
                                         /\ Others(q, id)[j] = q[l]
  BY <1>1, OnlyThose
<1>4. One(q) => One(Others(q, id))
  BY <1>1, <1>3 DEF One
<1> QED
  BY <1>2, <1>3, <1>4

\* An answer takes out its own mutation.
Without(q, m) == Only(q, {k \in DOMAIN q : q[k] # m})

LEMMA WithoutRest ==
  ASSUME NEW q \in Seq(Mutation), NEW h
  PROVE  /\ Without(q, h) \in Seq(Mutation)
         /\ Range(Without(q, h)) = Range(q) \ {h}
         /\ One(q) => One(Without(q, h))
<1> DEFINE places == {k \in DOMAIN q : q[k] # h}
<1>1. Without(q, h) = Only(q, places) /\ places \subseteq DOMAIN q
  BY DEF Without
<1>2. {q[k] : k \in places} = Range(q) \ {h}
  BY DEF Range
<1> HIDE DEF places
<1>3. /\ Without(q, h) \in Seq(Mutation)
      /\ Range(Without(q, h)) = {q[k] : k \in places}
      /\ \A i, j \in DOMAIN Without(q, h) :
           i # j => \E k, l \in places : /\ k # l
                                         /\ Without(q, h)[i] = q[k]
                                         /\ Without(q, h)[j] = q[l]
  BY <1>1, OnlyThose
<1>4. One(q) => One(Without(q, h))
  BY <1>1, <1>3 DEF One
<1> QED
  BY <1>2, <1>3, <1>4

LEMMA AppendMutation ==
  ASSUME NEW T, NEW q \in Seq(T), NEW m \in T
  PROVE  /\ Append(q, m) \in Seq(T)
         /\ Range(Append(q, m)) = Range(q) \cup {m}
         /\ One(q) /\ (\A o \in Range(q) : o.id # m.id) => One(Append(q, m))
<1> DEFINE a == Append(q, m)
<1>1. /\ a \in Seq(T) /\ Len(q) \in Nat /\ DOMAIN q = 1 .. Len(q)
      /\ DOMAIN a = 1 .. (Len(q) + 1)
      /\ \A k \in 1 .. Len(q) : a[k] = q[k]
      /\ a[Len(q) + 1] = m
  OBVIOUS
<1> HIDE DEF a
<1>2. Range(a) = Range(q) \cup {m}
  BY <1>1 DEF Range
<1>3. One(q) /\ (\A o \in Range(q) : o.id # m.id) => One(a)
  BY <1>1 DEF Range, One
<1> QED
  BY <1>1, <1>2, <1>3 DEF a

LEMMA JoinQueues ==
  ASSUME NEW T, NEW p \in Seq(T), NEW q \in Seq(T)
  PROVE  /\ p \o q \in Seq(T)
         /\ Range(p \o q) = Range(p) \cup Range(q)
         /\ One(p) /\ One(q) /\ (\A a \in Range(p), b \in Range(q) : a.id # b.id)
              => One(p \o q)
<1> DEFINE a == p \o q
<1>1. /\ a \in Seq(T) /\ Len(p) \in Nat /\ DOMAIN p = 1 .. Len(p)
      /\ Len(q) \in Nat /\ DOMAIN q = 1 .. Len(q)
      /\ DOMAIN a = 1 .. (Len(p) + Len(q))
      /\ \A k \in 1 .. (Len(p) + Len(q)) :
           a[k] = IF k <= Len(p) THEN p[k] ELSE q[k - Len(p)]
  OBVIOUS
<1>2. \A k \in 1 .. Len(q) : a[k + Len(p)] = q[k] /\ k + Len(p) \in DOMAIN a
  BY <1>1
<1>3. \A k \in 1 .. Len(p) : a[k] = p[k] /\ k \in DOMAIN a
  BY <1>1
<1>4. \A k \in DOMAIN a : \/ k \in 1 .. Len(p)
                          \/ k - Len(p) \in 1 .. Len(q) /\ a[k] = q[k - Len(p)] /\ k \in Int
  BY <1>1
<1> HIDE DEF a
<1>5. Range(a) = Range(p) \cup Range(q)
  <2>1. Range(a) \subseteq Range(p) \cup Range(q)
    BY <1>1, <1>3, <1>4 DEF Range
  <2>2. Range(p) \subseteq Range(a)
    BY <1>1, <1>3 DEF Range
  <2>3. Range(q) \subseteq Range(a)
    BY <1>1, <1>2 DEF Range
  <2> QED
    BY <2>1, <2>2, <2>3
<1>6. ASSUME One(p), One(q), \A x \in Range(p), y \in Range(q) : x.id # y.id
      PROVE  One(a)
  <2> SUFFICES ASSUME NEW i \in DOMAIN a, NEW j \in DOMAIN a, a[i].id = a[j].id PROVE i = j
    BY DEF One
  <2>1. \A k \in 1 .. Len(p), l \in 1 .. Len(q) : p[k].id # q[l].id
    BY <1>1, <1>6 DEF Range
  <2>2. CASE i \in 1 .. Len(p) /\ j \in 1 .. Len(p)
    BY <1>1, <1>3, <1>6, <2>2 DEF One
  <2>3. CASE i \in 1 .. Len(p) /\ j \notin 1 .. Len(p)
    BY <1>3, <1>4, <2>1, <2>3
  <2>4. CASE i \notin 1 .. Len(p) /\ j \in 1 .. Len(p)
    BY <1>3, <1>4, <2>1, <2>4
  <2>5. CASE i \notin 1 .. Len(p) /\ j \notin 1 .. Len(p)
    <3>1. i - Len(p) = j - Len(p) /\ i \in Int /\ j \in Int
      BY <1>1, <1>4, <1>6, <2>5 DEF One
    <3> QED
      BY <1>1, <3>1
  <2> QED
    BY <2>2, <2>3, <2>4, <2>5
<1> QED
  BY <1>1, <1>5, <1>6 DEF a

LEMMA JoinOne ==
  ASSUME NEW T, NEW q \in Seq(T), NEW m \in T
  PROVE  q \o <<m>> = Append(q, m) /\ Append(q, m) \in Seq(T)
OBVIOUS

LEMMA HeadAndTail ==
  ASSUME NEW T, NEW q \in Seq(T), q # <<>>
  PROVE  /\ Head(q) \in T /\ Head(q) \in Range(q) /\ Head(q) = q[1]
         /\ Tail(q) \in Seq(T) /\ Range(Tail(q)) \subseteq Range(q)
         /\ Range(q) = {Head(q)} \cup Range(Tail(q))
<1>1. /\ Len(q) \in Nat /\ Len(q) > 0 /\ DOMAIN q = 1 .. Len(q)
      /\ Head(q) = q[1] /\ Tail(q) \in Seq(T)
      /\ DOMAIN Tail(q) = 1 .. (Len(q) - 1)
      /\ \A k \in 1 .. (Len(q) - 1) : Tail(q)[k] = q[k + 1]
  OBVIOUS
<1>2. 1 \in DOMAIN q /\ q[1] \in T
  BY <1>1
<1>3. \A k \in 1 .. Len(q) : k = 1 \/ (k - 1 \in 1 .. (Len(q) - 1) /\ Tail(q)[k - 1] = q[k])
  BY <1>1
<1>4. Range(Tail(q)) \subseteq Range(q)
  BY <1>1 DEF Range
<1>5. Range(q) \subseteq {Head(q)} \cup Range(Tail(q))
  <2> SUFFICES ASSUME NEW k \in 1 .. Len(q), k # 1 PROVE q[k] \in Range(Tail(q))
    BY <1>1, <1>2 DEF Range
  <2>1. k - 1 \in DOMAIN Tail(q) /\ Tail(q)[k - 1] = q[k]
    BY <1>1, <1>3
  <2> QED
    BY <2>1 DEF Range
<1>6. Head(q) \in Range(q)
  BY <1>1, <1>2 DEF Range
<1> QED
  BY <1>1, <1>2, <1>4, <1>5, <1>6

\* The stored queue, oldest edit first.
LEMMA StoredQueue ==
  ASSUME loaded \in Store, NEW kept, kept \subseteq Ids,
         \A i \in kept : loaded.queue[i].n # 0,
         \A i, j \in kept : loaded.queue[i].n = loaded.queue[j].n => i = j
  PROVE  /\ Stored(kept) \in Seq(Mutation)
         /\ Range(Stored(kept)) = {MutationOf(i, loaded.queue[i]) : i \in kept}
         /\ One(Stored(kept))
<1> DEFINE num == [i \in kept |-> loaded.queue[i].n]
           order == Ascending(num)
           q == Stored(kept)
           mut(i) == MutationOf(i, loaded.queue[i])
<1>1. \A i \in Ids : loaded.queue[i] \in Entry /\ loaded.queue[i].n \in 0 .. MaxEdits
                     /\ loaded.queue[i].gone \in BOOLEAN
  BY DEF Store, Entry
<1>2. IsFiniteSet(kept)
  BY BoundsAssumption, FS_Subset
<1>3. num \in [kept -> Int] /\ \A i, j \in kept : num[i] = num[j] => i = j
  BY <1>1
<1>4. \A i \in kept : mut(i) \in Mutation /\ mut(i).id = i
  <2> SUFFICES ASSUME NEW i \in kept PROVE mut(i) \in Mutation /\ mut(i).id = i
    OBVIOUS
  <2>1. loaded.queue[i].n \in 1 .. MaxEdits /\ loaded.queue[i].gone \in BOOLEAN /\ i \in Ids
    BY <1>1, BoundsAssumption
  <2> QED
    BY <2>1 DEF MutationOf, Mutation
<1>5. q = [k \in DOMAIN order |-> mut(order[k])]
  BY DEF Stored
<1> HIDE DEF num, mut
<1>6. /\ order \in Seq(kept)
      /\ \A i, j \in DOMAIN order : order[i] = order[j] => i = j
      /\ \A k \in kept : \E p \in DOMAIN order : order[p] = k
  BY <1>2, <1>3, AscendingKeys
<1> HIDE DEF order
<1>7. DOMAIN order = 1 .. Len(order) /\ Len(order) \in Nat /\ \A p \in DOMAIN order : order[p] \in kept
  BY <1>6
<1>8. q \in [1 .. Len(order) -> Mutation]
  BY <1>4, <1>5, <1>7
<1>9. DOMAIN q = DOMAIN order /\ \A p \in DOMAIN order : q[p] = mut(order[p])
  BY <1>5
<1> HIDE DEF q
<1>10. q \in Seq(Mutation)
  BY <1>7, <1>8
<1>11. Range(q) = {mut(i) : i \in kept}
  BY <1>6, <1>7, <1>9 DEF Range
<1>12. One(q)
  BY <1>4, <1>6, <1>7, <1>9 DEF One
<1> QED
  BY <1>10, <1>11, <1>12 DEF q, mut

-----------------------------------------------------------------------------
(* The edits there are.                                                    *)

\* The edits a table or a list names.
In(rows) == {MutationOf(i, rows[i]) : i \in {j \in Ids : rows[j].n # 0}}

\* The edits a write names.
WriteOf(w) ==
  IF w.op \in {"queue", "row"} THEN {w.entry}
  ELSE IF w.op = "replace" THEN In(w.rows) ELSE {}

Stores(writes) == UNION {WriteOf(w) : w \in Range(writes)}

Active == {"token", "sent", "answered"}

Heads == IF flush.phase \in Active THEN {flush.head} ELSE {}

\* Every edit that is anywhere.
Known ==
  Range(pending) \cup strays \cup Heads \cup Stores(chain)
  \cup In(snapshot) \cup In(server) \cup In(list.rows)
  \cup In(disk.rows) \cup In(disk.queue) \cup In(loaded.rows) \cup In(loaded.queue)

\* None is later than the last edit of its highlight, which it is if it has
\* that number.
KnownWell ==
  \A m \in Known : /\ 0 < m.n /\ m.n <= wish[m.id].n
                   /\ m.n = wish[m.id].n => m.gone = wish[m.id].gone

\* The number tells the edit.
OneEdit == \A a, b \in Known : a.n = b.n => a = b

WishWell == \A i \in Ids : wish[i].n <= edits

GInv == TypeOK /\ KnownWell /\ OneEdit /\ WishWell /\ OnePerHighlight

-----------------------------------------------------------------------------
(* Lemmas about entries and writes.                                        *)

LEMMA EntryTyped ==
  ASSUME NEW m \in Mutation
  PROVE  /\ EntryOf(m) \in Entry /\ EntryOf(m).n = m.n /\ EntryOf(m).gone = m.gone
         /\ MutationOf(m.id, EntryOf(m)) = m
         /\ m.id \in Ids /\ m.n \in 1 .. MaxEdits /\ m.gone \in BOOLEAN /\ m.n > 0
         /\ Row(EntryOf(m)) = IF m.gone THEN 0 ELSE m.n
<1>1. /\ m.id \in Ids /\ m.n \in 1 .. MaxEdits /\ m.gone \in BOOLEAN
      /\ m = [id |-> m.id, n |-> m.n, gone |-> m.gone]
  BY DEF Mutation
<1>2. /\ EntryOf(m).n = m.n /\ EntryOf(m).gone = m.gone
  BY DEF EntryOf
<1>3. EntryOf(m) \in Entry
  BY <1>1, BoundsAssumption DEF EntryOf, Entry
<1>4. MutationOf(m.id, EntryOf(m)) = m
  BY <1>1, <1>2 DEF MutationOf
<1> QED
  BY <1>1, <1>2, <1>3, <1>4 DEF Row

LEMMA NoEntryTyped ==
  /\ NoEntry \in Entry /\ NoRows \in [Ids -> Entry] /\ NoStore \in Store
  /\ \A i \in Ids : NoRows[i] = NoEntry
  /\ NoEntry.n = 0 /\ Row(NoEntry) = 0
  /\ In(NoRows) = {}
<1>1. NoEntry \in Entry /\ NoEntry.n = 0 /\ Row(NoEntry) = 0
  BY BoundsAssumption DEF NoEntry, Entry, Row
<1>2. NoRows \in [Ids -> Entry] /\ \A i \in Ids : NoRows[i] = NoEntry
  BY <1>1 DEF NoRows
<1> QED
  BY <1>1, <1>2 DEF NoStore, Store, In

LEMMA InTyped ==
  ASSUME NEW rows \in [Ids -> Entry]
  PROVE  /\ In(rows) \subseteq Mutation
         /\ \A i \in Ids : rows[i].n # 0 =>
              \E m \in In(rows) : m.id = i /\ m.n = rows[i].n /\ m.gone = rows[i].gone
         /\ \A m \in In(rows) : rows[m.id] = EntryOf(m)
<1>1. ASSUME NEW i \in Ids, rows[i].n # 0
      PROVE  /\ MutationOf(i, rows[i]) \in Mutation
             /\ MutationOf(i, rows[i]).id = i /\ MutationOf(i, rows[i]).n = rows[i].n
             /\ MutationOf(i, rows[i]).gone = rows[i].gone
             /\ rows[i] = EntryOf(MutationOf(i, rows[i]))
  <2>1. rows[i] \in Entry
    OBVIOUS
  <2>2. rows[i].n \in 1 .. MaxEdits /\ rows[i].gone \in BOOLEAN
        /\ rows[i] = [n |-> rows[i].n, gone |-> rows[i].gone]
    BY <1>1, <2>1, BoundsAssumption DEF Entry
  <2> QED
    BY <2>2 DEF MutationOf, Mutation, EntryOf
<1> QED
  BY <1>1 DEF In

\* A table with one entry replaced names no other edit than that one's.
LEMMA InExcept ==
  ASSUME NEW rows \in [Ids -> Entry], NEW i \in Ids, NEW e \in Entry
  PROVE  /\ [rows EXCEPT ![i] = e] \in [Ids -> Entry]
         /\ In([rows EXCEPT ![i] = e]) \subseteq
              In(rows) \cup (IF e.n = 0 THEN {} ELSE {MutationOf(i, e)})
<1> DEFINE new == [rows EXCEPT ![i] = e]
<1>1. new \in [Ids -> Entry] /\ new[i] = e /\ \A j \in Ids : j # i => new[j] = rows[j]
  OBVIOUS
<1> HIDE DEF new
<1>2. In(new) \subseteq In(rows) \cup (IF e.n = 0 THEN {} ELSE {MutationOf(i, e)})
  BY <1>1 DEF In
<1> QED
  BY <1>1, <1>2 DEF new

\* The four kinds of writes.
LEMMA WritesTyped ==
  /\ \A m \in Mutation :
       /\ [op |-> "queue", entry |-> m] \in Write
       /\ [op |-> "row", entry |-> m] \in Write
       /\ WriteOf([op |-> "queue", entry |-> m]) = {m}
       /\ WriteOf([op |-> "row", entry |-> m]) = {m}
  /\ \A i \in Ids : /\ [op |-> "unqueue", id |-> i] \in Write
                    /\ WriteOf([op |-> "unqueue", id |-> i]) = {}
  /\ \A r \in [Ids -> Entry] : /\ [op |-> "replace", rows |-> r] \in Write
                               /\ WriteOf([op |-> "replace", rows |-> r]) = In(r)
<1>1. \A m \in Mutation :
       /\ [op |-> "queue", entry |-> m] \in Write
       /\ [op |-> "row", entry |-> m] \in Write
  BY DEF Write
<1>2. \A i \in Ids : [op |-> "unqueue", id |-> i] \in Write
  BY DEF Write
<1>3. \A r \in [Ids -> Entry] : [op |-> "replace", rows |-> r] \in Write
  BY DEF Write
<1> QED
  BY <1>1, <1>2, <1>3 DEF WriteOf

LEMMA WriteParts ==
  ASSUME NEW w \in Write
  PROVE  /\ w.op \in {"queue", "row", "unqueue", "replace"}
         /\ w.op \in {"queue", "row"} => w.entry \in Mutation
         /\ w.op = "unqueue" => w.id \in Ids
         /\ w.op = "replace" => w.rows \in [Ids -> Entry]
         /\ WriteOf(w) \subseteq Mutation
<1>1. /\ w.op \in {"queue", "row", "unqueue", "replace"}
      /\ w.op \in {"queue", "row"} => w.entry \in Mutation
      /\ w.op = "unqueue" => w.id \in Ids
      /\ w.op = "replace" => w.rows \in [Ids -> Entry]
  BY DEF Write
<1> QED
  BY <1>1, InTyped DEF WriteOf

LEMMA KnownTyped ==
  ASSUME TypeOK
  PROVE  Known \subseteq Mutation
<1>1. Range(pending) \subseteq Mutation /\ strays \subseteq Mutation
  BY QueueRange DEF TypeOK
<1>2. Heads \subseteq Mutation
  <2>1. CASE flush.phase \in Active
    BY <2>1 DEF TypeOK, Heads, Active, Idle, Claimed
  <2>2. CASE flush.phase \notin Active
    BY <2>2 DEF Heads
  <2> QED
    BY <2>1, <2>2
<1>3. Stores(chain) \subseteq Mutation
  <2>1. Range(chain) \subseteq Write
    BY QueueRange DEF TypeOK
  <2> QED
    BY <2>1, WriteParts DEF Stores
<1>4. /\ In(snapshot) \subseteq Mutation /\ In(server) \subseteq Mutation
      /\ In(list.rows) \subseteq Mutation
  BY InTyped DEF TypeOK
<1>5. /\ In(disk.rows) \subseteq Mutation /\ In(disk.queue) \subseteq Mutation
      /\ In(loaded.rows) \subseteq Mutation /\ In(loaded.queue) \subseteq Mutation
  BY InTyped DEF TypeOK, Store
<1> QED
  BY <1>1, <1>2, <1>3, <1>4, <1>5 DEF Known

\* Steps that only move edits about.
LEMMA KnownKept ==
  ASSUME GInv, Known' \subseteq Known, UNCHANGED <<wish, edits>>
  PROVE  KnownWell' /\ OneEdit' /\ WishWell'
BY DEF GInv, KnownWell, OneEdit, WishWell

\* A new edit is later than all others.
LEMMA KnownGrows ==
  ASSUME GInv, NEW id \in Ids, NEW g \in BOOLEAN, edits' = edits + 1, edits < MaxEdits,
         wish' = [wish EXCEPT ![id] = [n |-> edits + 1, gone |-> g]],
         Known' \subseteq Known \cup {[id |-> id, n |-> edits + 1, gone |-> g]}
  PROVE  KnownWell' /\ OneEdit' /\ WishWell'
<1> DEFINE new == [id |-> id, n |-> edits + 1, gone |-> g]
<1>1. /\ wish'[id].n = edits + 1 /\ wish'[id].gone = g
      /\ \A i \in Ids : i # id => wish'[i] = wish[i]
  BY DEF GInv, TypeOK
<1>2. edits \in Nat /\ edits' = edits + 1 /\ \A i \in Ids : wish[i].n \in Nat /\ wish[i].n <= edits
  BY BoundsAssumption DEF GInv, TypeOK, Entry, WishWell
<1>3. \A m \in Known : m.id \in Ids /\ m.n \in Nat /\ m.n > 0 /\ m.n <= edits
                       /\ m.n <= wish[m.id].n
                       /\ (m.n = wish[m.id].n => m.gone = wish[m.id].gone)
  <2>1. Known \subseteq Mutation
    BY KnownTyped DEF GInv
  <2>2. \A m \in Known : m.id \in Ids /\ m.n \in Nat
    BY <2>1, EntryTyped
  <2> QED
    BY <1>2, <2>2 DEF GInv, KnownWell
<1>4. new.id = id /\ new.n = edits + 1 /\ new.gone = g
  OBVIOUS
<1> HIDE DEF new
<1>5. Known' \subseteq Known \cup {new}
  BY DEF new
<1>6. \A m \in Known' : m \in Known \/ m = new
  BY <1>5
<1>7. KnownWell'
  <2> SUFFICES ASSUME NEW m \in Known'
               PROVE  /\ 0 < m.n /\ m.n <= wish'[m.id].n
                      /\ m.n = wish'[m.id].n => m.gone = wish'[m.id].gone
    BY DEF KnownWell
  <2>1. CASE m = new
    BY <1>1, <1>2, <1>4, <2>1
  <2>2. CASE m \in Known /\ m.id = id
    BY <1>1, <1>2, <1>3, <2>2
  <2>3. CASE m \in Known /\ m.id # id
    BY <1>1, <1>3, <2>3
  <2> QED
    BY <1>6, <2>1, <2>2, <2>3
<1>8. OneEdit'
  <2>1. \A a, b \in Known : a.n = b.n => a = b
    BY DEF GInv, OneEdit
  <2>2. \A a \in Known : a.n # new.n
    BY <1>2, <1>3, <1>4
  <2> QED
    BY <1>6, <2>1, <2>2 DEF OneEdit
<1>9. WishWell'
  BY <1>1, <1>2 DEF WishWell
<1> QED
  BY <1>7, <1>8, <1>9

-----------------------------------------------------------------------------
(* Every step keeps the types, and the edits tell apart.                    *)

Flushes == {Idle, Claimed} \cup
             [phase : {"token", "sent", "answered"}, head : Mutation,
              result : {"none", "ok", "drop"}]

Lists == [phase : {"idle", "drain", "asked", "answered"},
          fenced : BOOLEAN, fresh : BOOLEAN, rows : [Ids -> Entry]]

\* What a flush is in each phase.
LEMMA FlushParts ==
  ASSUME TypeOK
  PROVE  /\ flush.phase \in Active => /\ flush.head \in Mutation
                                      /\ flush.result \in {"none", "ok", "drop"}
                                      /\ Heads = {flush.head}
                                      /\ flush \in [phase : {"token", "sent", "answered"},
                                                    head : Mutation,
                                                    result : {"none", "ok", "drop"}]
         /\ flush.phase \notin Active => Heads = {} /\ flush \in {Idle, Claimed}
         /\ flush.phase \in {"idle", "claimed", "token", "sent", "answered"}
         /\ flush \in Flushes
         /\ Idle.phase = "idle" /\ Claimed.phase = "claimed"
<1>1. Idle.phase = "idle" /\ Claimed.phase = "claimed"
  BY DEF Idle, Claimed
<1>2. flush \in Flushes
  BY DEF TypeOK, Flushes
<1>3. CASE flush \in {Idle, Claimed}
  BY <1>1, <1>2, <1>3 DEF Heads, Active
<1>4. CASE flush \in [phase : {"token", "sent", "answered"}, head : Mutation,
                      result : {"none", "ok", "drop"}]
  BY <1>1, <1>2, <1>4 DEF Heads, Active
<1> QED
  BY <1>2, <1>3, <1>4 DEF Flushes

LEMMA StoresAppend ==
  ASSUME NEW writes \in Seq(Write), NEW w \in Write
  PROVE  /\ Append(writes, w) \in Seq(Write)
         /\ Stores(Append(writes, w)) = Stores(writes) \cup WriteOf(w)
BY AppendMutation DEF Stores

LEMMA StoresJoin ==
  ASSUME NEW p \in Seq(Write), NEW q \in Seq(Write)
  PROVE  p \o q \in Seq(Write) /\ Stores(p \o q) = Stores(p) \cup Stores(q)
BY JoinQueues DEF Stores

LEMMA StoresOne ==
  ASSUME NEW w \in Write
  PROVE  <<w>> \in Seq(Write) /\ Stores(<<w>>) = WriteOf(w)
<1>1. <<w>> \in Seq(Write) /\ Range(<<w>>) = {w}
  BY DEF Range
<1> QED
  BY <1>1 DEF Stores

LEMMA StoresTail ==
  ASSUME NEW writes \in Seq(Write), writes # <<>>
  PROVE  /\ Head(writes) \in Write /\ Tail(writes) \in Seq(Write)
         /\ Stores(Tail(writes)) \subseteq Stores(writes)
         /\ WriteOf(Head(writes)) \subseteq Stores(writes)
BY HeadAndTail DEF Stores

LEMMA EmptyQueue ==
  ASSUME NEW T
  PROVE  <<>> \in Seq(T) /\ Range(<<>>) = {} /\ One(<<>>) /\ Stores(<<>>) = {}
<1>1. DOMAIN <<>> = {} /\ <<>> \in Seq(T)
  OBVIOUS
<1>2. Range(<<>>) = {}
  BY <1>1 DEF Range
<1> QED
  BY <1>1, <1>2 DEF One, Stores

LEMMA TouchedTyped ==
  ASSUME TypeOK
  PROVE  /\ Touched \in Lists /\ Touched.rows = list.rows /\ Touched.phase = list.phase
         /\ Touched.fenced = list.fenced /\ Touched.fresh = FALSE
         /\ list \in Lists /\ list.rows \in [Ids -> Entry]
BY DEF TypeOK, Touched, Lists

\* Types of the variables a step may change, once and for all.
LEMMA TypesTogether ==
  ASSUME edits' \in 0 .. MaxEdits, wish' \in [Ids -> Entry], told' \subseteq 1 .. MaxEdits,
         snapshot' \in [Ids -> Entry], pending' \in Seq(Mutation), hydrated' \in BOOLEAN,
         loaded' \in Store, chain' \in Seq(Write), flush' \in Flushes, list' \in Lists,
         disk' \in Store, server' \in [Ids -> Entry], strays' \subseteq Mutation,
         crashes' \in 0 .. MaxCrashes, faults' \in 0 .. MaxFaults
  PROVE  TypeOK'
BY DEF TypeOK, Flushes, Lists

LEMMA EnqueueTyped ==
  ASSUME GInv, NEW m \in Mutation, Enqueue(m)
  PROVE  /\ pending' \in Seq(Mutation) /\ One(pending')
         /\ Range(pending') = {o \in Range(pending) : o.id # m.id} \cup {m}
         /\ chain' = Append(chain, [op |-> "queue", entry |-> m])
         /\ chain' \in Seq(Write) /\ Stores(chain') = Stores(chain) \cup {m}
         /\ flush' \in Flushes /\ (flush' = flush \/ (flush.phase = "idle" /\ flush' = Claimed))
         /\ Heads' = Heads
<1> DEFINE left == Others(pending, m.id)
<1>1. pending \in Seq(Mutation) /\ One(pending) /\ chain \in Seq(Write)
  BY DEF GInv, TypeOK, OnePerHighlight, One
<1>2. left \in Seq(Mutation) /\ Range(left) = {o \in Range(pending) : o.id # m.id} /\ One(left)
  BY <1>1, OthersRest
<1>3. pending' = Append(left, m) /\ chain' = Append(chain, [op |-> "queue", entry |-> m])
      /\ \E online \in BOOLEAN : Kick(online)
  BY DEF Enqueue
<1> HIDE DEF left
<1>4. pending' \in Seq(Mutation) /\ Range(pending') = Range(left) \cup {m} /\ One(pending')
  BY <1>2, <1>3, AppendMutation
<1>5. chain' \in Seq(Write) /\ Stores(chain') = Stores(chain) \cup {m}
  BY <1>1, <1>3, WritesTyped, StoresAppend
<1>6. flush' = flush \/ (flush.phase = "idle" /\ flush' = Claimed)
  BY <1>3 DEF Kick
<1>7. flush' \in Flushes /\ Heads' = Heads
  <2>1. TypeOK
    BY DEF GInv
  <2>2. flush \in Flushes
    BY <2>1, FlushParts
  <2>3. CASE flush' = flush
    BY <2>2, <2>3 DEF Heads
  <2>4. CASE flush.phase = "idle" /\ flush' = Claimed
    BY <2>4 DEF Heads, Active, Flushes, Claimed, Idle
  <2> QED
    BY <1>6, <2>3, <2>4
<1> QED
  BY <1>2, <1>3, <1>4, <1>5, <1>6, <1>7

LEMMA GUpsert ==
  ASSUME GInv, NEW id \in Ids, Upsert(id)
  PROVE  GInv'
<1> DEFINE m == [id |-> id, n |-> edits + 1, gone |-> FALSE]
<1>1. TypeOK
  BY DEF GInv
<1>2. edits < MaxEdits /\ edits' = edits + 1 /\ edits + 1 \in 1 .. MaxEdits
  BY <1>1, BoundsAssumption DEF Upsert, TypeOK
<1>3. m \in Mutation /\ Enqueue(m)
  BY <1>2 DEF Upsert, Mutation
<1>4. /\ wish' = [wish EXCEPT ![id] = [n |-> edits + 1, gone |-> FALSE]]
      /\ list' = Touched
      /\ UNCHANGED <<told, snapshot, hydrated, loaded, disk, server, strays, bounds>>
  BY <1>2 DEF Upsert
<1> HIDE DEF m
<1>5. /\ pending' \in Seq(Mutation) /\ One(pending')
      /\ Range(pending') = {o \in Range(pending) : o.id # m.id} \cup {m}
      /\ chain' \in Seq(Write) /\ Stores(chain') = Stores(chain) \cup {m}
      /\ flush' \in Flushes /\ Heads' = Heads
  BY <1>3, EnqueueTyped
<1>6. Touched \in Lists /\ Touched.rows = list.rows
  BY <1>1, TouchedTyped
<1>7. TypeOK'
  <2>1. [n |-> edits + 1, gone |-> FALSE] \in Entry
    BY <1>2 DEF Entry
  <2>2. wish' \in [Ids -> Entry]
    BY <1>1, <1>4, <2>1 DEF TypeOK
  <2> QED
    BY <1>1, <1>2, <1>4, <1>5, <1>6, <2>2, TypesTogether DEF TypeOK, bounds
<1>8. Known' \subseteq Known \cup {m}
  BY <1>4, <1>5, <1>6 DEF Known
<1>9. KnownWell' /\ OneEdit' /\ WishWell'
  BY <1>2, <1>4, <1>8, KnownGrows DEF m
<1> QED
  BY <1>5, <1>7, <1>9 DEF GInv, OnePerHighlight, One

LEMMA GDelete ==
  ASSUME GInv, NEW id \in Ids, Delete(id)
  PROVE  GInv'
<1> DEFINE m == [id |-> id, n |-> edits + 1, gone |-> TRUE]
<1>1. TypeOK
  BY DEF GInv
<1>2. edits < MaxEdits /\ edits' = edits + 1 /\ edits + 1 \in 1 .. MaxEdits
  BY <1>1, BoundsAssumption DEF Delete, TypeOK
<1>3. m \in Mutation
  BY <1>2 DEF Mutation
<1>4. /\ wish' = [wish EXCEPT ![id] = [n |-> edits + 1, gone |-> TRUE]]
      /\ list' = Touched
      /\ UNCHANGED <<told, snapshot, hydrated, loaded, disk, server, strays, bounds>>
  BY <1>2 DEF Delete
<1>5. \/ Enqueue(m)
      \/ /\ pending' = Others(pending, id)
         /\ chain' = Append(chain, [op |-> "unqueue", id |-> id])
         /\ UNCHANGED flush
  BY <1>2 DEF Delete
<1> HIDE DEF m
<1>6. /\ pending' \in Seq(Mutation) /\ One(pending')
      /\ Range(pending') \subseteq Range(pending) \cup {m}
      /\ chain' \in Seq(Write) /\ Stores(chain') \subseteq Stores(chain) \cup {m}
      /\ flush' \in Flushes /\ Heads' = Heads
  <2>1. CASE Enqueue(m)
    BY <1>3, <2>1, EnqueueTyped
  <2>2. CASE /\ pending' = Others(pending, id)
             /\ chain' = Append(chain, [op |-> "unqueue", id |-> id])
             /\ UNCHANGED flush
    <3>1. pending \in Seq(Mutation) /\ One(pending) /\ chain \in Seq(Write) /\ flush \in Flushes
      BY FlushParts DEF GInv, TypeOK, OnePerHighlight, One
    <3>2. pending' \in Seq(Mutation) /\ One(pending') /\ Range(pending') \subseteq Range(pending)
      BY <2>2, <3>1, OthersRest
    <3>3. chain' \in Seq(Write) /\ Stores(chain') = Stores(chain)
      BY <2>2, <3>1, WritesTyped, StoresAppend
    <3> QED
      BY <2>2, <3>1, <3>2, <3>3 DEF Heads
  <2> QED
    BY <1>5, <2>1, <2>2
<1>7. Touched \in Lists /\ Touched.rows = list.rows
  BY <1>1, TouchedTyped
<1>8. TypeOK'
  <2>1. [n |-> edits + 1, gone |-> TRUE] \in Entry
    BY <1>2 DEF Entry
  <2>2. wish' \in [Ids -> Entry]
    BY <1>1, <1>4, <2>1 DEF TypeOK
  <2> QED
    BY <1>1, <1>2, <1>4, <1>6, <1>7, <2>2, TypesTogether DEF TypeOK, bounds
<1>9. Known' \subseteq Known \cup {m}
  BY <1>4, <1>6, <1>7 DEF Known
<1>10. KnownWell' /\ OneEdit' /\ WishWell'
  BY <1>2, <1>4, <1>9, KnownGrows DEF m
<1> QED
  BY <1>6, <1>8, <1>10 DEF GInv, OnePerHighlight, One

\* A step that only moves edits about keeps the invariant.
LEMMA GMoved ==
  ASSUME GInv, TypeOK', One(pending'), Known' \subseteq Known, UNCHANGED <<wish, edits>>
  PROVE  GInv'
BY KnownKept DEF GInv, OnePerHighlight, One

\* A step of the flush alone, whose mutation stays or comes from the queue.
LEMMA GFlushMoved ==
  ASSUME GInv, flush' \in Flushes, Heads' \subseteq Heads \cup Range(pending),
         strays' \subseteq strays \cup Heads,
         UNCHANGED <<edits, wish, told, memory, chain, list, disk, server, bounds>>
  PROVE  GInv'
<1>1. TypeOK /\ One(pending)
  BY DEF GInv, OnePerHighlight, One
<1>2. Heads \subseteq Mutation
  BY <1>1, FlushParts
<1>3. TypeOK'
  <2>1. /\ edits' = edits /\ wish' = wish /\ told' = told /\ snapshot' = snapshot
        /\ pending' = pending /\ hydrated' = hydrated /\ loaded' = loaded /\ chain' = chain
        /\ list' = list /\ disk' = disk /\ server' = server /\ crashes' = crashes
        /\ faults' = faults
    BY DEF memory, bounds
  <2>2. strays' \subseteq Mutation
    BY <1>1, <1>2 DEF TypeOK
  <2> QED
    BY <1>1, <2>1, <2>2, TypesTogether DEF TypeOK, Lists
<1>4. Known' \subseteq Known
  BY DEF Known, memory
<1> QED
  BY <1>1, <1>3, <1>4, GMoved DEF memory

\* The next turn of the loop.
LEMMA NextHeadTyped ==
  ASSUME NEW q \in Seq(Mutation)
  PROVE  /\ NextHead(q) \in Flushes
         /\ q = <<>> => NextHead(q) = Idle
         /\ q # <<>> => /\ NextHead(q).phase = "token" /\ NextHead(q).head = Head(q)
                        /\ NextHead(q).result = "none"
                        /\ Head(q) \in Range(q) /\ Head(q) \in Mutation
<1>1. CASE q = <<>>
  BY <1>1 DEF NextHead, Flushes
<1>2. CASE q # <<>>
  <2>1. Head(q) \in Range(q) /\ Head(q) \in Mutation
    BY <1>2, HeadAndTail
  <2>2. NextHead(q) = [phase |-> "token", head |-> Head(q), result |-> "none"]
    BY <1>2 DEF NextHead
  <2> QED
    BY <1>2, <2>1, <2>2 DEF Flushes
<1> QED
  BY <1>1, <1>2

LEMMA GFlush ==
  ASSUME GInv, StartFlush \/ Drain \/ SendHead \/ NoToken \/ Refuse \/ Retry
  PROVE  GInv'
<1>1. TypeOK /\ pending \in Seq(Mutation)
  BY DEF GInv, TypeOK
<1>2. Idle \in Flushes /\ Claimed \in Flushes /\ Idle.phase \notin Active /\ Claimed.phase \notin Active
  BY DEF Flushes, Active, Idle, Claimed
<1>3. flush' = Idle \/ flush' = Claimed => flush' \in Flushes /\ Heads' = {}
  BY <1>2 DEF Heads
<1>4. CASE StartFlush
  BY <1>3, <1>4, GFlushMoved DEF StartFlush
<1>5. CASE Drain
  <2>1. flush' = NextHead(pending)
        /\ UNCHANGED <<edits, wish, told, memory, chain, list, disk, server, strays, bounds>>
    BY <1>5 DEF Drain
  <2>2. flush' \in Flushes /\ Heads' \subseteq Range(pending)
    BY <1>1, <1>2, <2>1, NextHeadTyped DEF Heads
  <2> QED
    BY <2>1, <2>2, GFlushMoved
<1>6. CASE SendHead
  <2>1. /\ flush.phase = "token" /\ flush' = [flush EXCEPT !.phase = "sent"]
        /\ UNCHANGED <<edits, wish, told, memory, chain, list, disk, server, strays, bounds>>
    BY <1>6 DEF SendHead
  <2>2. flush \in [phase : {"token", "sent", "answered"}, head : Mutation,
                   result : {"none", "ok", "drop"}]
    BY <1>1, <2>1, FlushParts DEF Active
  <2>3. flush' \in Flushes /\ Heads' = Heads
    BY <2>1, <2>2 DEF Flushes, Heads, Active
  <2> QED
    BY <2>1, <2>3, GFlushMoved
<1>7. CASE NoToken
  BY <1>3, <1>7, GFlushMoved DEF NoToken
<1>8. CASE Refuse
  <2>1. /\ flush.phase = "sent"
        /\ flush' = [flush EXCEPT !.phase = "answered", !.result = "drop"]
        /\ UNCHANGED <<edits, wish, told, memory, chain, list, disk, server, strays, bounds>>
    BY <1>8 DEF Refuse
  <2>2. flush \in [phase : {"token", "sent", "answered"}, head : Mutation,
                   result : {"none", "ok", "drop"}]
    BY <1>1, <2>1, FlushParts DEF Active
  <2>3. flush' \in Flushes /\ Heads' = Heads
    BY <2>1, <2>2 DEF Flushes, Heads, Active
  <2> QED
    BY <2>1, <2>3, GFlushMoved
<1>9. CASE Retry
  <2>1. /\ flush' = Idle /\ MayStray
        /\ UNCHANGED <<edits, wish, told, memory, chain, list, disk, server, bounds>>
    BY <1>9 DEF Retry
  <2>2. strays' \subseteq strays \cup Heads
    BY <2>1 DEF MayStray, Heads, Active
  <2> QED
    BY <1>3, <2>1, <2>2, GFlushMoved
<1> QED
  BY <1>4, <1>5, <1>6, <1>7, <1>8, <1>9

\* The server applies a mutation it was sent.
LEMMA GApplied ==
  ASSUME GInv, NEW m \in Known, Apply(m), flush' \in Flushes, Heads' \subseteq Heads,
         strays' \subseteq strays,
         UNCHANGED <<edits, wish, told, memory, chain, list, disk, bounds>>
  PROVE  GInv'
<1>1. TypeOK /\ One(pending) /\ m \in Mutation
  BY KnownTyped DEF GInv, OnePerHighlight, One
<1>2. server \in [Ids -> Entry] /\ server' = [server EXCEPT ![m.id] = EntryOf(m)]
  BY <1>1 DEF TypeOK, Apply
<1>3. m.id \in Ids /\ EntryOf(m) \in Entry /\ MutationOf(m.id, EntryOf(m)) = m
  BY <1>1, EntryTyped
<1>4. server' \in [Ids -> Entry] /\ In(server') \subseteq In(server) \cup {m}
  BY <1>2, <1>3, InExcept
<1>5. TypeOK'
  <2>1. /\ edits' = edits /\ wish' = wish /\ told' = told /\ snapshot' = snapshot
        /\ pending' = pending /\ hydrated' = hydrated /\ loaded' = loaded /\ chain' = chain
        /\ list' = list /\ disk' = disk /\ crashes' = crashes /\ faults' = faults
    BY DEF memory, bounds
  <2>2. strays' \subseteq Mutation
    BY <1>1 DEF TypeOK
  <2> QED
    BY <1>1, <1>4, <2>1, <2>2, TypesTogether DEF TypeOK, Lists
<1>6. Known' \subseteq Known
  BY <1>4 DEF Known, memory
<1> QED
  BY <1>1, <1>5, <1>6, GMoved DEF memory

LEMMA GServe ==
  ASSUME GInv, Serve \/ ServeStray
  PROVE  GInv'
<1>1. TypeOK /\ flush \in Flushes
  BY FlushParts DEF GInv
<1>2. CASE Serve
  <2>1. /\ flush.phase = "sent" /\ Apply(flush.head)
        /\ flush' = [flush EXCEPT !.phase = "answered", !.result = "ok"]
        /\ UNCHANGED <<edits, wish, told, memory, chain, list, disk, strays, bounds>>
    BY <1>2 DEF Serve
  <2>2. flush \in [phase : {"token", "sent", "answered"}, head : Mutation,
                   result : {"none", "ok", "drop"}]
    BY <1>1, <2>1, FlushParts DEF Active
  <2>3. flush' \in Flushes /\ Heads' = Heads /\ flush.head \in Heads
    BY <2>1, <2>2 DEF Flushes, Heads, Active
  <2>4. flush.head \in Known
    BY <2>3 DEF Known
  <2> QED
    BY <2>1, <2>3, <2>4, GApplied
<1>3. CASE ServeStray
  <2>1. PICK m \in strays :
          /\ Apply(m) /\ strays' = strays \ {m}
          /\ UNCHANGED <<edits, wish, told, memory, chain, flush, list, disk, bounds>>
    BY <1>3 DEF ServeStray
  <2>2. m \in Known
    BY DEF Known
  <2>3. flush' \in Flushes /\ Heads' = Heads
    BY <1>1, <2>1 DEF Heads
  <2> QED
    BY <2>1, <2>2, <2>3, GApplied
<1> QED
  BY <1>2, <1>3

LEMMA GAcknowledge ==
  ASSUME GInv, Acknowledge
  PROVE  GInv'
<1> DEFINE h == flush.head
           left == Without(pending, h)
           unqueue == <<[op |-> "unqueue", id |-> h.id]>>
           row == <<[op |-> "row", entry |-> h]>>
<1>1. TypeOK /\ pending \in Seq(Mutation) /\ One(pending) /\ chain \in Seq(Write)
  BY DEF GInv, TypeOK, OnePerHighlight, One
<1>2. /\ flush.phase = "answered" /\ pending' = left /\ flush' = NextHead(left)
      /\ list' = Touched
      /\ UNCHANGED <<edits, wish, hydrated, loaded, disk, server, strays, bounds>>
      /\ \/ /\ snapshot' = [snapshot EXCEPT ![h.id] = EntryOf(h)]
            /\ chain' = chain \o row \o unqueue
            /\ UNCHANGED told
         \/ /\ told' = told \cup {h.n}
            /\ chain' = chain \o unqueue
            /\ UNCHANGED snapshot
  BY DEF Acknowledge, Finish, Without
<1>3. h \in Mutation /\ Heads = {h} /\ h \in Known
  BY <1>1, <1>2, FlushParts DEF Active, Known
<1>4. h.id \in Ids /\ EntryOf(h) \in Entry /\ MutationOf(h.id, EntryOf(h)) = h /\ h.n \in 1 .. MaxEdits
  BY <1>3, EntryTyped
<1>5. unqueue \in Seq(Write) /\ Stores(unqueue) = {} /\ row \in Seq(Write) /\ Stores(row) = {h}
  BY <1>3, <1>4, WritesTyped, StoresOne
<1> HIDE DEF unqueue, row
<1>6. left \in Seq(Mutation) /\ Range(left) \subseteq Range(pending) /\ One(left)
  BY <1>1, WithoutRest
<1> HIDE DEF left, h
<1>7. flush' \in Flushes /\ Heads' \subseteq Range(left)
  BY <1>2, <1>6, NextHeadTyped DEF Heads, Active, Idle
<1>8. chain' \in Seq(Write) /\ Stores(chain') \subseteq Stores(chain) \cup {h}
  <2>1. CASE chain' = chain \o row \o unqueue
    <3>1. chain \o row \in Seq(Write) /\ Stores(chain \o row) = Stores(chain) \cup {h}
      BY <1>1, <1>5, StoresJoin
    <3> QED
      BY <1>5, <2>1, <3>1, StoresJoin
  <2>2. CASE chain' = chain \o unqueue
    BY <1>1, <1>5, <2>2, StoresJoin
  <2> QED
    BY <1>2, <2>1, <2>2
<1>9. snapshot' \in [Ids -> Entry] /\ In(snapshot') \subseteq In(snapshot) \cup {h}
  <2>1. snapshot \in [Ids -> Entry]
    BY <1>1 DEF TypeOK
  <2> QED
    BY <1>2, <1>4, <2>1, InExcept
<1>10. told' \subseteq 1 .. MaxEdits
  BY <1>1, <1>2, <1>4 DEF TypeOK
<1>11. Touched \in Lists /\ Touched.rows = list.rows
  BY <1>1, TouchedTyped
<1>12. TypeOK'
  BY <1>1, <1>2, <1>6, <1>7, <1>8, <1>9, <1>10, <1>11, TypesTogether DEF TypeOK, bounds
<1>13. Known' \subseteq Known
  BY <1>2, <1>3, <1>6, <1>7, <1>8, <1>9, <1>11 DEF Known
<1> QED
  BY <1>2, <1>6, <1>12, <1>13, GMoved

LEMMA GLists ==
  ASSUME GInv,
         LoadAnnotations \/ AskList \/ PrimeHighlights \/ AnswerList \/ DropList
  PROVE  GInv'
<1>1. TypeOK /\ One(pending) /\ list \in Lists /\ flush \in Flushes
  BY TouchedTyped, FlushParts DEF GInv, OnePerHighlight, One
<1>2. /\ edits' = edits /\ wish' = wish /\ told' = told /\ snapshot' = snapshot
      /\ pending' = pending /\ hydrated' = hydrated /\ loaded' = loaded /\ chain' = chain
      /\ disk' = disk /\ server' = server /\ strays' = strays /\ crashes' = crashes
      /\ faults' = faults
  BY DEF LoadAnnotations, AskList, PrimeHighlights, AnswerList, DropList, memory, bounds
<1>3. flush' \in Flushes /\ Heads' = Heads
  <2>1. flush' = flush \/ (flush.phase = "idle" /\ flush' = Claimed)
    BY DEF LoadAnnotations, AskList, PrimeHighlights, AnswerList, DropList, Kick
  <2> QED
    BY <1>1, <2>1 DEF Flushes, Heads, Active, Claimed, Idle
<1>4. list' \in Lists /\ In(list'.rows) \subseteq In(list.rows) \cup In(server)
  <2>1. NoRows \in [Ids -> Entry] /\ In(NoRows) = {}
    BY NoEntryTyped
  <2>2. server \in [Ids -> Entry] /\ list.rows \in [Ids -> Entry]
    BY <1>1 DEF TypeOK, Lists
  <2>3. CASE LoadAnnotations \/ PrimeHighlights \/ DropList
    <3>1. \/ list' = [phase |-> "drain", fenced |-> TRUE, fresh |-> FALSE, rows |-> NoRows]
          \/ list' = [phase |-> "asked", fenced |-> FALSE, fresh |-> FALSE, rows |-> NoRows]
          \/ list' = [phase |-> "idle", fenced |-> FALSE, fresh |-> FALSE, rows |-> NoRows]
      BY <2>3 DEF LoadAnnotations, PrimeHighlights, DropList, NoList
    <3>2. list'.rows = NoRows
      BY <3>1
    <3>3. \A p \in {"idle", "drain", "asked"}, f \in BOOLEAN :
            [phase |-> p, fenced |-> f, fresh |-> FALSE, rows |-> NoRows] \in Lists
      BY <2>1 DEF Lists
    <3>4. list' \in Lists
      BY <3>1, <3>3
    <3> QED
      BY <2>1, <3>2, <3>4
  <2>4. CASE AskList
    BY <1>1, <2>2, <2>4 DEF AskList, Lists
  <2>5. CASE AnswerList
    BY <1>1, <2>2, <2>5 DEF AnswerList, Lists
  <2> QED
    BY <2>3, <2>4, <2>5
<1>5. TypeOK'
  BY <1>1, <1>2, <1>3, <1>4, TypesTogether DEF TypeOK
<1>6. Known' \subseteq Known
  BY <1>2, <1>3, <1>4 DEF Known
<1> QED
  BY <1>1, <1>2, <1>5, <1>6, GMoved

LEMMA GApplyList ==
  ASSUME GInv, ApplyList
  PROVE  GInv'
<1> DEFINE w == [op |-> "replace", rows |-> list.rows]
<1>1. TypeOK /\ One(pending) /\ list.rows \in [Ids -> Entry] /\ flush \in Flushes
  BY TouchedTyped, FlushParts DEF GInv, OnePerHighlight, One
<1>2. /\ edits' = edits /\ wish' = wish /\ told' = told /\ snapshot' = list.rows
      /\ pending' = pending /\ hydrated' = hydrated /\ loaded' = loaded
      /\ chain' = Append(chain, w) /\ flush' = flush /\ list' = NoList
      /\ disk' = disk /\ server' = server /\ strays' = strays /\ crashes' = crashes
      /\ faults' = faults
  BY DEF ApplyList, bounds
<1>3. w \in Write /\ WriteOf(w) = In(list.rows)
  BY <1>1, WritesTyped
<1> HIDE DEF w
<1>4. chain' \in Seq(Write) /\ Stores(chain') = Stores(chain) \cup In(list.rows)
  <2>1. chain \in Seq(Write)
    BY <1>1 DEF TypeOK
  <2> QED
    BY <1>2, <1>3, <2>1, StoresAppend
<1>5. list' \in Lists /\ In(list'.rows) = {}
  <2>1. NoRows \in [Ids -> Entry] /\ In(NoRows) = {}
    BY NoEntryTyped
  <2> QED
    BY <1>2, <2>1 DEF NoList, Lists
<1>6. TypeOK'
  BY <1>1, <1>2, <1>4, <1>5, TypesTogether DEF TypeOK
<1>7. Known' \subseteq Known
  BY <1>2, <1>4, <1>5 DEF Known, Heads
<1> QED
  BY <1>1, <1>2, <1>6, <1>7, GMoved

\* What a write does to the tables.
LEMMA WrittenParts ==
  ASSUME disk \in Store, NEW w \in Write
  PROVE  /\ Written(w) \in Store
         /\ w.op = "queue" => /\ Written(w).queue = [disk.queue EXCEPT ![w.entry.id] = EntryOf(w.entry)]
                              /\ Written(w).rows = disk.rows
         /\ w.op = "unqueue" => /\ Written(w).queue = [disk.queue EXCEPT ![w.id] = NoEntry]
                                /\ Written(w).rows = disk.rows
         /\ w.op = "row" => /\ Written(w).rows = [disk.rows EXCEPT ![w.entry.id] = EntryOf(w.entry)]
                            /\ Written(w).queue = disk.queue
         /\ w.op = "replace" => Written(w).rows = w.rows /\ Written(w).queue = disk.queue
<1>1. /\ w.op \in {"queue", "row", "unqueue", "replace"}
      /\ w.op \in {"queue", "row"} => w.entry \in Mutation
      /\ w.op = "unqueue" => w.id \in Ids
      /\ w.op = "replace" => w.rows \in [Ids -> Entry]
  BY WriteParts
<1>2. w.op \in {"queue", "row"} => w.entry.id \in Ids /\ EntryOf(w.entry) \in Entry
  BY <1>1, EntryTyped
<1>3. NoEntry \in Entry
  BY NoEntryTyped
<1>4. CASE w.op = "queue"
  <2>1. Written(w) = [disk EXCEPT !.queue[w.entry.id] = EntryOf(w.entry)]
    BY <1>4 DEF Written
  <2> QED
    BY <1>2, <1>4, <2>1 DEF Store
<1>5. CASE w.op = "unqueue"
  <2>1. Written(w) = [disk EXCEPT !.queue[w.id] = NoEntry]
    BY <1>5 DEF Written
  <2> QED
    BY <1>1, <1>3, <1>5, <2>1 DEF Store
<1>6. CASE w.op = "row"
  <2>1. Written(w) = [disk EXCEPT !.rows[w.entry.id] = EntryOf(w.entry)]
    BY <1>6 DEF Written
  <2> QED
    BY <1>2, <1>6, <2>1 DEF Store
<1>7. CASE w.op = "replace"
  <2>1. Written(w) = [disk EXCEPT !.rows = w.rows]
    BY <1>7 DEF Written
  <2> QED
    BY <1>1, <1>7, <2>1 DEF Store
<1> QED
  BY <1>1, <1>4, <1>5, <1>6, <1>7

\* A write stores no edit but its own.
LEMMA WrittenEdits ==
  ASSUME disk \in Store, NEW w \in Write
  PROVE  /\ In(Written(w).rows) \subseteq In(disk.rows) \cup WriteOf(w)
         /\ In(Written(w).queue) \subseteq In(disk.queue) \cup WriteOf(w)
<1>1. /\ w.op \in {"queue", "row", "unqueue", "replace"}
      /\ w.op \in {"queue", "row"} => w.entry \in Mutation
      /\ w.op = "unqueue" => w.id \in Ids
  BY WriteParts
<1>2. w.op \in {"queue", "row"} => /\ w.entry.id \in Ids /\ EntryOf(w.entry) \in Entry
                                   /\ MutationOf(w.entry.id, EntryOf(w.entry)) = w.entry
                                   /\ WriteOf(w) = {w.entry}
  BY <1>1, EntryTyped DEF WriteOf
<1>3. disk.rows \in [Ids -> Entry] /\ disk.queue \in [Ids -> Entry]
  BY DEF Store
<1>4. NoEntry \in Entry /\ NoEntry.n = 0
  BY NoEntryTyped
<1>5. CASE w.op = "queue"
  <2>1. /\ Written(w).rows = disk.rows
        /\ Written(w).queue = [disk.queue EXCEPT ![w.entry.id] = EntryOf(w.entry)]
    BY <1>5, WrittenParts
  <2>2. In([disk.queue EXCEPT ![w.entry.id] = EntryOf(w.entry)]) \subseteq
          In(disk.queue) \cup {w.entry}
    BY <1>2, <1>3, <1>5, InExcept
  <2> QED
    BY <1>2, <1>5, <2>1, <2>2
<1>6. CASE w.op = "unqueue"
  BY <1>1, <1>3, <1>4, <1>6, WrittenParts, InExcept
<1>7. CASE w.op = "row"
  <2>1. /\ Written(w).queue = disk.queue
        /\ Written(w).rows = [disk.rows EXCEPT ![w.entry.id] = EntryOf(w.entry)]
    BY <1>7, WrittenParts
  <2>2. w.entry.id \in Ids /\ EntryOf(w.entry) \in Entry
        /\ MutationOf(w.entry.id, EntryOf(w.entry)) = w.entry
    BY <1>2, <1>7
  <2>3. In([disk.rows EXCEPT ![w.entry.id] = EntryOf(w.entry)]) \subseteq
          In(disk.rows) \cup {w.entry}
    BY <1>3, <2>2, InExcept
  <2> QED
    BY <1>2, <1>7, <2>1, <2>3
<1>8. CASE w.op = "replace"
  BY <1>8, WrittenParts DEF WriteOf
<1> QED
  BY <1>1, <1>5, <1>6, <1>7, <1>8

LEMMA GWrites ==
  ASSUME GInv, RunWrite \/ FailWrite
  PROVE  GInv'
<1>1. TypeOK /\ One(pending) /\ list \in Lists /\ flush \in Flushes /\ chain \in Seq(Write) /\ disk \in Store
  BY TouchedTyped, FlushParts DEF GInv, OnePerHighlight, One, TypeOK
<1>2. /\ edits' = edits /\ wish' = wish /\ told' = told /\ snapshot' = snapshot
      /\ pending' = pending /\ hydrated' = hydrated /\ loaded' = loaded
      /\ chain # <<>> /\ chain' = Tail(chain) /\ flush' = flush /\ list' = list
      /\ server' = server /\ strays' = strays /\ crashes' = crashes
  BY DEF RunWrite, FailWrite, memory, bounds
<1>3. /\ Head(chain) \in Write /\ chain' \in Seq(Write)
      /\ Stores(chain') \subseteq Stores(chain) /\ WriteOf(Head(chain)) \subseteq Stores(chain)
  BY <1>1, <1>2, StoresTail
<1>4. faults' \in 0 .. MaxFaults
  BY <1>1, BoundsAssumption DEF RunWrite, FailWrite, bounds, TypeOK
<1>5. disk' = disk \/ disk' = Written(Head(chain))
  BY DEF RunWrite, FailWrite
<1>6. disk' \in Store
  BY <1>1, <1>3, <1>5, WrittenParts
<1>7. In(disk'.rows) \subseteq In(disk.rows) \cup Stores(chain)
      /\ In(disk'.queue) \subseteq In(disk.queue) \cup Stores(chain)
  BY <1>1, <1>3, <1>5, WrittenEdits
<1>8. TypeOK'
  BY <1>1, <1>2, <1>3, <1>4, <1>6, TypesTogether DEF TypeOK
<1>9. Known' \subseteq Known
  BY <1>2, <1>3, <1>7 DEF Known, Heads
<1> QED
  BY <1>1, <1>2, <1>8, <1>9, GMoved

\* What hydration puts before the queue: the stored mutations of the
\* highlights memory has not touched.
Unreplaced == {i \in Ids : loaded.queue[i].n # 0 /\ i \notin {m.id : m \in Range(pending)}}

LEMMA RestoredQueue ==
  ASSUME GInv
  PROVE  /\ Restored \in Seq(Mutation) /\ One(Restored)
         /\ Range(Restored) = {MutationOf(i, loaded.queue[i]) : i \in Unreplaced}
         /\ Range(Restored) \subseteq In(loaded.queue)
         /\ Restored \o pending \in Seq(Mutation) /\ One(Restored \o pending)
         /\ Range(Restored \o pending) = Range(Restored) \cup Range(pending)
<1>1. TypeOK /\ pending \in Seq(Mutation) /\ One(pending) /\ loaded \in Store
  BY DEF GInv, TypeOK, OnePerHighlight, One
<1>2. loaded.queue \in [Ids -> Entry]
  BY <1>1 DEF Store
<1>3. Restored = Stored(Unreplaced)
  BY DEF Restored, Unreplaced
<1>4. Unreplaced \subseteq Ids /\ \A i \in Unreplaced : loaded.queue[i].n # 0
  BY DEF Unreplaced
<1>5. \A i, j \in Unreplaced : loaded.queue[i].n = loaded.queue[j].n => i = j
  <2> SUFFICES ASSUME NEW i \in Unreplaced, NEW j \in Unreplaced,
                      loaded.queue[i].n = loaded.queue[j].n
               PROVE  i = j
    OBVIOUS
  <2>1. PICK a \in In(loaded.queue) : a.id = i /\ a.n = loaded.queue[i].n
    BY <1>2, <1>4, InTyped
  <2>2. PICK b \in In(loaded.queue) : b.id = j /\ b.n = loaded.queue[j].n
    BY <1>2, <1>4, InTyped
  <2>3. a = b
    BY <2>1, <2>2 DEF GInv, OneEdit, Known
  <2> QED
    BY <2>1, <2>2, <2>3
<1>6. /\ Restored \in Seq(Mutation) /\ One(Restored)
      /\ Range(Restored) = {MutationOf(i, loaded.queue[i]) : i \in Unreplaced}
  BY <1>1, <1>3, <1>4, <1>5, StoredQueue
<1>7. Range(Restored) \subseteq In(loaded.queue)
  BY <1>4, <1>6 DEF In
<1>8. \A a \in Range(Restored), b \in Range(pending) : a.id # b.id
  BY <1>6 DEF Unreplaced, MutationOf
<1> QED
  BY <1>1, <1>6, <1>7, <1>8, JoinQueues

LEMMA GHydrate ==
  ASSUME GInv, Hydrate \/ FailHydrate
  PROVE  GInv'
<1>1. TypeOK /\ One(pending) /\ list \in Lists /\ flush \in Flushes /\ loaded \in Store
  BY TouchedTyped, FlushParts DEF GInv, OnePerHighlight, One, TypeOK
<1>2. /\ edits' = edits /\ wish' = wish /\ told' = told /\ hydrated' = TRUE
      /\ loaded' = NoStore /\ chain' = chain /\ flush' = flush /\ disk' = disk
      /\ server' = server /\ strays' = strays /\ crashes' = crashes
  BY DEF Hydrate, FailHydrate, bounds
<1>3. faults' \in 0 .. MaxFaults
  BY <1>1, BoundsAssumption DEF Hydrate, FailHydrate, bounds, TypeOK
<1>4. pending' = Restored \o pending \/ pending' = pending
  BY DEF Hydrate, FailHydrate
<1>5. /\ pending' \in Seq(Mutation) /\ One(pending')
      /\ Range(pending') \subseteq Range(pending) \cup In(loaded.queue)
  BY <1>1, <1>4, RestoredQueue DEF TypeOK
<1>6. list' \in Lists /\ list'.rows = list.rows
  BY <1>1, TouchedTyped DEF Hydrate, FailHydrate
<1>7. snapshot' = snapshot \/ snapshot' = loaded.rows
  BY DEF Hydrate, FailHydrate
<1>8. NoStore \in Store /\ In(NoStore.rows) = {} /\ In(NoStore.queue) = {}
  BY NoEntryTyped DEF NoStore
<1>9. snapshot' \in [Ids -> Entry]
  BY <1>1, <1>7 DEF TypeOK, Store
<1>10. TypeOK'
  BY <1>1, <1>2, <1>3, <1>5, <1>6, <1>8, <1>9, TypesTogether DEF TypeOK
<1>11. Known' \subseteq Known
  BY <1>2, <1>5, <1>6, <1>7, <1>8 DEF Known, Heads
<1> QED
  BY <1>2, <1>5, <1>10, <1>11, GMoved

LEMMA GCrash ==
  ASSUME GInv, Crash
  PROVE  GInv'
<1>1. TypeOK
  BY DEF GInv
<1>2. /\ edits' = edits /\ wish' = wish /\ told' = told /\ snapshot' = NoRows
      /\ pending' = <<>> /\ hydrated' = FALSE /\ loaded' = disk /\ chain' = <<>>
      /\ flush' = Idle /\ list' = NoList /\ disk' = disk /\ server' = server
      /\ faults' = faults /\ MayStray
  BY DEF Crash
<1>3. crashes' \in 0 .. MaxCrashes
  BY <1>1, BoundsAssumption DEF Crash, TypeOK
<1>4. NoRows \in [Ids -> Entry] /\ In(NoRows) = {}
  BY NoEntryTyped
<1>5. strays' \subseteq strays \cup Heads
  BY <1>2 DEF MayStray, Heads, Active
<1>6. strays' \subseteq Mutation
  BY <1>1, <1>5, FlushParts DEF TypeOK
<1>7. list' \in Lists /\ In(list'.rows) = {}
  BY <1>2, <1>4 DEF NoList, Lists
<1>8. flush' \in Flushes /\ Heads' = {}
  BY <1>2 DEF Flushes, Heads, Idle, Active
<1>9. pending' \in Seq(Mutation) /\ Range(pending') = {} /\ One(pending')
  BY <1>2, EmptyQueue
<1>10. chain' \in Seq(Write) /\ Stores(chain') = {}
  BY <1>2, EmptyQueue
<1>11. TypeOK'
  BY <1>1, <1>2, <1>3, <1>4, <1>6, <1>7, <1>8, <1>9, <1>10, TypesTogether DEF TypeOK
<1>12. Known' \subseteq Known
  BY <1>2, <1>4, <1>5, <1>7, <1>8, <1>9, <1>10 DEF Known
<1> QED
  BY <1>2, <1>9, <1>11, <1>12, GMoved

LEMMA GStutter ==
  ASSUME GInv, UNCHANGED vars
  PROVE  GInv'
<1>1. /\ edits' = edits /\ wish' = wish /\ told' = told /\ snapshot' = snapshot
      /\ pending' = pending /\ hydrated' = hydrated /\ loaded' = loaded /\ chain' = chain
      /\ flush' = flush /\ list' = list /\ disk' = disk /\ server' = server
      /\ strays' = strays /\ crashes' = crashes /\ faults' = faults
  BY DEF vars, memory, bounds
<1>2. Known' = Known
  BY <1>1 DEF Known, Heads
<1>3. TypeOK' /\ OnePerHighlight'
  BY <1>1 DEF GInv, TypeOK, OnePerHighlight
<1> QED
  BY <1>1, <1>2, <1>3 DEF GInv, KnownWell, OneEdit, WishWell

LEMMA GInit ==
  ASSUME Init
  PROVE  GInv
<1>1. /\ NoRows \in [Ids -> Entry] /\ In(NoRows) = {} /\ NoStore \in Store
      /\ \A i \in Ids : NoRows[i].n = 0
  BY NoEntryTyped
<1>2. /\ pending \in Seq(Mutation) /\ Range(pending) = {} /\ One(pending)
      /\ chain \in Seq(Write) /\ Stores(chain) = {}
  BY EmptyQueue DEF Init
<1>3. Heads = {} /\ flush \in Flushes /\ list \in Lists /\ list.rows = NoRows
  BY <1>1 DEF Init, Heads, Active, Flushes, Idle, Lists, NoList
<1>4. TypeOK
  <2>1. 0 \in 0 .. MaxEdits /\ 0 \in 0 .. MaxCrashes /\ 0 \in 0 .. MaxFaults
    BY BoundsAssumption
  <2> QED
    BY <1>1, <1>2, <1>3, <2>1 DEF Init, TypeOK, Flushes, Lists
<1>5. Known = {}
  BY <1>1, <1>2, <1>3 DEF Init, Known, NoStore
<1>6. WishWell
  BY <1>1 DEF Init, WishWell
<1> QED
  BY <1>2, <1>4, <1>5, <1>6 DEF GInv, KnownWell, OneEdit, OnePerHighlight, One

LEMMA GNext ==
  ASSUME GInv, [Next]_vars
  PROVE  GInv'
BY GUpsert, GDelete, GFlush, GServe, GAcknowledge, GLists, GApplyList, GWrites, GHydrate,
   GCrash, GStutter DEF Next

\* The bucket's invariant: every edit that is in the queue, on its way, in the
\* tables, in a list or on the server is one the reader made, no later than
\* the last of its highlight, and known by its number everywhere.
THEOREM BucketInvariant == Spec => []GInv
<1>1. Init => GInv
  BY GInit
<1>2. GInv /\ [Next]_vars => GInv'
  BY GNext
<1> QED
  BY <1>1, <1>2, PTL DEF Spec

\* Every variable of the bucket keeps its type, for any highlights and bounds.
THEOREM BucketTyped == Spec => []TypeOK
<1>1. GInv => TypeOK
  BY DEF GInv
<1> QED
  BY <1>1, BucketInvariant, PTL

\* Coalescing leaves each highlight at most one mutation in the queue, also
\* when the stored queue joins it, answers come and tabs die.
THEOREM OneEach == Spec => []OnePerHighlight
<1>1. GInv => OnePerHighlight
  BY DEF GInv
<1> QED
  BY <1>1, BucketInvariant, PTL

-----------------------------------------------------------------------------
(* The last write of a kind.  What a table will hold of a highlight once   *)
(* the chain is written is what the last write about it says, or, where    *)
(* there is none, what it holds.                                           *)

None(writes, A) == \A k \in DOMAIN writes : writes[k] \notin A

Last(writes, A) ==
  {writes[k] : k \in {l \in DOMAIN writes :
     writes[l] \in A /\ \A j \in DOMAIN writes : j > l => writes[j] \notin A}}

LEMMA LastAppend ==
  ASSUME NEW writes \in Seq(Write), NEW w, NEW A
  PROVE  /\ Last(Append(writes, w), A) \subseteq IF w \in A THEN {w} ELSE Last(writes, A)
         /\ None(Append(writes, w), A) => None(writes, A) /\ w \notin A
<1> DEFINE a == Append(writes, w)
           n == Len(writes)
<1>1. /\ n \in Nat /\ DOMAIN writes = 1 .. n /\ DOMAIN a = 1 .. (n + 1)
      /\ \A k \in 1 .. n : a[k] = writes[k]
      /\ a[n + 1] = w
  OBVIOUS
<1> HIDE DEF a, n
<1>2. None(a, A) => None(writes, A) /\ w \notin A
  BY <1>1 DEF None
<1>3. ASSUME NEW o \in Last(a, A)
      PROVE  o \in IF w \in A THEN {w} ELSE Last(writes, A)
  <2>1. PICK k \in 1 .. (n + 1) :
          o = a[k] /\ a[k] \in A /\ \A j \in 1 .. (n + 1) : j > k => a[j] \notin A
    BY <1>1, <1>3 DEF Last
  <2>2. CASE k = n + 1
    BY <1>1, <2>1, <2>2
  <2>3. CASE k # n + 1
    <3>1. k \in 1 .. n /\ n + 1 > k /\ n + 1 \in 1 .. (n + 1)
      BY <1>1, <2>3
    <3>2. w \notin A /\ o = writes[k] /\ writes[k] \in A
      BY <1>1, <2>1, <3>1
    <3>3. \A j \in 1 .. n : j > k => writes[j] \notin A
      BY <1>1, <2>1
    <3> QED
      BY <1>1, <3>1, <3>2, <3>3 DEF Last
  <2> QED
    BY <2>2, <2>3
<1> QED
  BY <1>2, <1>3 DEF a

LEMMA LastTail ==
  ASSUME NEW writes \in Seq(Write), writes # <<>>, NEW A
  PROVE  /\ Last(Tail(writes), A) \subseteq Last(writes, A)
         /\ None(Tail(writes), A) /\ Head(writes) \in A => Head(writes) \in Last(writes, A)
         /\ None(Tail(writes), A) /\ Head(writes) \notin A => None(writes, A)
<1> DEFINE t == Tail(writes)
           n == Len(writes)
<1>1. /\ n \in Nat /\ n > 0 /\ DOMAIN writes = 1 .. n /\ DOMAIN t = 1 .. (n - 1)
      /\ \A k \in 1 .. (n - 1) : t[k] = writes[k + 1]
      /\ Head(writes) = writes[1]
  OBVIOUS
<1> HIDE DEF t, n
<1>2. \A k \in 2 .. n : k - 1 \in 1 .. (n - 1) /\ t[k - 1] = writes[k]
  BY <1>1
<1>3. ASSUME None(t, A)
      PROVE  \A k \in 2 .. n : writes[k] \notin A
  BY <1>1, <1>2, <1>3 DEF None
<1>4. ASSUME NEW o \in Last(t, A)
      PROVE  o \in Last(writes, A)
  <2>1. PICK k \in 1 .. (n - 1) :
          o = t[k] /\ t[k] \in A /\ \A j \in 1 .. (n - 1) : j > k => t[j] \notin A
    BY <1>1, <1>4 DEF Last
  <2>2. k + 1 \in 1 .. n /\ o = writes[k + 1] /\ writes[k + 1] \in A
    BY <1>1, <2>1
  <2>3. ASSUME NEW j \in 1 .. n, j > k + 1 PROVE writes[j] \notin A
    <3>1. j - 1 \in 1 .. (n - 1) /\ j - 1 > k /\ j \in 2 .. n
      BY <1>1, <2>3
    <3> QED
      BY <1>2, <2>1, <3>1
  <2> QED
    BY <1>1, <2>2, <2>3 DEF Last
<1>5. None(t, A) /\ Head(writes) \in A => Head(writes) \in Last(writes, A)
  <2> SUFFICES ASSUME None(t, A), Head(writes) \in A PROVE Head(writes) \in Last(writes, A)
    OBVIOUS
  <2>1. 1 \in 1 .. n /\ \A j \in 1 .. n : j > 1 => j \in 2 .. n
    BY <1>1
  <2> QED
    BY <1>1, <1>3, <2>1 DEF Last
<1>6. None(t, A) /\ Head(writes) \notin A => None(writes, A)
  <2>1. \A j \in 1 .. n : j = 1 \/ j \in 2 .. n
    BY <1>1
  <2> QED
    BY <1>1, <1>3, <2>1 DEF None
<1> QED
  BY <1>4, <1>5, <1>6 DEF t

-----------------------------------------------------------------------------
(* The stored queue.                                                       *)

\* The writes about one highlight's stored mutation.
QueueOps(i) == {w \in Write : \/ w.op = "queue" /\ w.entry.id = i
                              \/ w.op = "unqueue" /\ w.id = i}

\* Edit n of a highlight is in the queue, or hydration will put it there.
Queued(i, n) ==
  \/ \E m \in Range(pending) : m.id = i /\ m.n = n
  \/ /\ ~hydrated /\ loaded.queue[i].n = n
     /\ \A m \in Range(pending) : m.id # i

\* What the tables will hold of the queue is in the queue.
Backed ==
  \A i \in Ids :
    /\ \A w \in Last(chain, QueueOps(i)) : w.op = "queue" => Queued(i, w.entry.n)
    /\ None(chain, QueueOps(i)) /\ disk.queue[i].n # 0 => Queued(i, disk.queue[i].n)

\* A step that adds one write and disturbs no other highlight's edits.
LEMMA BackedAppend ==
  ASSUME Backed, TypeOK, NEW w \in Write, chain' = Append(chain, w), disk' = disk,
         \A i \in Ids : w \notin QueueOps(i) => \A n : Queued(i, n) => Queued(i, n)',
         \A i \in Ids : w \in QueueOps(i) /\ w.op = "queue" => Queued(i, w.entry.n)'
  PROVE  Backed'
<1>1. chain \in Seq(Write)
  BY DEF TypeOK
<1> SUFFICES ASSUME NEW i \in Ids
             PROVE  /\ \A o \in Last(chain', QueueOps(i)) :
                         o.op = "queue" => Queued(i, o.entry.n)'
                    /\ None(chain', QueueOps(i)) /\ disk'.queue[i].n # 0
                         => Queued(i, disk.queue[i].n)'
  BY DEF Backed
<1>2. /\ Last(chain', QueueOps(i)) \subseteq
           IF w \in QueueOps(i) THEN {w} ELSE Last(chain, QueueOps(i))
      /\ None(chain', QueueOps(i)) => None(chain, QueueOps(i)) /\ w \notin QueueOps(i)
  BY <1>1, LastAppend
<1>3. CASE w \in QueueOps(i)
  BY <1>2, <1>3
<1>4. CASE w \notin QueueOps(i)
  BY <1>2, <1>4 DEF Backed
<1> QED
  BY <1>3, <1>4

LEMMA BackedKept ==
  ASSUME Backed, chain' = chain, disk' = disk,
         \A i \in Ids, n \in 1 .. MaxEdits : Queued(i, n) => Queued(i, n)', TypeOK
  PROVE  Backed'
<1>1. \A i \in Ids : disk.queue[i].n # 0 => disk.queue[i].n \in 1 .. MaxEdits
  BY BoundsAssumption DEF TypeOK, Store, Entry
<1>2. \A i \in Ids : \A w \in Last(chain, QueueOps(i)) : w.op = "queue" => w.entry.n \in 1 .. MaxEdits
  BY EntryTyped, WriteParts DEF Last, QueueOps
<1> QED
  BY <1>1, <1>2 DEF Backed

LEMMA BackedEnqueue ==
  ASSUME Backed, GInv, NEW m \in Mutation, Enqueue(m), disk' = disk, hydrated' = hydrated,
         loaded' = loaded
  PROVE  Backed'
<1> DEFINE w == [op |-> "queue", entry |-> m]
<1>1. TypeOK
  BY DEF GInv
<1>2. /\ Range(pending') = {o \in Range(pending) : o.id # m.id} \cup {m}
      /\ chain' = Append(chain, w) /\ w \in Write /\ w.op = "queue" /\ w.entry = m
  BY EnqueueTyped, WritesTyped
<1> HIDE DEF w
<1>3. \A i \in Ids : w \in QueueOps(i) <=> i = m.id
  BY <1>2 DEF QueueOps
<1>4. \A i \in Ids : w \notin QueueOps(i) => \A n : Queued(i, n) => Queued(i, n)'
  BY <1>2, <1>3 DEF Queued
<1>5. \A i \in Ids : w \in QueueOps(i) /\ w.op = "queue" => Queued(i, w.entry.n)'
  BY <1>2, <1>3 DEF Queued
<1> QED
  BY <1>1, <1>2, <1>4, <1>5, BackedAppend

\* A highlight leaves the queue and the tables together.
LEMMA BackedUnqueue ==
  ASSUME Backed, TypeOK, NEW id \in Ids, disk' = disk, hydrated' = hydrated, loaded' = loaded,
         \A m \in Range(pending') : m \in Range(pending),
         \A m \in Range(pending) : m.id # id => m \in Range(pending'),
         chain' = Append(chain, [op |-> "unqueue", id |-> id])
  PROVE  Backed'
<1> DEFINE w == [op |-> "unqueue", id |-> id]
<1>1. chain' = Append(chain, w) /\ w \in Write /\ w.op = "unqueue" /\ w.id = id
  BY WritesTyped
<1> HIDE DEF w
<1>2. \A i \in Ids : w \in QueueOps(i) <=> i = id
  BY <1>1 DEF QueueOps
<1>3. \A i \in Ids : w \notin QueueOps(i) => \A n : Queued(i, n) => Queued(i, n)'
  BY <1>2 DEF Queued
<1> QED
  BY <1>1, <1>3, BackedAppend

LEMMA BackedEdit ==
  ASSUME Backed, GInv, NEW id \in Ids, Upsert(id) \/ Delete(id)
  PROVE  Backed'
<1>1. TypeOK /\ pending \in Seq(Mutation) /\ edits' = edits + 1 /\ edits' \in 1 .. MaxEdits
  BY BoundsAssumption DEF GInv, TypeOK, Upsert, Delete
<1>2. disk' = disk /\ hydrated' = hydrated /\ loaded' = loaded
  BY DEF Upsert, Delete
<1>3. CASE \E g \in BOOLEAN : Enqueue([id |-> id, n |-> edits', gone |-> g])
  <2>1. PICK g \in BOOLEAN : Enqueue([id |-> id, n |-> edits', gone |-> g])
    BY <1>3
  <2>2. [id |-> id, n |-> edits', gone |-> g] \in Mutation
    BY <1>1 DEF Mutation
  <2> QED
    BY <1>2, <2>1, <2>2, BackedEnqueue
<1>4. CASE /\ pending' = Others(pending, id)
           /\ chain' = Append(chain, [op |-> "unqueue", id |-> id])
  <2>1. Range(pending') = {m \in Range(pending) : m.id # id}
    BY <1>1, <1>4, OthersRest
  <2> QED
    BY <1>1, <1>2, <1>4, <2>1, BackedUnqueue
<1> QED
  BY <1>3, <1>4 DEF Upsert, Delete

LEMMA BackedAcknowledge ==
  ASSUME Backed, GInv, Acknowledge
  PROVE  Backed'
<1> DEFINE h == flush.head
           unqueue == [op |-> "unqueue", id |-> h.id]
           row == [op |-> "row", entry |-> h]
<1>1. TypeOK /\ pending \in Seq(Mutation) /\ chain \in Seq(Write)
  BY DEF GInv, TypeOK
<1>2. /\ flush.phase = "answered" /\ pending' = Without(pending, h)
      /\ hydrated' = hydrated /\ loaded' = loaded /\ disk' = disk
      /\ \/ chain' = chain \o <<row>> \o <<unqueue>>
         \/ chain' = chain \o <<unqueue>>
  BY DEF Acknowledge, Finish, Without
<1>3. h \in Mutation /\ h.id \in Ids
  BY <1>1, <1>2, FlushParts, EntryTyped DEF Active
<1>4. row \in Write /\ unqueue \in Write
  BY <1>3, WritesTyped
<1>5. row.op = "row" /\ unqueue.op = "unqueue" /\ unqueue.id = h.id
  OBVIOUS
<1>6. Range(pending') = Range(pending) \ {h}
  BY <1>1, <1>2, WithoutRest
<1> HIDE DEF h, row, unqueue
<1>7. \/ chain' = Append(Append(chain, row), unqueue)
      \/ chain' = Append(chain, unqueue)
  BY <1>1, <1>2, <1>4
<1>8. Append(chain, row) \in Seq(Write)
  BY <1>1, <1>4
<1> SUFFICES ASSUME NEW i \in Ids
             PROVE  /\ \A o \in Last(chain', QueueOps(i)) :
                         o.op = "queue" => Queued(i, o.entry.n)'
                    /\ None(chain', QueueOps(i)) /\ disk'.queue[i].n # 0
                         => Queued(i, disk.queue[i].n)'
  BY <1>2 DEF Backed
<1>9. row \notin QueueOps(i)
  BY <1>5 DEF QueueOps
<1>10. /\ Last(chain', QueueOps(i)) \subseteq
            IF unqueue \in QueueOps(i) THEN {unqueue} ELSE Last(chain, QueueOps(i))
       /\ None(chain', QueueOps(i)) => None(chain, QueueOps(i)) /\ unqueue \notin QueueOps(i)
  <2>1. CASE chain' = Append(chain, unqueue)
    BY <1>1, <2>1, LastAppend
  <2>2. CASE chain' = Append(Append(chain, row), unqueue)
    <3>1. /\ Last(Append(chain, row), QueueOps(i)) \subseteq Last(chain, QueueOps(i))
          /\ None(Append(chain, row), QueueOps(i)) => None(chain, QueueOps(i))
      BY <1>1, <1>9, LastAppend
    <3>2. /\ Last(chain', QueueOps(i)) \subseteq
               IF unqueue \in QueueOps(i) THEN {unqueue}
               ELSE Last(Append(chain, row), QueueOps(i))
          /\ None(chain', QueueOps(i)) =>
               None(Append(chain, row), QueueOps(i)) /\ unqueue \notin QueueOps(i)
      BY <1>8, <2>2, LastAppend
    <3> QED
      BY <3>1, <3>2
  <2> QED
    BY <1>7, <2>1, <2>2
<1>11. CASE unqueue \in QueueOps(i)
  BY <1>5, <1>10, <1>11
<1>12. CASE unqueue \notin QueueOps(i)
  <2>1. i # h.id
    BY <1>4, <1>5, <1>12 DEF QueueOps
  <2>2. \A n : Queued(i, n) => Queued(i, n)'
    BY <1>2, <1>6, <2>1 DEF Queued
  <2> QED
    BY <1>2, <1>10, <1>12, <2>2 DEF Backed
<1> QED
  BY <1>11, <1>12

LEMMA BackedWrite ==
  ASSUME Backed, GInv, RunWrite
  PROVE  Backed'
<1> DEFINE w == Head(chain)
<1>1. TypeOK /\ chain \in Seq(Write) /\ disk \in Store
  BY DEF GInv, TypeOK
<1>2. /\ chain # <<>> /\ chain' = Tail(chain) /\ disk' = Written(w)
      /\ pending' = pending /\ hydrated' = hydrated /\ loaded' = loaded
  BY DEF RunWrite, memory
<1>3. w \in Write
  BY <1>1, <1>2, StoresTail
<1> HIDE DEF w
<1> SUFFICES ASSUME NEW i \in Ids
             PROVE  /\ \A o \in Last(chain', QueueOps(i)) : o.op = "queue" => Queued(i, o.entry.n)
                    /\ None(chain', QueueOps(i)) /\ disk'.queue[i].n # 0
                         => Queued(i, disk'.queue[i].n)
  BY <1>2 DEF Backed, Queued
<1>4. /\ Last(chain', QueueOps(i)) \subseteq Last(chain, QueueOps(i))
      /\ None(chain', QueueOps(i)) /\ w \in QueueOps(i) => w \in Last(chain, QueueOps(i))
      /\ None(chain', QueueOps(i)) /\ w \notin QueueOps(i) => None(chain, QueueOps(i))
  BY <1>1, <1>2, LastTail DEF w
<1>5. /\ w.op \in {"queue", "row", "unqueue", "replace"}
      /\ w.op = "queue" => w.entry \in Mutation /\ w.entry.id \in Ids /\ EntryOf(w.entry).n = w.entry.n
      /\ w.op = "unqueue" => w.id \in Ids
      /\ disk.queue \in [Ids -> Entry] /\ NoEntry.n = 0
  BY <1>1, <1>3, WriteParts, EntryTyped, NoEntryTyped DEF Store
<1>6. /\ w.op = "queue" => disk'.queue = [disk.queue EXCEPT ![w.entry.id] = EntryOf(w.entry)]
      /\ w.op = "unqueue" => disk'.queue = [disk.queue EXCEPT ![w.id] = NoEntry]
      /\ w.op \in {"row", "replace"} => disk'.queue = disk.queue
  BY <1>1, <1>2, <1>3, WrittenParts
<1>7. w \in QueueOps(i) <=> (w.op = "queue" /\ w.entry.id = i) \/ (w.op = "unqueue" /\ w.id = i)
  BY <1>3 DEF QueueOps
<1>8. w \notin QueueOps(i) => disk'.queue[i] = disk.queue[i]
  BY <1>5, <1>6, <1>7
<1>9. w \in QueueOps(i) => disk'.queue[i].n = IF w.op = "queue" THEN w.entry.n ELSE 0
  BY <1>5, <1>6, <1>7
<1> QED
  BY <1>4, <1>7, <1>8, <1>9 DEF Backed

LEMMA BackedHydrate ==
  ASSUME Backed, GInv, Hydrate
  PROVE  Backed'
<1>1. TypeOK /\ loaded \in Store /\ loaded.queue \in [Ids -> Entry]
  BY DEF GInv, TypeOK, Store
<1>2. chain' = chain /\ disk' = disk /\ pending' = Restored \o pending
  BY DEF Hydrate
<1>3. /\ Range(pending') = Range(Restored) \cup Range(pending)
      /\ Range(Restored) = {MutationOf(i, loaded.queue[i]) : i \in Unreplaced}
  BY <1>2, RestoredQueue
<1>4. ASSUME NEW i \in Ids, NEW n \in 1 .. MaxEdits, Queued(i, n)
      PROVE  Queued(i, n)'
  <2>1. CASE \E m \in Range(pending) : m.id = i /\ m.n = n
    BY <1>3, <2>1 DEF Queued
  <2>2. CASE loaded.queue[i].n = n /\ \A m \in Range(pending) : m.id # i
    <3>1. n # 0
      BY BoundsAssumption
    <3>2. i \in Unreplaced
      BY <2>2, <3>1 DEF Unreplaced
    <3>3. MutationOf(i, loaded.queue[i]).id = i /\ MutationOf(i, loaded.queue[i]).n = n
      BY <2>2 DEF MutationOf
    <3> QED
      BY <1>3, <3>2, <3>3 DEF Queued
  <2> QED
    BY <1>4, <2>1, <2>2 DEF Queued
<1> QED
  BY <1>1, <1>2, <1>4, BackedKept

LEMMA BackedCrash ==
  ASSUME Crash
  PROVE  Backed'
<1>1. chain' = <<>> /\ pending' = <<>> /\ hydrated' = FALSE /\ loaded' = disk /\ disk' = disk
  BY DEF Crash
<1>2. Range(pending') = {} /\ DOMAIN chain' = {}
  BY <1>1, EmptyQueue DEF Range
<1>3. \A i \in Ids : Last(chain', QueueOps(i)) = {}
  BY <1>2 DEF Last
<1> QED
  BY <1>1, <1>2, <1>3 DEF Backed, Queued

LEMMA BackedLists ==
  ASSUME Backed, GInv, ApplyList
  PROVE  Backed'
<1> DEFINE w == [op |-> "replace", rows |-> list.rows]
<1>1. TypeOK /\ list.rows \in [Ids -> Entry]
  BY TouchedTyped DEF GInv
<1>2. w \in Write /\ w.op = "replace"
  BY <1>1, WritesTyped
<1>3. /\ chain' = Append(chain, w) /\ disk' = disk /\ pending' = pending
      /\ hydrated' = hydrated /\ loaded' = loaded
  BY DEF ApplyList
<1> HIDE DEF w
<1>4. \A i \in Ids : w \notin QueueOps(i)
  BY <1>2 DEF QueueOps
<1>5. \A i \in Ids : \A n : Queued(i, n) => Queued(i, n)'
  BY <1>3 DEF Queued
<1> QED
  BY <1>1, <1>2, <1>3, <1>4, <1>5, BackedAppend

\* No step of a bucket whose IndexedDB does not fail leaves a stored mutation
\* behind.
LEMMA BackedNext ==
  ASSUME MaxFaults = 0, Backed, GInv, [Next]_vars
  PROVE  Backed'
<1>1. faults = 0
  BY DEF GInv, TypeOK
<1>2. ~FailWrite /\ ~FailHydrate
  BY <1>1 DEF FailWrite, FailHydrate
<1>3. ASSUME UNCHANGED <<memory, chain, disk>>
      PROVE  Backed'
  BY <1>3 DEF Backed, Queued, memory
<1>4. CASE StartFlush \/ Drain \/ SendHead \/ NoToken \/ Serve \/ Refuse \/ Retry \/ ServeStray
  BY <1>3, <1>4 DEF StartFlush, Drain, SendHead, NoToken, Serve, Refuse, Retry, ServeStray
<1>5. CASE LoadAnnotations \/ AskList \/ PrimeHighlights \/ AnswerList \/ DropList
  BY <1>3, <1>5 DEF LoadAnnotations, AskList, PrimeHighlights, AnswerList, DropList
<1>6. CASE UNCHANGED vars
  BY <1>3, <1>6 DEF vars
<1> QED
  BY <1>2, <1>4, <1>5, <1>6, BackedEdit, BackedAcknowledge, BackedWrite, BackedHydrate,
     BackedCrash, BackedLists DEF Next

LEMMA BackedInit ==
  ASSUME Init
  PROVE  Backed
<1>1. DOMAIN chain = {} /\ \A i \in Ids : disk.queue[i].n = 0
  BY NoEntryTyped DEF Init, NoStore
<1> QED
  BY <1>1 DEF Backed, Last

\* Where no IndexedDB operation fails, every mutation that the tables hold once
\* the chain has caught up is in the queue: neither an answer, nor a
\* replacement, nor a delete, nor a reload leaves one behind to be sent again.
THEOREM NoGhosts == MaxFaults = 0 /\ Spec => []NoGhost
<1>1. GInv /\ Backed => NoGhost
  BY DEF NoGhost, Backed, Queued, None
<1>2. CASE MaxFaults = 0
  <2>1. Init => Backed
    BY BackedInit
  <2>2. GInv /\ Backed /\ [Next]_vars => Backed'
    BY <1>2, BackedNext
  <2> QED
    BY <1>1, <2>1, <2>2, BucketInvariant, PTL DEF Spec
<1> QED
  BY <1>2

-----------------------------------------------------------------------------
(* The stored rows.                                                        *)

\* The writes about one highlight's row.
RowOps(i) == {w \in Write : \/ w.op = "row" /\ w.entry.id = i
                            \/ w.op = "replace"}

\* What such a write makes of it.
Made(w, i) == IF w.op = "row" THEN EntryOf(w.entry) ELSE w.rows[i]

\* What the tables will hold of the rows is what memory shows as confirmed.
Following ==
  \A i \in Ids :
    /\ \A w \in Last(chain, RowOps(i)) : Made(w, i) = snapshot[i]
    /\ None(chain, RowOps(i)) => disk.rows[i] = snapshot[i]

\* Before hydration nothing is confirmed and nothing is written of the rows.
Untouched ==
  /\ snapshot = NoRows /\ loaded.rows = disk.rows
  /\ flush.phase \in {"idle", "claimed"} /\ list.phase = "idle"
  /\ \A i \in Ids : None(chain, RowOps(i))

Mirroring == IF hydrated THEN Following ELSE Untouched

\* A write about no row.
LEMMA RowsUnmoved ==
  ASSUME Mirroring, TypeOK, NEW w \in Write, w.op \in {"queue", "unqueue"},
         chain' = Append(chain, w), disk' = disk, snapshot' = snapshot, hydrated' = hydrated,
         loaded' = loaded, list'.phase = list.phase,
         ~hydrated => flush'.phase \in {"idle", "claimed"}
  PROVE  Mirroring'
<1>1. chain \in Seq(Write)
  BY DEF TypeOK
<1>2. \A i \in Ids : w \notin RowOps(i)
  BY DEF RowOps
<1>3. \A i \in Ids : Last(chain', RowOps(i)) \subseteq Last(chain, RowOps(i))
                     /\ (None(chain', RowOps(i)) => None(chain, RowOps(i)))
  BY <1>1, <1>2, LastAppend
<1>4. CASE hydrated
  BY <1>3, <1>4 DEF Mirroring, Following
<1>5. CASE ~hydrated
  <2>1. \A i \in Ids : None(chain', RowOps(i))
    <3> SUFFICES ASSUME NEW i \in Ids PROVE None(chain', RowOps(i))
      OBVIOUS
    <3>1. None(chain, RowOps(i)) /\ w \notin RowOps(i)
      BY <1>2, <1>5 DEF Mirroring, Untouched
    <3>2. Len(chain) \in Nat /\ DOMAIN chain = 1 .. Len(chain)
          /\ DOMAIN chain' = 1 .. (Len(chain) + 1)
          /\ \A k \in 1 .. Len(chain) : chain'[k] = chain[k]
          /\ chain'[Len(chain) + 1] = w
      BY <1>1
    <3>3. \A k \in 1 .. (Len(chain) + 1) : k \in 1 .. Len(chain) \/ k = Len(chain) + 1
      BY <3>2
    <3> QED
      BY <3>1, <3>2, <3>3 DEF None
  <2> QED
    BY <1>5, <2>1 DEF Mirroring, Untouched
<1> QED
  BY <1>4, <1>5

LEMMA MirroringEdit ==
  ASSUME Mirroring, GInv, NEW id \in Ids, Upsert(id) \/ Delete(id)
  PROVE  Mirroring'
<1>1. TypeOK /\ edits' = edits + 1 /\ edits' \in 1 .. MaxEdits
  BY BoundsAssumption DEF GInv, TypeOK, Upsert, Delete
<1>2. /\ disk' = disk /\ hydrated' = hydrated /\ loaded' = loaded /\ snapshot' = snapshot
      /\ list' = Touched
  BY DEF Upsert, Delete
<1>3. list'.phase = list.phase
  BY <1>1, <1>2, TouchedTyped
<1>4. CASE \E g \in BOOLEAN : Enqueue([id |-> id, n |-> edits', gone |-> g])
  <2>1. PICK g \in BOOLEAN : Enqueue([id |-> id, n |-> edits', gone |-> g])
    BY <1>4
  <2> DEFINE m == [id |-> id, n |-> edits', gone |-> g]
             w == [op |-> "queue", entry |-> m]
  <2>2. m \in Mutation
    BY <1>1 DEF Mutation
  <2> HIDE DEF m
  <2>3. w \in Write /\ w.op = "queue"
    BY <2>2, WritesTyped
  <2>4. chain' = Append(chain, w) /\ (flush' = flush \/ flush' = Claimed)
    BY <2>1, <2>2, EnqueueTyped DEF m
  <2> HIDE DEF w
  <2>5. ~hydrated => flush'.phase \in {"idle", "claimed"}
    BY <2>4 DEF Mirroring, Untouched, Claimed, Idle
  <2> QED
    BY <1>1, <1>2, <1>3, <2>3, <2>4, <2>5, RowsUnmoved
<1>5. CASE /\ chain' = Append(chain, [op |-> "unqueue", id |-> id])
           /\ UNCHANGED flush
  <2> DEFINE w == [op |-> "unqueue", id |-> id]
  <2>1. w \in Write /\ w.op = "unqueue" /\ chain' = Append(chain, w)
    BY <1>5, WritesTyped
  <2> HIDE DEF w
  <2>2. ~hydrated => flush'.phase \in {"idle", "claimed"}
    BY <1>5 DEF Mirroring, Untouched
  <2> QED
    BY <1>1, <1>2, <1>3, <2>1, <2>2, RowsUnmoved
<1> QED
  BY <1>4, <1>5 DEF Upsert, Delete

LEMMA MirroringAcknowledge ==
  ASSUME Mirroring, GInv, Acknowledge
  PROVE  Mirroring'
<1> DEFINE h == flush.head
           unqueue == [op |-> "unqueue", id |-> h.id]
           row == [op |-> "row", entry |-> h]
<1>1. TypeOK /\ chain \in Seq(Write) /\ snapshot \in [Ids -> Entry]
  BY DEF GInv, TypeOK
<1>2. /\ flush.phase = "answered" /\ hydrated' = hydrated /\ loaded' = loaded /\ disk' = disk
      /\ list' = Touched
      /\ \/ /\ chain' = chain \o <<row>> \o <<unqueue>>
            /\ snapshot' = [snapshot EXCEPT ![h.id] = EntryOf(h)]
         \/ chain' = chain \o <<unqueue>> /\ snapshot' = snapshot
  BY DEF Acknowledge, Finish
<1>3. h \in Mutation /\ h.id \in Ids /\ EntryOf(h) \in Entry
  BY <1>1, <1>2, FlushParts, EntryTyped DEF Active
<1>4. hydrated /\ list'.phase = list.phase
  BY <1>1, <1>2, TouchedTyped DEF Mirroring, Untouched
<1>5. row \in Write /\ unqueue \in Write
  BY <1>3, WritesTyped
<1>6. row.op = "row" /\ row.entry = h /\ unqueue.op = "unqueue"
  OBVIOUS
<1> HIDE DEF h, row, unqueue
<1>7. CASE chain' = chain \o <<unqueue>> /\ snapshot' = snapshot
  <2>1. chain' = Append(chain, unqueue)
    BY <1>1, <1>5, <1>7
  <2> QED
    BY <1>1, <1>2, <1>4, <1>5, <1>6, <1>7, <2>1, RowsUnmoved
<1>8. CASE /\ chain' = chain \o <<row>> \o <<unqueue>>
           /\ snapshot' = [snapshot EXCEPT ![h.id] = EntryOf(h)]
  <2>3. chain \in Seq(Write) /\ row \in Write /\ unqueue \in Write
        /\ chain' = chain \o <<row>> \o <<unqueue>>
    BY <1>1, <1>5, <1>8
  <2>1. chain' = Append(Append(chain, row), unqueue) /\ Append(chain, row) \in Seq(Write)
    <3>1. chain \o <<row>> = Append(chain, row) /\ Append(chain, row) \in Seq(Write)
      BY <2>3, JoinOne
    <3>2. Append(chain, row) \o <<unqueue>> = Append(Append(chain, row), unqueue)
      BY <2>3, <3>1, JoinOne
    <3> QED
      BY <2>3, <3>1, <3>2
  <2>2. ASSUME NEW i \in Ids
        PROVE  /\ \A w \in Last(chain', RowOps(i)) : Made(w, i) = snapshot'[i]
               /\ None(chain', RowOps(i)) => disk.rows[i] = snapshot'[i]
    <3>1. unqueue \notin RowOps(i) /\ (row \in RowOps(i) <=> i = h.id)
      BY <1>5, <1>6 DEF RowOps
    <3>2. /\ Last(chain', RowOps(i)) \subseteq Last(Append(chain, row), RowOps(i))
          /\ None(chain', RowOps(i)) => None(Append(chain, row), RowOps(i))
      BY <2>1, <3>1, LastAppend
    <3>3. /\ Last(Append(chain, row), RowOps(i)) \subseteq
               IF row \in RowOps(i) THEN {row} ELSE Last(chain, RowOps(i))
          /\ None(Append(chain, row), RowOps(i)) =>
               None(chain, RowOps(i)) /\ row \notin RowOps(i)
      BY <1>1, LastAppend
    <3>4. CASE i = h.id
      <4>1. snapshot'[i] = EntryOf(h)
        BY <1>1, <1>3, <1>8, <3>4
      <4>2. Made(row, i) = EntryOf(h)
        BY <1>6 DEF Made
      <4> QED
        BY <3>1, <3>2, <3>3, <3>4, <4>1, <4>2
    <3>5. CASE i # h.id
      <4>1. snapshot'[i] = snapshot[i]
        BY <1>1, <1>3, <1>8, <3>5
      <4> QED
        BY <1>4, <3>1, <3>2, <3>3, <3>5, <4>1 DEF Mirroring, Following
    <3> QED
      BY <3>4, <3>5
  <2> QED
    BY <1>2, <1>4, <2>2 DEF Mirroring, Following
<1> QED
  BY <1>2, <1>7, <1>8

LEMMA MirroringLists ==
  ASSUME Mirroring, GInv, ApplyList
  PROVE  Mirroring'
<1> DEFINE w == [op |-> "replace", rows |-> list.rows]
<1>1. TypeOK /\ list.rows \in [Ids -> Entry] /\ chain \in Seq(Write)
  BY TouchedTyped DEF GInv, TypeOK
<1>2. w \in Write /\ w.op = "replace" /\ w.rows = list.rows
  BY <1>1, WritesTyped
<1>3. /\ list.phase = "answered" /\ chain' = Append(chain, w) /\ snapshot' = list.rows
      /\ hydrated' = hydrated
  BY DEF ApplyList
<1> HIDE DEF w
<1>4. hydrated
  BY <1>3 DEF Mirroring, Untouched
<1>5. \A i \in Ids : w \in RowOps(i) /\ Made(w, i) = list.rows[i]
  BY <1>2 DEF RowOps, Made
<1>6. \A i \in Ids : Last(chain', RowOps(i)) \subseteq {w} /\ ~None(chain', RowOps(i))
  BY <1>1, <1>3, <1>5, LastAppend
<1> QED
  BY <1>3, <1>4, <1>5, <1>6 DEF Mirroring, Following

LEMMA MirroringWrite ==
  ASSUME Mirroring, GInv, RunWrite
  PROVE  Mirroring'
<1> DEFINE w == Head(chain)
<1>1. TypeOK /\ chain \in Seq(Write) /\ disk \in Store /\ disk.rows \in [Ids -> Entry]
  BY DEF GInv, TypeOK, Store
<1>2. /\ chain # <<>> /\ chain' = Tail(chain) /\ disk' = Written(w)
      /\ snapshot' = snapshot /\ hydrated' = hydrated /\ loaded' = loaded
      /\ flush' = flush /\ list' = list
  BY DEF RunWrite, memory
<1>3. w \in Write
  BY <1>1, <1>2, StoresTail
<1>4. ASSUME NEW i \in Ids
      PROVE  /\ Last(chain', RowOps(i)) \subseteq Last(chain, RowOps(i))
             /\ None(chain', RowOps(i)) /\ w \in RowOps(i) => w \in Last(chain, RowOps(i))
             /\ None(chain', RowOps(i)) /\ w \notin RowOps(i) => None(chain, RowOps(i))
  BY <1>1, <1>2, LastTail
<1>5. 1 \in DOMAIN chain /\ w = chain[1] /\ \A k \in DOMAIN chain' : k + 1 \in DOMAIN chain
                                            /\ chain'[k] = chain[k + 1]
  BY <1>1, <1>2
<1> HIDE DEF w
<1>6. /\ w.op \in {"queue", "row", "unqueue", "replace"}
      /\ w.op = "row" => w.entry \in Mutation /\ w.entry.id \in Ids
      /\ w.op = "replace" => w.rows \in [Ids -> Entry]
  BY <1>3, WriteParts, EntryTyped
<1>7. /\ w.op \in {"queue", "unqueue"} => disk'.rows = disk.rows
      /\ w.op = "row" => disk'.rows = [disk.rows EXCEPT ![w.entry.id] = EntryOf(w.entry)]
      /\ w.op = "replace" => disk'.rows = w.rows
  BY <1>1, <1>2, <1>3, WrittenParts
<1>8. ASSUME NEW i \in Ids
      PROVE  /\ w \in RowOps(i) => disk'.rows[i] = Made(w, i)
             /\ w \notin RowOps(i) => disk'.rows[i] = disk.rows[i]
  <2>1. w \in RowOps(i) <=> (w.op = "row" /\ w.entry.id = i) \/ w.op = "replace"
    BY <1>3 DEF RowOps
  <2>2. CASE w.op = "row"
    BY <1>1, <1>6, <1>7, <2>1, <2>2 DEF Made
  <2>3. CASE w.op # "row"
    BY <1>6, <1>7, <2>1, <2>3 DEF Made
  <2> QED
    BY <2>2, <2>3
<1>9. CASE hydrated
  BY <1>2, <1>4, <1>8, <1>9 DEF Mirroring, Following
<1>10. CASE ~hydrated
  <2>1. \A i \in Ids : None(chain', RowOps(i)) /\ w \notin RowOps(i)
    BY <1>5, <1>10 DEF Mirroring, Untouched, None
  <2>2. disk'.rows = disk.rows
    <3>1. \A i \in Ids : disk'.rows[i] = disk.rows[i]
      BY <1>8, <2>1
    <3>2. disk'.rows \in [Ids -> Entry]
      BY <1>1, <1>2, <1>3, WrittenParts DEF Store
    <3> QED
      BY <1>1, <3>1, <3>2
  <2> QED
    BY <1>2, <1>10, <2>1, <2>2 DEF Mirroring, Untouched
<1> QED
  BY <1>9, <1>10

LEMMA MirroringHydrate ==
  ASSUME Mirroring, GInv, Hydrate
  PROVE  Mirroring'
<1>1. /\ ~hydrated /\ hydrated' = TRUE /\ chain' = chain /\ disk' = disk
      /\ snapshot' = IF \E i \in Ids : Row(snapshot[i]) # 0 THEN snapshot ELSE loaded.rows
  BY DEF Hydrate
<1>2. \A i \in Ids : Row(snapshot[i]) = 0
  BY <1>1, NoEntryTyped DEF Mirroring, Untouched
<1>3. snapshot' = disk.rows /\ \A i \in Ids : None(chain, RowOps(i))
  BY <1>1, <1>2 DEF Mirroring, Untouched
<1>4. \A i \in Ids : Last(chain', RowOps(i)) = {}
  BY <1>1, <1>3 DEF None, Last
<1> QED
  BY <1>1, <1>3, <1>4 DEF Mirroring, Following

LEMMA MirroringCrash ==
  ASSUME Crash
  PROVE  Mirroring'
<1>1. /\ chain' = <<>> /\ hydrated' = FALSE /\ loaded' = disk /\ disk' = disk
      /\ snapshot' = NoRows /\ flush' = Idle /\ list' = NoList
  BY DEF Crash
<1>2. DOMAIN chain' = {}
  BY <1>1
<1> QED
  BY <1>1, <1>2 DEF Mirroring, Untouched, None, Idle, NoList

LEMMA MirroringNext ==
  ASSUME MaxFaults = 0, ~Primes, Mirroring, GInv, [Next]_vars
  PROVE  Mirroring'
<1>1. faults = 0
  BY DEF GInv, TypeOK
<1>2. ~FailWrite /\ ~FailHydrate /\ ~PrimeHighlights
  BY <1>1 DEF FailWrite, FailHydrate, PrimeHighlights
<1>3. ASSUME UNCHANGED <<memory, chain, disk>>,
             hydrated \/ (flush'.phase \in {"idle", "claimed"} /\ list'.phase = "idle")
      PROVE  Mirroring'
  BY <1>3 DEF Mirroring, Following, Untouched, memory
<1>4. CASE StartFlush \/ Drain \/ SendHead \/ NoToken \/ Serve \/ Refuse \/ Retry \/ ServeStray
  <2>1. UNCHANGED <<memory, chain, disk, list>>
    BY <1>4 DEF StartFlush, Drain, SendHead, NoToken, Serve, Refuse, Retry, ServeStray
  <2>2. hydrated \/ flush'.phase \in {"idle", "claimed"}
    BY <1>4 DEF StartFlush, Drain, SendHead, NoToken, Serve, Refuse, Retry, ServeStray,
                Mirroring, Untouched, Idle, Claimed
  <2> QED
    BY <1>3, <2>1, <2>2 DEF Mirroring, Untouched
<1>5. CASE LoadAnnotations \/ AskList \/ AnswerList \/ DropList
  <2>1. UNCHANGED <<memory, chain, disk>>
    BY <1>5 DEF LoadAnnotations, AskList, AnswerList, DropList
  <2>2. hydrated
    BY <1>5 DEF LoadAnnotations, AskList, AnswerList, DropList, Mirroring, Untouched
  <2> QED
    BY <1>3, <2>1, <2>2
<1>6. CASE UNCHANGED vars
  <2>1. UNCHANGED <<memory, chain, disk, flush, list>>
    BY <1>6 DEF vars
  <2> QED
    BY <1>3, <2>1 DEF Mirroring, Untouched
<1> QED
  BY <1>2, <1>4, <1>5, <1>6, MirroringEdit, MirroringAcknowledge, MirroringWrite,
     MirroringHydrate, MirroringCrash, MirroringLists DEF Next

LEMMA MirroringInit ==
  ASSUME Init
  PROVE  Mirroring
<1>1. DOMAIN chain = {} /\ hydrated = FALSE
  BY DEF Init
<1> QED
  BY <1>1 DEF Init, Mirroring, Untouched, None, Idle, NoList, NoStore

\* Where no IndexedDB operation fails and nothing but the reader's page asks
\* for lists, the stored rows are the confirmed ones once the chain has caught
\* up, whatever edits, answers, lists and reloads came in between.
THEOREM RowsFollow == MaxFaults = 0 /\ ~Primes /\ Spec => []RowsMirrored
<1>1. GInv /\ Mirroring => RowsMirrored
  BY DEF RowsMirrored, Mirroring, Following, None, Content
<1>2. CASE MaxFaults = 0 /\ ~Primes
  <2>1. Init => Mirroring
    BY MirroringInit
  <2>2. GInv /\ Mirroring /\ [Next]_vars => Mirroring'
    BY <1>2, MirroringNext
  <2> QED
    BY <1>1, <2>1, <2>2, BucketInvariant, PTL DEF Spec
<1> QED
  BY <1>2

-----------------------------------------------------------------------------
(* What one tab sends, while it lives and no request outlives its client.  *)

\* No place is ahead of the reader.
LEMMA RowsKnown ==
  ASSUME GInv, NEW rows \in [Ids -> Entry], In(rows) \subseteq Known, NEW i \in Ids
  PROVE  /\ rows[i].n \in Nat /\ wish[i].n \in Nat /\ edits \in Nat
         /\ rows[i].n <= wish[i].n /\ wish[i].n <= edits
         /\ rows[i].n = wish[i].n /\ rows[i].n # 0 => rows[i].gone = wish[i].gone
<1>1. rows[i] \in Entry /\ wish[i] \in Entry /\ edits \in Nat
  BY BoundsAssumption DEF GInv, TypeOK
<1>2. rows[i].n \in Nat /\ wish[i].n \in Nat
  BY <1>1, BoundsAssumption DEF Entry
<1>3. CASE rows[i].n = 0
  BY <1>1, <1>2, <1>3 DEF GInv, WishWell
<1>4. CASE rows[i].n # 0
  <2>1. PICK m \in In(rows) : m.id = i /\ m.n = rows[i].n /\ m.gone = rows[i].gone
    BY <1>4, InTyped
  <2> QED
    BY <1>1, <1>2, <2>1 DEF GInv, KnownWell, WishWell
<1> QED
  BY <1>3, <1>4

\* The queue holds the last edit of a highlight or none.
QueueIsLast == \A m \in Range(pending) : m.n = wish[m.id].n

\* The server has nothing later than the mutation on its way ...
ServerBehind == flush.phase \in Active => server[flush.head.id].n <= flush.head.n

\* ... and has just that once it has said so.
Applied ==
  flush.phase = "answered" /\ flush.result = "ok" =>
    server[flush.head.id] = EntryOf(flush.head)

\* The last upsert of a highlight waits, has arrived or was refused.
Somewhere ==
  \A i \in Ids : wish[i].n # 0 /\ ~wish[i].gone =>
    \/ \E m \in Range(pending) : m.id = i /\ m.n = wish[i].n
    \/ server[i].n = wish[i].n
    \/ wish[i].n \in told

OneTab == loaded = NoStore /\ QueueIsLast /\ ServerBehind /\ Applied /\ Somewhere

FirstTab == strays = {} /\ (crashes = 0 => OneTab)

LEMMA TabEdit ==
  ASSUME GInv, OneTab, NEW id \in Ids, Upsert(id) \/ Delete(id)
  PROVE  OneTab'
<1>1. /\ TypeOK /\ pending \in Seq(Mutation) /\ wish \in [Ids -> Entry]
      /\ edits' = edits + 1 /\ edits' \in 1 .. MaxEdits
  BY BoundsAssumption DEF GInv, TypeOK, Upsert, Delete
<1>2. told' = told /\ server' = server /\ loaded' = loaded
  BY DEF Upsert, Delete
<1>3. PICK g \in BOOLEAN :
        /\ wish' = [wish EXCEPT ![id] = [n |-> edits', gone |-> g]]
        /\ \/ Enqueue([id |-> id, n |-> edits', gone |-> g])
           \/ g /\ pending' = Others(pending, id) /\ UNCHANGED flush
  BY DEF Upsert, Delete
<1> DEFINE m == [id |-> id, n |-> edits', gone |-> g]
<1>4. m \in Mutation /\ m.id = id /\ m.n = edits'
  BY <1>1 DEF Mutation
<1>5. \/ Enqueue(m)
      \/ g /\ pending' = Others(pending, id) /\ UNCHANGED flush
  BY <1>3
<1> HIDE DEF m
<1>6. wish'[id].n = edits' /\ wish'[id].gone = g /\ \A i \in Ids : i # id => wish'[i] = wish[i]
  BY <1>1, <1>3
<1>7. /\ \A o \in Range(pending') : o = m \/ (o \in Range(pending) /\ o.id # id)
      /\ \A o \in Range(pending) : o.id # id => o \in Range(pending')
      /\ m \in Range(pending') \/ g
      /\ flush' = flush \/ flush' = Claimed
  <2>1. CASE Enqueue(m)
    BY <1>4, <2>1, EnqueueTyped
  <2>2. CASE g /\ pending' = Others(pending, id) /\ UNCHANGED flush
    BY <1>1, <2>2, OthersRest
  <2> QED
    BY <1>5, <2>1, <2>2
<1>8. QueueIsLast'
  <2> SUFFICES ASSUME NEW o \in Range(pending') PROVE o.n = wish'[o.id].n
    BY DEF QueueIsLast
  <2>1. CASE o = m
    BY <1>4, <1>6, <2>1
  <2>2. CASE o \in Range(pending) /\ o.id # id
    <3>1. o.id \in Ids
      BY <1>1, <2>2, QueueRange, EntryTyped
    <3> QED
      BY <1>6, <2>2, <3>1 DEF OneTab, QueueIsLast
  <2> QED
    BY <1>7, <2>1, <2>2
<1>9. ServerBehind' /\ Applied'
  <2>1. CASE flush' = flush
    BY <1>2, <2>1 DEF OneTab, ServerBehind, Applied
  <2>2. CASE flush' = Claimed
    BY <2>2 DEF ServerBehind, Applied, Active, Claimed, Idle
  <2> QED
    BY <1>7, <2>1, <2>2
<1>10. Somewhere'
  <2> SUFFICES ASSUME NEW i \in Ids, wish'[i].n # 0, ~wish'[i].gone
               PROVE  \/ \E o \in Range(pending') : o.id = i /\ o.n = wish'[i].n
                      \/ server'[i].n = wish'[i].n
                      \/ wish'[i].n \in told'
    BY DEF Somewhere
  <2>1. CASE i = id
    BY <1>4, <1>6, <1>7, <2>1
  <2>2. CASE i # id
    BY <1>2, <1>6, <1>7, <2>2 DEF OneTab, Somewhere
  <2> QED
    BY <2>1, <2>2
<1> QED
  BY <1>2, <1>8, <1>9, <1>10 DEF OneTab

\* A mutation of the queue, being the last, is not behind the server.
LEMMA NextBehind ==
  ASSUME GInv, NEW q \in Seq(Mutation), Range(q) \subseteq Range(pending), QueueIsLast,
         flush' = NextHead(q), server' = server
  PROVE  ServerBehind' /\ Applied'
<1>1. CASE q = <<>>
  <2>1. flush' = Idle
    BY <1>1, NextHeadTyped
  <2> QED
    BY <2>1 DEF ServerBehind, Applied, Active, Idle
<1>2. CASE q # <<>>
  <2>1. /\ flush'.phase = "token" /\ flush'.head = Head(q)
        /\ Head(q) \in Range(pending) /\ Head(q) \in Mutation
    BY <1>2, NextHeadTyped
  <2>2. Head(q).id \in Ids /\ Head(q).n = wish[Head(q).id].n
    BY <2>1, EntryTyped DEF QueueIsLast
  <2>3. server \in [Ids -> Entry] /\ In(server) \subseteq Known
    BY DEF GInv, TypeOK, Known
  <2>4. server[Head(q).id].n <= Head(q).n
    BY <2>2, <2>3, RowsKnown
  <2> QED
    BY <2>1, <2>4 DEF ServerBehind, Applied
<1> QED
  BY <1>1, <1>2

LEMMA TabFlush ==
  ASSUME GInv, OneTab, StartFlush \/ Drain \/ SendHead \/ NoToken \/ Refuse \/ Retry
  PROVE  OneTab'
<1>1. UNCHANGED <<wish, told, loaded, pending, server>>
  BY DEF StartFlush, Drain, SendHead, NoToken, Refuse, Retry, memory
<1>2. loaded' = NoStore /\ QueueIsLast' /\ Somewhere'
  BY <1>1 DEF OneTab, QueueIsLast, Somewhere
<1>3. ServerBehind' /\ Applied'
  <2>1. CASE StartFlush \/ NoToken \/ Retry
    BY <2>1 DEF StartFlush, NoToken, Retry, ServerBehind, Applied, Active, Idle, Claimed
  <2>2. CASE Drain
    <3>1. pending \in Seq(Mutation) /\ flush' = NextHead(pending)
      BY <2>2 DEF GInv, TypeOK, Drain
    <3> QED
      BY <1>1, <3>1, NextBehind DEF OneTab
  <2>3. CASE SendHead \/ Refuse
    <3>1. /\ flush.phase \in Active /\ flush'.head = flush.head
          /\ flush'.phase = "sent" \/ flush'.result = "drop"
      <4>1. flush.phase \in Active
        BY <2>3 DEF SendHead, Refuse, Active
      <4>2. flush \in [phase : {"token", "sent", "answered"}, head : Mutation,
                       result : {"none", "ok", "drop"}]
        BY <4>1, FlushParts DEF GInv
      <4> QED
        BY <2>3, <4>1, <4>2 DEF SendHead, Refuse
    <3> QED
      BY <1>1, <3>1 DEF OneTab, ServerBehind, Applied
  <2> QED
    BY <2>1, <2>2, <2>3
<1> QED
  BY <1>2, <1>3 DEF OneTab

\* The server goes on to the mutation it was sent.
LEMMA ServeGrows ==
  ASSUME GInv, OneTab, Serve
  PROVE  /\ flush.head \in Mutation /\ flush.head.id \in Ids /\ flush.head \in Known
         /\ server'[flush.head.id] = EntryOf(flush.head)
         /\ server'[flush.head.id].n = flush.head.n
         /\ \A i \in Ids : i # flush.head.id => server'[i] = server[i]
         /\ \A i \in Ids : server[i].n <= server'[i].n
         /\ flush'.head = flush.head /\ flush'.phase = "answered" /\ flush'.result = "ok"
<1>1. /\ flush.phase \in Active /\ Apply(flush.head) /\ server \in [Ids -> Entry]
      /\ flush' = [flush EXCEPT !.phase = "answered", !.result = "ok"]
  BY DEF Serve, Active, GInv, TypeOK
<1>2. /\ flush.head \in Mutation /\ flush.head \in Known
      /\ flush \in [phase : {"token", "sent", "answered"}, head : Mutation,
                    result : {"none", "ok", "drop"}]
  BY <1>1, FlushParts DEF GInv, Known
<1>3. flush.head.id \in Ids /\ EntryOf(flush.head).n = flush.head.n
  BY <1>2, EntryTyped
<1>4. /\ server'[flush.head.id] = EntryOf(flush.head)
      /\ \A i \in Ids : i # flush.head.id => server'[i] = server[i]
  BY <1>1, <1>3 DEF Apply
<1>5. server[flush.head.id].n <= flush.head.n
  BY <1>1 DEF OneTab, ServerBehind
<1>6. \A i \in Ids : server[i].n \in Nat
  BY <1>1, RowsKnown DEF Known
<1>7. \A i \in Ids : server[i].n <= server'[i].n
  BY <1>3, <1>4, <1>5, <1>6
<1>8. flush'.head = flush.head /\ flush'.phase = "answered" /\ flush'.result = "ok"
  BY <1>1, <1>2
<1> QED
  BY <1>2, <1>3, <1>4, <1>7, <1>8

LEMMA TabServe ==
  ASSUME GInv, OneTab, Serve
  PROVE  OneTab'
<1> DEFINE h == flush.head
<1>1. UNCHANGED <<wish, told, loaded, pending>>
  BY DEF Serve, memory
<1>2. loaded' = NoStore /\ QueueIsLast'
  BY <1>1 DEF OneTab, QueueIsLast
<1>3. /\ h.id \in Ids /\ h \in Known /\ h \in Mutation /\ server'[h.id] = EntryOf(h)
      /\ server'[h.id].n = h.n
      /\ \A i \in Ids : i # h.id => server'[i] = server[i]
      /\ \A i \in Ids : server[i].n <= server'[i].n
      /\ flush'.head = h
  BY ServeGrows
<1>4. h.n \in Nat /\ h.n <= wish[h.id].n /\ wish[h.id].n \in Nat /\ server[h.id].n \in Nat
  <2>1. server \in [Ids -> Entry] /\ In(server) \subseteq Known
    BY DEF GInv, TypeOK, Known
  <2>2. h.n \in Nat
    BY <1>3, EntryTyped
  <2> QED
    BY <1>3, <2>1, <2>2, RowsKnown DEF GInv, KnownWell
<1> HIDE DEF h
<1>5. ServerBehind' /\ Applied'
  BY <1>3, <1>4 DEF ServerBehind, Applied
<1>6. Somewhere'
  <2> SUFFICES ASSUME NEW i \in Ids, server[i].n = wish[i].n
               PROVE  server'[i].n = wish[i].n
    BY <1>1 DEF OneTab, Somewhere
  <2>1. CASE i = h.id
    BY <1>3, <1>4, <2>1
  <2>2. CASE i # h.id
    BY <1>3, <2>2
  <2> QED
    BY <2>1, <2>2
<1> QED
  BY <1>2, <1>5, <1>6 DEF OneTab

\* What an answer takes out of the queue has arrived or was refused.
LEMMA TabAcknowledge ==
  ASSUME GInv, OneTab, Acknowledge
  PROVE  OneTab'
<1> DEFINE h == flush.head
           left == Without(pending, h)
<1>1. TypeOK /\ pending \in Seq(Mutation)
  BY DEF GInv, TypeOK
<1>2. /\ flush.phase = "answered" /\ pending' = left /\ flush' = NextHead(left)
      /\ wish' = wish /\ loaded' = loaded /\ server' = server
      /\ \/ flush.result = "ok" /\ told' = told
         \/ flush.result = "drop" /\ told' = told \cup {h.n}
  BY DEF Acknowledge, Finish, Without
<1>3. h \in Mutation /\ EntryOf(h).n = h.n
  BY <1>1, <1>2, FlushParts, EntryTyped DEF Active
<1>4. left \in Seq(Mutation) /\ Range(left) = Range(pending) \ {h}
  BY <1>1, WithoutRest
<1> HIDE DEF h, left
<1>5. ServerBehind' /\ Applied'
  BY <1>2, <1>4, NextBehind DEF OneTab
<1>6. QueueIsLast'
  BY <1>2, <1>4 DEF OneTab, QueueIsLast
<1>7. flush.result = "ok" => server[h.id].n = h.n
  BY <1>2, <1>3 DEF OneTab, Applied, h
<1>8. Somewhere'
  <2> SUFFICES ASSUME NEW i \in Ids, wish[i].n # 0, ~wish[i].gone
               PROVE  \/ \E m \in Range(left) : m.id = i /\ m.n = wish[i].n
                      \/ server[i].n = wish[i].n
                      \/ wish[i].n \in told'
    BY <1>2 DEF Somewhere
  <2>1. told \subseteq told'
    BY <1>2
  <2>2. CASE h.id = i /\ h.n = wish[i].n
    BY <1>2, <1>7, <2>2
  <2>3. CASE ~(h.id = i /\ h.n = wish[i].n)
    BY <1>4, <2>1, <2>3 DEF OneTab, Somewhere
  <2> QED
    BY <2>2, <2>3
<1> QED
  BY <1>2, <1>5, <1>6, <1>8 DEF OneTab

\* A first tab finds nothing stored.
LEMMA TabHydrate ==
  ASSUME GInv, OneTab, Hydrate \/ FailHydrate
  PROVE  OneTab' /\ Range(pending') = Range(pending)
<1>1. /\ wish' = wish /\ told' = told /\ server' = server /\ flush' = flush
      /\ loaded' = NoStore /\ (pending' = Restored \o pending \/ pending' = pending)
  BY DEF Hydrate, FailHydrate
<1>2. \A i \in Ids : loaded.queue[i].n = 0
  BY NoEntryTyped DEF OneTab, NoStore
<1>3. Range(Restored) = {}
  BY <1>2, RestoredQueue DEF Unreplaced
<1>4. Range(pending') = Range(pending)
  BY <1>1, <1>3, RestoredQueue
<1> QED
  BY <1>1, <1>4 DEF OneTab, QueueIsLast, ServerBehind, Applied, Somewhere

LEMMA TabRest ==
  ASSUME OneTab,
         \/ LoadAnnotations \/ AskList \/ PrimeHighlights \/ AnswerList \/ ApplyList
         \/ DropList \/ RunWrite \/ FailWrite \/ UNCHANGED vars
  PROVE  OneTab'
<1>1. /\ wish' = wish /\ told' = told /\ server' = server /\ loaded' = loaded
      /\ pending' = pending
  BY DEF LoadAnnotations, AskList, PrimeHighlights, AnswerList, ApplyList, DropList, RunWrite,
         FailWrite, vars, memory
<1>2. flush' = flush \/ flush' = Claimed
  BY DEF LoadAnnotations, AskList, PrimeHighlights, AnswerList, ApplyList, DropList, RunWrite,
         FailWrite, vars, Kick
<1>3. ServerBehind' /\ Applied'
  <2>1. CASE flush' = flush
    BY <1>1, <2>1 DEF OneTab, ServerBehind, Applied
  <2>2. CASE flush' = Claimed
    BY <2>2 DEF ServerBehind, Applied, Active, Claimed, Idle
  <2> QED
    BY <1>2, <2>1, <2>2
<1> QED
  BY <1>1, <1>3 DEF OneTab, QueueIsLast, Somewhere

\* Which steps serve a request late, and which end a tab.
LEMMA NoStrays ==
  ASSUME MaxStray = 0, strays = {}, [Next]_vars
  PROVE  strays' = {} /\ ~ServeStray
<1>1. Cardinality(strays) = 0
  BY FS_EmptySet
<1>2. ~(Cardinality(strays) < MaxStray)
  BY <1>1
<1>3. MayStray => strays' = {}
  BY <1>2 DEF MayStray
<1>4. ~ServeStray
  BY DEF ServeStray
<1>5. strays' = {}
  BY <1>3, <1>4 DEF Next, Upsert, Delete, StartFlush, Drain, SendHead, NoToken, Serve, Refuse,
     Retry, Acknowledge, Finish, LoadAnnotations, AskList, PrimeHighlights, AnswerList,
     ApplyList, DropList, RunWrite, FailWrite, Hydrate, FailHydrate, Crash, vars
<1> QED
  BY <1>4, <1>5

LEMMA StillAlive ==
  ASSUME GInv, [Next]_vars, crashes' = 0
  PROVE  crashes = 0 /\ ~Crash
<1>1. crashes \in Nat
  BY BoundsAssumption DEF GInv, TypeOK
<1>2. ~Crash
  BY <1>1 DEF Crash
<1>3. crashes' = crashes
  BY <1>2 DEF Next, Upsert, Delete, StartFlush, Drain, SendHead, NoToken, Serve, Refuse,
     Retry, ServeStray, Acknowledge, Finish, LoadAnnotations, AskList, PrimeHighlights,
     AnswerList, ApplyList, DropList, RunWrite, FailWrite, Hydrate, FailHydrate, vars, bounds
<1> QED
  BY <1>2, <1>3

LEMMA FirstTabNext ==
  ASSUME MaxStray = 0, GInv, FirstTab, [Next]_vars
  PROVE  FirstTab'
<1>1. strays' = {} /\ ~ServeStray
  BY NoStrays DEF FirstTab
<1>2. ASSUME crashes' = 0 PROVE OneTab'
  <2>1. crashes = 0 /\ ~Crash /\ OneTab
    BY <1>2, StillAlive DEF FirstTab
  <2> QED
    BY <1>1, <2>1, TabEdit, TabFlush, TabServe, TabAcknowledge, TabHydrate, TabRest DEF Next
<1> QED
  BY <1>1, <1>2 DEF FirstTab

LEMMA FirstTabInit ==
  ASSUME Init
  PROVE  FirstTab
<1>1. Range(pending) = {} /\ flush.phase = "idle" /\ loaded = NoStore /\ strays = {}
  BY EmptyQueue DEF Init, Idle
<1>2. \A i \in Ids : wish[i].n = 0
  BY NoEntryTyped DEF Init
<1> QED
  BY <1>1, <1>2 DEF FirstTab, OneTab, QueueIsLast, ServerBehind, Applied, Somewhere, Active

\* While the tab lives and no request outlives its client, the server never
\* goes back on a highlight.
LEMMA ServerGrows ==
  ASSUME MaxStray = 0, GInv, FirstTab, crashes = 0, [Next]_vars
  PROVE  \A i \in Ids : server'[i].n >= server[i].n
<1>1. OneTab /\ ~ServeStray
  BY NoStrays DEF FirstTab
<1>2. \A i \in Ids : server[i].n \in Nat
  BY RowsKnown DEF GInv, TypeOK, Known
<1>3. CASE Serve
  <2>1. \A i \in Ids : server[i].n <= server'[i].n
    BY <1>1, <1>3, ServeGrows
  <2>2. \A i \in Ids : server'[i].n \in Nat
    BY <1>2, <1>1, <1>3, ServeGrows, EntryTyped
  <2> QED
    BY <1>2, <2>1, <2>2
<1>4. CASE ~Serve
  <2>1. server' = server
    BY <1>1, <1>4 DEF Next, Upsert, Delete, StartFlush, Drain, SendHead, NoToken, Refuse,
       Retry, Acknowledge, Finish, LoadAnnotations, AskList, PrimeHighlights, AnswerList,
       ApplyList, DropList, RunWrite, FailWrite, Hydrate, FailHydrate, Crash, vars
  <2> QED
    BY <1>2, <2>1
<1> QED
  BY <1>3, <1>4

\* Where no request outlives its client, no edit is lost in silence: whatever
\* is coalesced, sent, retried, refused, listed or fails to be stored, the last
\* upsert of each highlight is queued, on the server or known to have failed.
THEOREM NoEditLost == MaxStray = 0 /\ Spec => []EditsKept
<1>1. FirstTab => EditsKept
  BY DEF FirstTab, OneTab, Somewhere, EditsKept
<1>2. CASE MaxStray = 0
  <2>1. Init => FirstTab
    BY FirstTabInit
  <2>2. GInv /\ FirstTab /\ [Next]_vars => FirstTab'
    BY <1>2, FirstTabNext
  <2> QED
    BY <1>1, <2>1, <2>2, BucketInvariant, PTL DEF Spec
<1> QED
  BY <1>2

\* ... and the server takes the edits of each highlight in the order they were
\* made, retries and coalescing included.
THEOREM AppliedInOrder == MaxStray = 0 /\ Spec => InOrder
<1>1. CASE MaxStray = 0
  <2>1. Init => FirstTab
    BY FirstTabInit
  <2>2. GInv /\ FirstTab /\ [Next]_vars => FirstTab'
    BY <1>1, FirstTabNext
  <2>3. GInv /\ FirstTab /\ [Next]_vars =>
          [crashes = 0 => \A i \in Ids : server'[i].n >= server[i].n]_<<server, crashes>>
    BY <1>1, ServerGrows
  <2> QED
    BY <2>1, <2>2, <2>3, BucketInvariant, PTL DEF Spec, InOrder
<1> QED
  BY <1>1

-----------------------------------------------------------------------------
(* What the page shows, where only the reader's page asks for lists.       *)

\* Every list is the page's own.
AllFenced == list.phase # "idle" => list.fenced

\* Nothing is confirmed that the server does not have.
Behind == \A i \in Ids : snapshot[i].n <= server[i].n

\* A list is from the server, and a fresh one has all that is confirmed.
ListBetween ==
  list.phase = "answered" =>
    \A i \in Ids : /\ list.rows[i].n <= server[i].n
                   /\ list.fresh => snapshot[i].n <= list.rows[i].n

\* The last upsert of a highlight waits, is confirmed or was refused.
Visible ==
  \A i \in Ids : wish[i].n # 0 /\ ~wish[i].gone /\ wish[i].n \notin told =>
    \/ \E m \in Range(pending) : m.id = i /\ m.n = wish[i].n
    \/ snapshot[i].n = wish[i].n

Page == AllFenced /\ Behind /\ ListBetween /\ Visible

FirstPage == FirstTab /\ (crashes = 0 => Page)

\* What a table or a list says of a highlight are numbers.
LEMMA NumbersKnown ==
  ASSUME GInv, NEW i \in Ids
  PROVE  /\ snapshot[i].n \in Nat /\ server[i].n \in Nat /\ list.rows[i].n \in Nat
         /\ wish[i].n \in Nat
         /\ snapshot[i].n <= wish[i].n /\ server[i].n <= wish[i].n /\ list.rows[i].n <= wish[i].n
<1>1. snapshot \in [Ids -> Entry] /\ server \in [Ids -> Entry] /\ list.rows \in [Ids -> Entry]
  BY TouchedTyped DEF GInv, TypeOK
<1>2. In(snapshot) \subseteq Known /\ In(server) \subseteq Known /\ In(list.rows) \subseteq Known
  BY DEF Known
<1> QED
  BY <1>1, <1>2, RowsKnown

\* A step that leaves the confirmed rows and the server alone, and no list
\* fresher than it was.
LEMMA PageKept ==
  ASSUME GInv, Page, snapshot' = snapshot, server' = server,
         \/ list' = list \/ list' = Touched
         \/ list'.phase # "answered" /\ (list'.phase = "idle" \/ list'.fenced)
  PROVE  AllFenced' /\ Behind' /\ ListBetween'
<1>1. CASE list' = list
  BY <1>1 DEF Page, AllFenced, Behind, ListBetween
<1>2. CASE list' = Touched
  <2>1. /\ list'.phase = list.phase /\ list'.fenced = list.fenced /\ list'.fresh = FALSE
        /\ list'.rows = list.rows
    BY <1>2, TouchedTyped DEF GInv
  <2> QED
    BY <2>1 DEF Page, AllFenced, Behind, ListBetween
<1>3. CASE list'.phase # "answered" /\ (list'.phase = "idle" \/ list'.fenced)
  BY <1>3 DEF Page, AllFenced, Behind, ListBetween
<1> QED
  BY <1>1, <1>2, <1>3

LEMMA PageEdit ==
  ASSUME GInv, Page, NEW id \in Ids, Upsert(id) \/ Delete(id)
  PROVE  Page'
<1>1. /\ pending \in Seq(Mutation) /\ wish \in [Ids -> Entry]
      /\ edits' = edits + 1 /\ edits' \in 1 .. MaxEdits
  BY BoundsAssumption DEF GInv, TypeOK, Upsert, Delete
<1>2. told' = told /\ server' = server /\ snapshot' = snapshot /\ list' = Touched
  BY DEF Upsert, Delete
<1>3. PICK g \in BOOLEAN :
        /\ wish' = [wish EXCEPT ![id] = [n |-> edits', gone |-> g]]
        /\ \/ Enqueue([id |-> id, n |-> edits', gone |-> g])
           \/ g /\ pending' = Others(pending, id)
  BY DEF Upsert, Delete
<1> DEFINE m == [id |-> id, n |-> edits', gone |-> g]
<1>4. m \in Mutation /\ m.id = id /\ m.n = edits'
  BY <1>1 DEF Mutation
<1>5. Enqueue(m) \/ (g /\ pending' = Others(pending, id))
  BY <1>3
<1> HIDE DEF m
<1>6. wish'[id].n = edits' /\ wish'[id].gone = g /\ \A i \in Ids : i # id => wish'[i] = wish[i]
  BY <1>1, <1>3
<1>7. /\ \A o \in Range(pending) : o.id # id => o \in Range(pending')
      /\ m \in Range(pending') \/ g
  <2>1. CASE Enqueue(m)
    BY <1>4, <2>1, EnqueueTyped
  <2>2. CASE g /\ pending' = Others(pending, id)
    BY <1>1, <2>2, OthersRest
  <2> QED
    BY <1>5, <2>1, <2>2
<1>8. Visible'
  <2> SUFFICES ASSUME NEW i \in Ids, wish'[i].n # 0, ~wish'[i].gone, wish'[i].n \notin told'
               PROVE  \/ \E o \in Range(pending') : o.id = i /\ o.n = wish'[i].n
                      \/ snapshot'[i].n = wish'[i].n
    BY DEF Visible
  <2>1. CASE i = id
    BY <1>4, <1>6, <1>7, <2>1
  <2>2. CASE i # id
    BY <1>2, <1>6, <1>7, <2>2 DEF Page, Visible
  <2> QED
    BY <2>1, <2>2
<1> QED
  BY <1>2, <1>8, PageKept DEF Page

LEMMA PageFlush ==
  ASSUME GInv, Page, StartFlush \/ Drain \/ SendHead \/ NoToken \/ Refuse \/ Retry
  PROVE  Page'
<1>1. UNCHANGED <<wish, told, pending, snapshot, server, list>>
  BY DEF StartFlush, Drain, SendHead, NoToken, Refuse, Retry, memory
<1> QED
  BY <1>1, PageKept DEF Page, Visible

LEMMA PageServe ==
  ASSUME GInv, OneTab, Page, Serve
  PROVE  Page'
<1>1. UNCHANGED <<wish, told, pending, snapshot, list>>
  BY DEF Serve, memory
<1>2. \A i \in Ids : server[i].n <= server'[i].n
  BY ServeGrows
<1>3. GInv'
  BY GServe
<1>4. \A i \in Ids : /\ server[i].n \in Nat /\ server'[i].n \in Nat /\ snapshot[i].n \in Nat
                     /\ list.rows[i].n \in Nat
  <2>1. \A i \in Ids : server[i].n \in Nat /\ snapshot[i].n \in Nat /\ list.rows[i].n \in Nat
    BY NumbersKnown
  <2>2. server' \in [Ids -> Entry]
    BY <1>3 DEF GInv, TypeOK
  <2>3. \A i \in Ids : server'[i].n \in Nat
    BY <2>2, BoundsAssumption DEF Entry
  <2> QED
    BY <2>1, <2>3
<1>5. Behind'
  <2> SUFFICES ASSUME NEW i \in Ids PROVE snapshot[i].n <= server'[i].n
    BY <1>1 DEF Behind
  <2>1. snapshot[i].n <= server[i].n
    BY DEF Page, Behind
  <2> QED
    BY <1>2, <1>4, <2>1
<1>6. ListBetween'
  <2> SUFFICES ASSUME list.phase = "answered", NEW i \in Ids
               PROVE  /\ list.rows[i].n <= server'[i].n
                      /\ list.fresh => snapshot[i].n <= list.rows[i].n
    BY <1>1 DEF ListBetween
  <2>1. list.rows[i].n <= server[i].n /\ (list.fresh => snapshot[i].n <= list.rows[i].n)
    BY DEF Page, ListBetween
  <2> QED
    BY <1>2, <1>4, <2>1
<1> QED
  BY <1>1, <1>5, <1>6 DEF Page, AllFenced, Visible

\* An acknowledged mutation moves from the queue to the confirmed rows.
LEMMA PageAcknowledge ==
  ASSUME GInv, OneTab, Page, Acknowledge
  PROVE  Page'
<1> DEFINE h == flush.head
           left == Without(pending, h)
<1>1. TypeOK /\ pending \in Seq(Mutation) /\ snapshot \in [Ids -> Entry]
  BY DEF GInv, TypeOK
<1>2. /\ flush.phase = "answered" /\ pending' = left /\ list' = Touched
      /\ wish' = wish /\ server' = server
      /\ \/ /\ flush.result = "ok" /\ told' = told
            /\ snapshot' = [snapshot EXCEPT ![h.id] = EntryOf(h)]
         \/ flush.result = "drop" /\ told' = told \cup {h.n} /\ snapshot' = snapshot
  BY DEF Acknowledge, Finish, Without
<1>3. h \in Mutation /\ EntryOf(h).n = h.n /\ h.id \in Ids /\ h \in Known
  BY <1>1, <1>2, FlushParts, EntryTyped DEF Active, Known
<1>4. Range(left) = Range(pending) \ {h}
  BY <1>1, WithoutRest
<1>5. flush.result = "ok" => server[h.id].n = h.n
  BY <1>2, <1>3 DEF OneTab, Applied
<1>6. h.n \in Nat /\ h.n <= wish[h.id].n
  <2>1. h.n \in Nat
    BY <1>3, EntryTyped
  <2> QED
    BY <1>3, <2>1 DEF GInv, KnownWell
<1> HIDE DEF h, left
<1>7. /\ list'.phase = list.phase /\ list'.fenced = list.fenced /\ list'.fresh = FALSE
      /\ list'.rows = list.rows
  BY <1>1, <1>2, TouchedTyped
<1>8. CASE flush.result = "drop" /\ told' = told \cup {h.n} /\ snapshot' = snapshot
  <2>1. AllFenced' /\ Behind' /\ ListBetween'
    BY <1>2, <1>8, PageKept
  <2>2. Visible'
    <3> SUFFICES ASSUME NEW i \in Ids, wish[i].n # 0, ~wish[i].gone, wish[i].n \notin told'
                 PROVE  \/ \E m \in Range(left) : m.id = i /\ m.n = wish[i].n
                        \/ snapshot[i].n = wish[i].n
      BY <1>2, <1>8 DEF Visible
    <3>1. wish[i].n \notin told /\ wish[i].n # h.n
      BY <1>8
    <3> QED
      BY <1>4, <3>1 DEF Page, Visible
  <2> QED
    BY <2>1, <2>2 DEF Page
<1>9. CASE /\ flush.result = "ok" /\ told' = told
           /\ snapshot' = [snapshot EXCEPT ![h.id] = EntryOf(h)]
  <2>1. snapshot'[h.id].n = h.n /\ \A i \in Ids : i # h.id => snapshot'[i] = snapshot[i]
    BY <1>1, <1>3, <1>9
  <2>2. server[h.id].n = h.n
    BY <1>5, <1>9
  <2>3. Behind'
    <3> SUFFICES ASSUME NEW i \in Ids PROVE snapshot'[i].n <= server[i].n
      BY <1>2 DEF Behind
    <3>1. CASE i = h.id
      BY <1>6, <2>1, <2>2, <3>1
    <3>2. CASE i # h.id
      BY <2>1, <3>2 DEF Page, Behind
    <3> QED
      BY <3>1, <3>2
  <2>4. AllFenced' /\ ListBetween'
    BY <1>2, <1>7 DEF Page, AllFenced, ListBetween
  <2>5. Visible'
    <3> SUFFICES ASSUME NEW i \in Ids, wish[i].n # 0, ~wish[i].gone, wish[i].n \notin told
                 PROVE  \/ \E m \in Range(left) : m.id = i /\ m.n = wish[i].n
                        \/ snapshot'[i].n = wish[i].n
      BY <1>2, <1>9 DEF Visible
    <3>1. CASE \E m \in Range(pending) : m.id = i /\ m.n = wish[i].n
      BY <1>4, <2>1, <3>1
    <3>2. CASE snapshot[i].n = wish[i].n /\ i = h.id
      <4>1. snapshot[i].n <= server[i].n
        BY DEF Page, Behind
      <4>2. wish[i].n \in Nat
        BY NumbersKnown
      <4>3. wish[i].n = h.n
        BY <1>6, <2>2, <3>2, <4>1, <4>2
      <4> QED
        BY <2>1, <3>2, <4>3
    <3>3. CASE snapshot[i].n = wish[i].n /\ i # h.id
      BY <2>1, <3>3
    <3> QED
      BY <3>1, <3>2, <3>3 DEF Page, Visible
  <2> QED
    BY <2>3, <2>4, <2>5 DEF Page
<1> QED
  BY <1>2, <1>8, <1>9

\* A fresh list shows again what is confirmed.
LEMMA PageApplyList ==
  ASSUME GInv, OneTab, Page, ApplyList
  PROVE  Page' /\ \A i \in Ids : snapshot[i].n <= snapshot'[i].n
<1>1. /\ list.phase = "answered" /\ (list.fenced => list.fresh) /\ snapshot' = list.rows
      /\ list' = NoList /\ UNCHANGED <<wish, told, pending, server>>
  BY DEF ApplyList
<1>2. list.fresh
  BY <1>1 DEF Page, AllFenced
<1>3. \A i \in Ids : list.rows[i].n <= server[i].n /\ snapshot[i].n <= list.rows[i].n
  BY <1>1, <1>2 DEF Page, ListBetween
<1>4. Behind' /\ AllFenced' /\ ListBetween'
  BY <1>1, <1>3 DEF Behind, AllFenced, ListBetween, NoList
<1>5. Visible'
  <2> SUFFICES ASSUME NEW i \in Ids, snapshot[i].n = wish[i].n
               PROVE  list.rows[i].n = wish[i].n
    BY <1>1 DEF Page, Visible
  <2>1. list.rows[i].n \in Nat /\ wish[i].n \in Nat /\ list.rows[i].n <= wish[i].n
    BY NumbersKnown
  <2> QED
    BY <1>3, <2>1
<1> QED
  BY <1>1, <1>3, <1>4, <1>5 DEF Page

LEMMA PageLists ==
  ASSUME GInv, Page, LoadAnnotations \/ AskList \/ AnswerList \/ DropList
  PROVE  Page' /\ snapshot' = snapshot
<1>1. UNCHANGED <<wish, told, pending, snapshot, server>> /\ list \in Lists
  BY TouchedTyped DEF LoadAnnotations, AskList, AnswerList, DropList, memory, GInv
<1>2. CASE LoadAnnotations \/ AskList \/ DropList
  <2>1. list'.phase # "answered" /\ (list'.phase = "idle" \/ list'.fenced)
    <3>1. CASE LoadAnnotations
      BY <3>1 DEF LoadAnnotations, NoList
    <3>2. CASE AskList
      <4>1. list.fenced /\ list' = [list EXCEPT !.phase = "asked", !.fresh = TRUE]
        BY <3>2 DEF AskList, Page, AllFenced
      <4> QED
        BY <1>1, <4>1 DEF Lists
    <3>3. CASE DropList
      BY <3>3 DEF DropList, NoList
    <3> QED
      BY <1>2, <3>1, <3>2, <3>3
  <2> QED
    BY <1>1, <2>1, PageKept DEF Page, Visible
<1>3. CASE AnswerList
  <2>1. /\ list.phase = "asked"
        /\ list' = [list EXCEPT !.phase = "answered", !.rows = server]
    BY <1>3 DEF AnswerList
  <2>2. list'.phase = "answered" /\ list'.rows = server /\ list'.fenced = list.fenced
    BY <1>1, <2>1 DEF Lists
  <2>3. \A i \in Ids : server[i].n \in Nat /\ snapshot[i].n <= server[i].n
    BY NumbersKnown DEF Page, Behind
  <2>4. AllFenced' /\ Behind' /\ ListBetween'
    BY <1>1, <2>1, <2>2, <2>3 DEF Page, AllFenced, Behind, ListBetween
  <2> QED
    BY <1>1, <2>4 DEF Page, Visible
<1> QED
  BY <1>1, <1>2, <1>3

LEMMA PageHydrate ==
  ASSUME GInv, OneTab, Page, Hydrate \/ FailHydrate
  PROVE  Page'
<1>1. /\ wish' = wish /\ told' = told /\ server' = server
      /\ Range(pending') = Range(pending)
  BY TabHydrate DEF Hydrate, FailHydrate
<1>2. CASE FailHydrate
  <2>1. snapshot' = snapshot /\ list' = list
    BY <1>2 DEF FailHydrate
  <2>2. AllFenced' /\ Behind' /\ ListBetween'
    BY <1>1, <2>1, PageKept
  <2> QED
    BY <1>1, <2>1, <2>2 DEF Page, Visible
<1>3. CASE Hydrate
  <2>1. /\ list' = Touched
        /\ snapshot' = IF \E i \in Ids : Row(snapshot[i]) # 0 THEN snapshot ELSE NoRows
    BY <1>3 DEF Hydrate, OneTab, NoStore
  <2>2. /\ list'.phase = list.phase /\ list'.fenced = list.fenced /\ list'.fresh = FALSE
        /\ list'.rows = list.rows
    BY <2>1, TouchedTyped DEF GInv
  <2>3. AllFenced' /\ ListBetween'
    BY <1>1, <2>2 DEF Page, AllFenced, ListBetween
  <2>4. Behind'
    <3> SUFFICES ASSUME NEW i \in Ids PROVE snapshot'[i].n <= server[i].n
      BY <1>1 DEF Behind
    <3>1. snapshot[i].n <= server[i].n /\ server[i].n \in Nat
      BY NumbersKnown DEF Page, Behind
    <3>2. NoRows[i].n = 0
      BY NoEntryTyped
    <3> QED
      BY <2>1, <3>1, <3>2
  <2>5. Visible'
    <3> SUFFICES ASSUME NEW i \in Ids, wish[i].n # 0, ~wish[i].gone, snapshot[i].n = wish[i].n
                 PROVE  snapshot'[i].n = wish[i].n
      BY <1>1 DEF Page, Visible
    <3>1. snapshot \in [Ids -> Entry] /\ In(snapshot) \subseteq Known
      BY DEF GInv, TypeOK, Known
    <3>2. snapshot[i].gone = wish[i].gone
      BY <3>1, RowsKnown
    <3>3. Row(snapshot[i]) # 0
      BY <3>2 DEF Row
    <3> QED
      BY <2>1, <3>3
  <2> QED
    BY <2>3, <2>4, <2>5 DEF Page
<1> QED
  BY <1>2, <1>3

LEMMA PageRest ==
  ASSUME GInv, Page, RunWrite \/ FailWrite \/ UNCHANGED vars
  PROVE  Page'
<1>1. UNCHANGED <<wish, told, pending, snapshot, server, list>>
  BY DEF RunWrite, FailWrite, vars, memory
<1> QED
  BY <1>1, PageKept DEF Page, Visible

LEMMA FirstPageNext ==
  ASSUME MaxStray = 0, ~Primes, GInv, FirstPage, [Next]_vars
  PROVE  FirstPage'
<1>1. FirstTab'
  BY FirstTabNext DEF FirstPage
<1>2. ~ServeStray /\ ~PrimeHighlights
  BY NoStrays DEF FirstPage, FirstTab, PrimeHighlights
<1>3. ASSUME crashes' = 0 PROVE Page'
  <2>1. crashes = 0 /\ ~Crash /\ OneTab /\ Page
    BY <1>3, StillAlive DEF FirstPage, FirstTab
  <2> QED
    BY <1>2, <2>1, PageEdit, PageFlush, PageServe, PageAcknowledge, PageApplyList, PageLists,
       PageHydrate, PageRest DEF Next
<1> QED
  BY <1>1, <1>3 DEF FirstPage

LEMMA FirstPageInit ==
  ASSUME Init
  PROVE  FirstPage
<1>1. list.phase = "idle" /\ \A i \in Ids : /\ wish[i].n = 0 /\ snapshot[i].n = 0
                                            /\ server[i].n = 0
  BY NoEntryTyped DEF Init, NoList
<1> QED
  BY <1>1, FirstTabInit DEF FirstPage, Page, AllFenced, Behind, ListBetween, Visible

\* A list that ends never takes a highlight back.
LEMMA ListEnds ==
  ASSUME MaxStray = 0, ~Primes, GInv, FirstPage, [Next]_vars, crashes' = 0,
         list.phase = "answered", list'.phase = "idle"
  PROVE  \A i \in Ids : snapshot'[i].n >= snapshot[i].n
<1>1. ~ServeStray /\ ~PrimeHighlights
  BY NoStrays DEF FirstPage, FirstTab, PrimeHighlights
<1>2. crashes = 0 /\ ~Crash /\ OneTab /\ Page
  BY StillAlive DEF FirstPage, FirstTab
<1>3. \A i \in Ids : snapshot[i].n \in Nat /\ list.rows[i].n \in Nat
  BY NumbersKnown
<1>4. CASE ApplyList
  <2>1. \A i \in Ids : snapshot[i].n <= snapshot'[i].n
    BY <1>2, <1>4, PageApplyList
  <2>2. snapshot' = list.rows
    BY <1>4 DEF ApplyList
  <2> QED
    BY <1>3, <2>1, <2>2
<1>5. CASE DropList
  <2>1. snapshot' = snapshot
    BY <1>5 DEF DropList, memory
  <2> QED
    BY <1>3, <2>1
<1>6. CASE ~ApplyList /\ ~DropList
  <2>1. Touched.phase = "answered"
    BY TouchedTyped DEF GInv
  <2>2. list' # list /\ list' # Touched
    BY <2>1
  <2>3. FALSE
    BY <1>1, <1>2, <1>6, <2>2 DEF Next, Upsert, Delete, StartFlush, Drain, SendHead, NoToken,
       Serve, Refuse, Retry, Acknowledge, Finish, LoadAnnotations, AskList, AnswerList,
       RunWrite, FailWrite, Hydrate, FailHydrate, vars
  <2> QED
    BY <2>3
<1> QED
  BY <1>4, <1>5, <1>6

\* Until the reader changes it again or is told of a failure, a highlight is on
\* the page as it was last written.
ShownAsWritten ==
  crashes = 0 => \A i \in Ids : ~wish[i].gone /\ wish[i].n \notin told => Shown(i) = wish[i].n

LEMMA ShownWish ==
  ASSUME GInv, FirstPage
  PROVE  ShownAsWritten
<1> SUFFICES ASSUME crashes = 0, NEW i \in Ids, ~wish[i].gone, wish[i].n \notin told
             PROVE  Shown(i) = wish[i].n
  BY DEF ShownAsWritten
<1>1. OneTab /\ Page
  BY DEF FirstPage, FirstTab
<1> DEFINE mine == {m \in Range(pending) : m.id = i}
           best == CHOOSE m \in mine : \A o \in mine : o.n <= m.n
<1>2. Shown(i) = Row(IF mine = {} THEN snapshot[i] ELSE EntryOf(best))
  BY DEF Shown
<1>3. Range(pending) \subseteq Mutation /\ Range(pending) \subseteq Known
  BY QueueRange DEF GInv, TypeOK, Known
<1>4. snapshot[i].n \in Nat /\ wish[i].n \in Nat /\ snapshot[i].n <= wish[i].n
  BY NumbersKnown
<1>5. ASSUME NEW m \in mine
      PROVE  /\ m.n = wish[i].n /\ 0 < m.n /\ m.gone = FALSE
             /\ Row(EntryOf(m)) = wish[i].n
  <2>1. m \in Mutation /\ m \in Known /\ m \in Range(pending) /\ m.id = i
    BY <1>3
  <2>2. m.n = wish[i].n
    BY <1>1, <2>1 DEF OneTab, QueueIsLast
  <2>3. 0 < m.n /\ m.gone = wish[i].gone
    BY <2>1, <2>2 DEF GInv, KnownWell
  <2>4. m.gone = FALSE
    BY <2>1, <2>3, EntryTyped
  <2> QED
    BY <2>1, <2>2, <2>3, <2>4, EntryTyped
<1>6. CASE mine # {}
  <2>1. PICK m \in mine : TRUE
    BY <1>6
  <2>2. \A o \in mine : o.n <= m.n
    <3> SUFFICES ASSUME NEW o \in mine PROVE o.n <= m.n
      OBVIOUS
    <3>1. o.n = wish[i].n /\ m.n = wish[i].n
      BY <1>5
    <3> QED
      BY <1>4, <3>1
  <2> HIDE DEF mine
  <2>3. best \in mine
    BY <2>1, <2>2
  <2> HIDE DEF best
  <2> QED
    BY <1>2, <1>5, <1>6, <2>3
<1>7. CASE mine = {}
  <2>1. Shown(i) = Row(snapshot[i])
    BY <1>2, <1>7
  <2>2. CASE wish[i].n = 0
    <3>1. snapshot[i].n = 0
      BY <1>4, <2>2
    <3> QED
      BY <2>1, <2>2, <3>1 DEF Row
  <2>3. CASE wish[i].n # 0
    <3>1. snapshot[i].n = wish[i].n
      BY <1>1, <1>7, <2>3 DEF Page, Visible
    <3>2. snapshot \in [Ids -> Entry] /\ In(snapshot) \subseteq Known
      BY DEF GInv, TypeOK, Known
    <3>3. snapshot[i].gone = wish[i].gone
      BY <2>3, <3>1, <3>2, RowsKnown
    <3> QED
      BY <2>1, <3>1, <3>3 DEF Row
  <2> QED
    BY <2>2, <2>3
<1> QED
  BY <1>6, <1>7

LEMMA StayShownStep ==
  ASSUME GInv, ShownAsWritten, ShownAsWritten', [Next]_vars
  PROVE  [\A i \in Ids :
            crashes' = 0 /\ hydrated /\ wish'[i] = wish[i] /\ ~wish[i].gone /\ wish[i].n \notin told' =>
              Shown(i)' = Shown(i)]_vars
<1> SUFFICES ASSUME NEW i \in Ids, crashes' = 0, wish'[i] = wish[i], ~wish[i].gone,
                    wish[i].n \notin told'
             PROVE  Shown(i)' = Shown(i)
  OBVIOUS
<1>1. crashes = 0
  BY StillAlive
<1>2. told \subseteq told'
  BY DEF Next, Upsert, Delete, StartFlush, Drain, SendHead, NoToken, Serve, Refuse,
     Retry, ServeStray, Acknowledge, Finish, LoadAnnotations, AskList, PrimeHighlights,
     AnswerList, ApplyList, DropList, RunWrite, FailWrite, Hydrate, FailHydrate, Crash, vars
<1>3. Shown(i) = wish[i].n
  BY <1>1, <1>2 DEF ShownAsWritten
<1>4. Shown(i)' = wish'[i].n
  BY DEF ShownAsWritten
<1> QED
  BY <1>3, <1>4

\* Where no request outlives its client and only the reader's page asks for
\* lists, a list that is applied never takes a highlight back to an older
\* content nor to life: the version the page compares is enough.
THEOREM ListsCatchUp == MaxStray = 0 /\ ~Primes /\ Spec => ListsOnlyCatchUp
<1>1. CASE MaxStray = 0 /\ ~Primes
  <2>1. Init => FirstPage
    BY FirstPageInit
  <2>2. GInv /\ FirstPage /\ [Next]_vars => FirstPage'
    BY <1>1, FirstPageNext
  <2>3. GInv /\ FirstPage /\ [Next]_vars =>
          [crashes' = 0 /\ list.phase = "answered" /\ list'.phase = "idle" =>
             \A i \in Ids : snapshot'[i].n >= snapshot[i].n]_<<list, snapshot, crashes>>
    BY <1>1, ListEnds
  <2> QED
    BY <2>1, <2>2, <2>3, BucketInvariant, PTL DEF Spec, ListsOnlyCatchUp
<1> QED
  BY <1>1

\* ... and the page shows every highlight as the reader last wrote it, unless
\* it was deleted or the reader was told that the edit failed ...
THEOREM PageShowsEdits == MaxStray = 0 /\ ~Primes /\ Spec => []ShownAsWritten
<1>1. CASE MaxStray = 0 /\ ~Primes
  <2>1. Init => FirstPage
    BY FirstPageInit
  <2>2. GInv /\ FirstPage /\ [Next]_vars => FirstPage'
    BY <1>1, FirstPageNext
  <2>3. GInv /\ FirstPage => ShownAsWritten
    BY ShownWish
  <2> QED
    BY <2>1, <2>2, <2>3, BucketInvariant, PTL DEF Spec
<1> QED
  BY <1>1

\* ... so that what is written stays on the page through sending, answers,
\* retries and lists.
THEOREM EditsStay == MaxStray = 0 /\ ~Primes /\ Spec => EditsStayShown
<1>1. GInv /\ ShownAsWritten /\ ShownAsWritten' /\ [Next]_vars =>
        [\A i \in Ids :
           crashes' = 0 /\ hydrated /\ wish'[i] = wish[i] /\ ~wish[i].gone /\ wish[i].n \notin told' =>
             Shown(i)' = Shown(i)]_vars
  BY StayShownStep
<1> QED
  BY <1>1, BucketInvariant, PageShowsEdits, PTL DEF Spec, EditsStayShown
=============================================================================
