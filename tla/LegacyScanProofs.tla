-------------------------- MODULE LegacyScanProofs --------------------------
(* Proofs about LegacyScan, for any disk with junctions, any roots that it   *)
(* may be given and any limits.                                              *)
EXTENDS LegacyScan, FiniteSetTheorems, SequenceTheorems, TLAPS

-----------------------------------------------------------------------------
(* Sequences. *)

\* A new element at the end leaves a sequence without repetition.
LEMMA AppendNew ==
    ASSUME NEW S, NEW s \in Seq(S), NEW e \in S, IsInjective(s), e \notin Range(s)
    PROVE  /\ Append(s, e) \in Seq(S) /\ IsInjective(Append(s, e))
           /\ Range(Append(s, e)) = Range(s) \cup {e}
<1>0. PICK n \in Nat : n = Len(s)
  OBVIOUS
<1>1. /\ Append(s, e) \in Seq(S) /\ DOMAIN Append(s, e) = 1..(n + 1) /\ DOMAIN s = 1..n
      /\ Append(s, e)[n + 1] = e /\ \A i \in 1..n : Append(s, e)[i] = s[i]
  BY <1>0
<1>2. Range(Append(s, e)) = Range(s) \cup {e}
  BY <1>1 DEF Range
<1>3. IsInjective(Append(s, e))
  <2>1. \A i \in 1..n : s[i] # e
    BY <1>1 DEF Range
  <2>2. \A i \in 1..(n + 1) : i \in 1..n \/ i = n + 1
    BY <1>0
  <2> QED
    BY <1>1, <2>1, <2>2 DEF IsInjective
<1> QED
  BY <1>1, <1>2, <1>3

\* Appending adds one element.
LEMMA AppendRange ==
    ASSUME NEW S, NEW s \in Seq(S), NEW e \in S
    PROVE  Append(s, e) \in Seq(S) /\ Range(Append(s, e)) = Range(s) \cup {e}
<1>0. PICK n \in Nat : n = Len(s)
  OBVIOUS
<1>1. /\ Append(s, e) \in Seq(S) /\ DOMAIN Append(s, e) = 1..(n + 1) /\ DOMAIN s = 1..n
      /\ Append(s, e)[n + 1] = e /\ \A i \in 1..n : Append(s, e)[i] = s[i]
  BY <1>0
<1> QED
  BY <1>1 DEF Range

\* The first element taken off leaves one without repetition that has it not.
LEMMA TailRest ==
    ASSUME NEW S, NEW s \in Seq(S), s # <<>>, IsInjective(s)
    PROVE  /\ Head(s) \in S /\ Tail(s) \in Seq(S) /\ Len(Tail(s)) = Len(s) - 1
           /\ IsInjective(Tail(s)) /\ Range(Tail(s)) = Range(s) \ {Head(s)}
           /\ Head(s) \in Range(s)
<1>0. PICK n \in Nat : n = Len(s)
  OBVIOUS
<1>1. /\ n > 0 /\ Head(s) = s[1] /\ Tail(s) \in Seq(S) /\ DOMAIN s = 1..n
      /\ Len(Tail(s)) = n - 1 /\ DOMAIN Tail(s) = 1..(n - 1)
      /\ \A i \in 1..(n - 1) : Tail(s)[i] = s[i + 1]
  BY <1>0
<1>2. \A i \in 1..(n - 1) : i + 1 \in 1..n /\ i + 1 # 1
  BY <1>0
<1>3. \A i \in 1..n : i = 1 \/ \E j \in 1..(n - 1) : i = j + 1
  <2> SUFFICES ASSUME NEW i \in 1..n, i # 1 PROVE \E j \in 1..(n - 1) : i = j + 1
    OBVIOUS
  <2>1. i - 1 \in 1..(n - 1) /\ i = (i - 1) + 1
    BY <1>0
  <2> QED
    BY <2>1
<1>4. 1 \in 1..n
  BY <1>0, <1>1
<1>5. IsInjective(Tail(s))
  <2> SUFFICES ASSUME NEW i \in 1..(n - 1), NEW j \in 1..(n - 1), Tail(s)[i] = Tail(s)[j]
               PROVE  i = j
    BY <1>1 DEF IsInjective
  <2>1. i + 1 = j + 1
    BY <1>1, <1>2 DEF IsInjective
  <2> QED
    BY <2>1
<1>6. Range(s) = {s[i] : i \in 1..n} /\ Range(Tail(s)) = {s[i + 1] : i \in 1..(n - 1)}
  BY <1>1 DEF Range
<1>7. \A i \in 1..(n - 1) : s[i + 1] # s[1]
  BY <1>1, <1>2, <1>4 DEF IsInjective
<1>8. Range(Tail(s)) = Range(s) \ {s[1]}
  <2>1. Range(Tail(s)) \subseteq Range(s) \ {s[1]}
    BY <1>2, <1>6, <1>7
  <2>2. \A i \in 1..n : s[i] # s[1] => \E j \in 1..(n - 1) : s[i] = s[j + 1]
    BY <1>3
  <2>3. Range(s) \ {s[1]} \subseteq Range(Tail(s))
    BY <2>2, <1>6
  <2> QED
    BY <2>1, <2>3
<1> QED
  BY <1>0, <1>1, <1>4, <1>5, <1>6, <1>8

\* Taking the first element off adds none.
LEMMA TailRange ==
    ASSUME NEW S, NEW s \in Seq(S), s # <<>>
    PROVE  /\ Head(s) \in S /\ Tail(s) \in Seq(S)
           /\ Range(s) = Range(Tail(s)) \cup {Head(s)}
           /\ Range(Tail(s)) \subseteq Range(s)
<1>0. PICK n \in Nat : n = Len(s)
  OBVIOUS
<1>1. /\ n > 0 /\ Head(s) = s[1] /\ Head(s) \in S /\ Tail(s) \in Seq(S) /\ DOMAIN s = 1..n
      /\ DOMAIN Tail(s) = 1..(n - 1) /\ \A i \in 1..(n - 1) : Tail(s)[i] = s[i + 1]
  BY <1>0
<1>2. \A i \in 1..(n - 1) : i + 1 \in 1..n
  BY <1>0
<1>3. \A i \in 1..n : i = 1 \/ \E j \in 1..(n - 1) : i = j + 1
  <2> SUFFICES ASSUME NEW i \in 1..n, i # 1 PROVE \E j \in 1..(n - 1) : i = j + 1
    OBVIOUS
  <2>1. i - 1 \in 1..(n - 1) /\ i = (i - 1) + 1
    BY <1>0
  <2> QED
    BY <2>1
<1>4. 1 \in 1..n
  BY <1>0, <1>1
<1>5. Range(s) = {s[i] : i \in 1..n} /\ Range(Tail(s)) = {s[i + 1] : i \in 1..(n - 1)}
  BY <1>1 DEF Range
<1>6. Range(Tail(s)) \cup {s[1]} \subseteq Range(s)
  BY <1>2, <1>4, <1>5
<1>7. Range(s) \subseteq Range(Tail(s)) \cup {s[1]}
  BY <1>3, <1>5
<1> QED
  BY <1>1, <1>6, <1>7

-----------------------------------------------------------------------------
(* The constants. *)

Offered == UNION {Range(o) : o \in Offers}
Path    == Spelling \X File

\* What is offered are folders, each under a spelling.
LEMMA OfferedFolders ==
    /\ \A r \in Offered : r.dir \in Folder /\ r.spelling \in Spelling
    /\ Offers \subseteq Seq(Offered)
<1> DEFINE Root == [dir : Folder, spelling : Spelling]
<1>1. ASSUME NEW o \in Offers
      PROVE  Range(o) \subseteq Root /\ o \in Seq(Offered)
  <2>1. o \in Seq(Root)
    BY NamesAssumption
  <2> HIDE DEF Root
  <2>2. PICK n \in Nat : n = Len(o)
    BY <2>1
  <2>3. DOMAIN o = 1..n /\ o = [i \in 1..n |-> o[i]] /\ \A i \in 1..n : o[i] \in Root
    BY <2>1, <2>2
  <2>4. \A i \in 1..n : o[i] \in Offered
    BY <2>3 DEF Offered, Range
  <2>5. o \in Seq(Offered)
    BY <2>3, <2>4
  <2> QED
    BY <2>3, <2>5 DEF Range
<1>2. \A r \in Root : r.dir \in Folder /\ r.spelling \in Spelling
  OBVIOUS
<1> HIDE DEF Root
<1> QED
  BY <1>1, <1>2 DEF Offered

\* What lies below d has d, and nothing but folders.
LEMMA ReachedRoot ==
    ASSUME NEW d \in Folder
    PROVE  d \in Reached[d][{}] /\ Reached[d][{}] \subseteq Folder
BY DEF Reached, ClosedUnder, Skips

\* It has with a folder those in it.
LEMMA ReachedStep ==
    ASSUME NEW d \in Folder, NEW e \in Reached[d][{}], NEW c \in Sub(e)
    PROVE  c \in Reached[d][{}]
<1>0. \A x \in Folder : x \in Reached[d][{}] <=>
         \A D \in SUBSET Folder : ClosedUnder(D, d, {}) => x \in D
  BY DEF Reached, Skips
<1>1. c \in Folder /\ e \in Folder
  BY ReachedRoot DEF Sub
<1>2. ASSUME NEW D \in SUBSET Folder, ClosedUnder(D, d, {}) PROVE c \in D
  <2>1. e \in D
    BY <1>0, <1>1, <1>2
  <2> QED
    BY <1>2, <2>1 DEF ClosedUnder
<1> QED
  BY <1>0, <1>1, <1>2

\* It is part of every set closed in this way.
LEMMA ReachedLeast ==
    ASSUME NEW d \in Folder, NEW skip \in Skips, NEW D \in SUBSET Folder, ClosedUnder(D, d, skip)
    PROVE  Reached[d][skip] \subseteq D
BY DEF Reached

\* Leaving folders out makes nothing due that was not.
LEMMA DueLessLong ==
    ASSUME NEW r, r.dir \in Folder, r.spelling \in Spelling
    PROVE  Due(r, Long(r.spelling)) \subseteq Due(r, {})
<1> DEFINE skip == Long(r.spelling)
<1>1. skip \in Skips /\ {} \in Skips
  BY DEF Skips
<1> HIDE DEF skip
<1>2. Reached[r.dir][skip] \subseteq Reached[r.dir][{}]
  <2>1. \A D \in SUBSET Folder : ClosedUnder(D, r.dir, {}) => ClosedUnder(D, r.dir, skip)
    BY DEF ClosedUnder
  <2> QED
    BY <1>1, <2>1 DEF Reached
<1>3. Found[r.dir][skip] \subseteq Found[r.dir][{}]
  BY <1>1, <1>2 DEF Found
<1> QED
  BY <1>3 DEF Due, skip

\* Names have different ranks, so the order of two paths is decided one way.
LEMMA BeforeIsOrder ==
    /\ \A p \in Path : ~Before(p, p)
    /\ \A p, q \in Path : p = q \/ Before(p, q) \/ Before(q, p)
    /\ \A p, q, r \in Path : Before(p, q) /\ Before(q, r) => Before(p, r)
<1> DEFINE N == Spelling \cup File
<1>1. \A x \in N : Rank[x] \in Nat
  BY NamesAssumption DEF Injection
<1>2. \A x, y \in N : Rank[x] = Rank[y] => x = y
  BY NamesAssumption DEF Injection, IsInjective
<1>3. \A p \in Path : p[1] \in N /\ p[2] \in N /\ p = <<p[1], p[2]>>
  BY DEF Path
<1> HIDE DEF N
<1>4. \A p \in Path : ~Before(p, p)
  BY <1>1, <1>3 DEF Before
<1>5. ASSUME NEW p \in Path, NEW q \in Path
      PROVE  p = q \/ Before(p, q) \/ Before(q, p)
  <2>1. \A x, y \in N : x = y \/ Rank[x] < Rank[y] \/ Rank[y] < Rank[x]
    BY <1>1, <1>2
  <2> QED
    BY <2>1, <1>3 DEF Before
<1>6. ASSUME NEW p \in Path, NEW q \in Path, NEW r \in Path, Before(p, q), Before(q, r)
      PROVE  Before(p, r)
  <2>1. \A x, y, z \in N : Rank[x] < Rank[y] /\ Rank[y] < Rank[z] => Rank[x] < Rank[z]
    BY <1>1
  <2> QED
    BY <2>1, <1>3, <1>6 DEF Before
<1> QED
  BY <1>4, <1>5, <1>6

\* Sorting different paths gives the same paths in their order.
LEMMA SortedPermutes ==
    ASSUME NEW s \in Seq(Path), IsInjective(s)
    PROVE  /\ Sorted(s) \in Seq(Path) /\ IsInjective(Sorted(s)) /\ Range(Sorted(s)) = Range(s)
           /\ \A i, j \in DOMAIN Sorted(s) : i < j => Before(Sorted(s)[i], Sorted(s)[j])
<1>0. PICK n \in Nat : n = Len(s)
  OBVIOUS
<1>1. /\ DOMAIN s = 1..n /\ \A i \in 1..n : s[i] \in Path
      /\ \A i, j \in 1..n : s[i] = s[j] => i = j
  BY <1>0 DEF IsInjective
<1> DEFINE UpTo(i) == {j \in DOMAIN s : Before(s[j], s[i]) \/ (s[j] = s[i] /\ j <= i)}
<1> DEFINE place == [i \in DOMAIN s |-> Cardinality(UpTo(i))]
<1> DEFINE at(k) == CHOOSE i \in DOMAIN s : place[i] = k
<1>2. Sorted(s) = [k \in 1..n |-> s[at(k)]]
  BY <1>1 DEF Sorted
<1>3. IsFiniteSet(1..n) /\ Cardinality(1..n) = n
  BY FS_Interval
<1>4. \A i \in 1..n : UpTo(i) \in SUBSET (1..n) /\ i \in UpTo(i)
  <2>1. \A i \in 1..n : i <= i
    OBVIOUS
  <2> QED
    BY <1>1, <2>1
<1>5. \A i, j \in 1..n : Before(s[i], s[j]) =>
         UpTo(i) \cup {j} \in SUBSET UpTo(j) /\ j \notin UpTo(i)
  <2> SUFFICES ASSUME NEW i \in 1..n, NEW j \in 1..n, Before(s[i], s[j])
               PROVE  UpTo(i) \cup {j} \in SUBSET UpTo(j) /\ j \notin UpTo(i)
    OBVIOUS
  <2>1. \A x \in UpTo(i) : Before(s[x], s[j])
    BY <1>1, BeforeIsOrder
  <2>2. j \notin UpTo(i)
    BY <2>1, <1>1, BeforeIsOrder
  <2> QED
    BY <2>1, <2>2, <1>1, <1>4
<1> HIDE DEF UpTo
<1>6. \A i \in 1..n : IsFiniteSet(UpTo(i)) /\ Cardinality(UpTo(i)) \in 1..n
  <2> SUFFICES ASSUME NEW i \in 1..n
               PROVE  IsFiniteSet(UpTo(i)) /\ Cardinality(UpTo(i)) \in 1..n
    OBVIOUS
  <2>1. IsFiniteSet(UpTo(i)) /\ Cardinality(UpTo(i)) \in Nat /\ Cardinality(UpTo(i)) <= n
    BY <1>3, <1>4, FS_Subset, FS_CardinalityType
  <2>2. Cardinality(UpTo(i)) # 0
    BY <2>1, <1>4, FS_EmptySet
  <2> QED
    BY <2>1, <2>2
<1>7. \A i, j \in 1..n : Before(s[i], s[j]) => place[i] < place[j]
  <2> SUFFICES ASSUME NEW i \in 1..n, NEW j \in 1..n, Before(s[i], s[j])
               PROVE  Cardinality(UpTo(i)) < Cardinality(UpTo(j))
    BY <1>1
  <2>1. Cardinality(UpTo(i) \cup {j}) = Cardinality(UpTo(i)) + 1
    BY <1>5, <1>6, FS_AddElement
  <2>2. Cardinality(UpTo(i) \cup {j}) <= Cardinality(UpTo(j))
    BY <1>5, <1>6, FS_Subset
  <2> QED
    BY <2>1, <2>2, <1>6
<1>8. DOMAIN place = 1..n /\ \A i \in 1..n : place[i] \in 1..n
  BY <1>1, <1>6
<1> HIDE DEF place
<1>9. \A i, j \in 1..n : place[i] = place[j] => i = j
  <2>1. \A i \in 1..n : ~(place[i] < place[i])
    BY <1>8
  <2> QED
    BY <2>1, <1>1, <1>7, BeforeIsOrder
<1>10. place \in Surjection(1..n, 1..n)
  <2>1. place = [i \in 1..n |-> place[i]]
    BY <1>8 DEF place
  <2>2. place \in Injection(1..n, 1..n)
    BY <1>8, <1>9, <2>1 DEF Injection, IsInjective
  <2> QED
    BY <2>2, <1>3, FS_Injection
<1>11. \A k \in 1..n : at(k) \in 1..n /\ place[at(k)] = k
  <2>1. \A k \in 1..n : \E i \in 1..n : place[i] = k
    BY <1>10 DEF Surjection
  <2> QED
    BY <2>1, <1>1
<1> HIDE DEF at
<1>12. /\ Sorted(s) \in Seq(Path) /\ DOMAIN Sorted(s) = 1..n
       /\ \A k \in 1..n : Sorted(s)[k] = s[at(k)]
  BY <1>1, <1>2, <1>11
<1>13. IsInjective(Sorted(s))
  BY <1>1, <1>11, <1>12 DEF IsInjective
<1>14. Range(Sorted(s)) = Range(s)
  <2>1. \A i \in 1..n : place[i] \in 1..n /\ at(place[i]) = i
    BY <1>8, <1>9, <1>11
  <2> QED
    BY <2>1, <1>1, <1>11, <1>12 DEF Range
<1>15. ASSUME NEW k \in 1..n, NEW l \in 1..n, k < l PROVE Before(Sorted(s)[k], Sorted(s)[l])
  <2>1. at(k) \in 1..n /\ at(l) \in 1..n /\ place[at(k)] = k /\ place[at(l)] = l
    BY <1>11
  <2>2. ~Before(s[at(l)], s[at(k)])
    BY <2>1, <1>7, <1>15
  <2>3. s[at(k)] # s[at(l)]
    BY <2>1, <1>1, <1>15
  <2> QED
    BY <2>1, <2>2, <2>3, <1>1, <1>12, BeforeIsOrder
<1> QED
  BY <1>12, <1>13, <1>14, <1>15

-----------------------------------------------------------------------------
(* The invariant. *)

Scanning == legacyPc \in {"head", "list"}

\* The folders counted under the root being scanned, and those known of.
Here  == {d \in Folder : <<Len(left), d>> \in entered}
Known == Here \cup Range(pending)

TypeInv ==
    /\ legacyPc \in {"roots", "next", "head", "list", "done"}
    /\ offer \in Seq(Offered) /\ roots \in Seq(Offered) /\ left \in Seq(Offered)
    /\ Range(left) \subseteq Range(roots)
    /\ pending \in Seq(Folder) /\ listing \subseteq Folder \cup File
    /\ candidates \in Seq(Path)
    /\ visited \in 0..MaxDirectories /\ inaccessible \in Nat
    /\ cut \in BOOLEAN /\ dropped \in BOOLEAN
    /\ ~Scanning => pending = <<>>
    /\ legacyPc # "list" => listing = {}
    /\ legacyPc = "roots" => candidates = <<>>
    /\ legacyPc \in {"roots", "done"} => left = <<>>

\* The folders counted are all different.
CountInv ==
    /\ IsFiniteSet(entered) /\ visited = Cardinality(entered)
    /\ entered \subseteq Nat \X Folder
    /\ \A x \in entered : x[1] >= Len(left)
    /\ legacyPc = "roots" => entered = {}

\* The queue under a root r: no folder is in it twice or again, and all but
\* the first were found in a counted one, deeper than the first.
QueueInv(r) ==
    /\ IsInjective(pending) /\ Range(pending) \cap Here = {}
    /\ \A d \in Known :
          \/ d = r.dir
          \/ d \notin Junction /\ Depth[d] > Depth[r.dir] /\ \E p \in Here : d \in Sub(p)
    /\ Known \subseteq Reached[r.dir][{}]

\* What is in hand lies in a counted folder, and no folder in it is known yet.
ListingInv ==
    legacyPc = "list" =>
        /\ \E d \in Here : listing \subseteq Contents[d]
        /\ \A e \in listing : GoesInto(e) => e \notin Known

NothingMissed == inaccessible = 0 /\ ~cut /\ visited < MaxDirectories

\* As long as nothing was missed, what lies in the counted folders is in hand,
\* known or found, or a folder dropped for its length.
FoundInv(r) ==
    NothingMissed =>
        /\ r.dir \in Known
        /\ \A d \in Here : \A e \in Contents[d] \ listing :
              /\ e \in Folder \ Junction /\ ~dropped => e \in Known
              /\ GoesInto(e) => e \in Known
              /\ e \in Container => PathOf(e) \in Range(candidates)

\* So is everything below the roots that are done.
DoneInv(S) ==
    NothingMissed =>
        \A q \in Range(roots) \ S :
            q \in Range(left) \/ Due(q, Skipped(q)) \subseteq Range(candidates)

RootInv ==
    /\ legacyPc \in {"next", "done"} => DoneInv({})
    /\ Scanning => \E r \in Range(roots) :
                      spelling = r.spelling /\ QueueInv(r) /\ FoundInv(r) /\ DoneInv({r})
    /\ ListingInv

\* What was found is due, each path once, and sorted at the end.
ResultInv ==
    /\ SoundResult
    /\ legacyPc = "done" => \A i, j \in DOMAIN candidates : i < j => Before(candidates[i], candidates[j])

IInv == TypeInv /\ CountInv /\ RootInv /\ ResultInv

\* LegacyInit establishes the invariant.
LEMMA InvInit == LegacyInit => IInv
<1> SUFFICES ASSUME LegacyInit PROVE IInv
  OBVIOUS
<1>1. /\ <<>> \in Seq(Offered) /\ <<>> \in Seq(Folder) /\ <<>> \in Seq(Path)
      /\ DOMAIN <<>> = {} /\ Range(<<>>) = {}
  BY DEF Range
<1>0. /\ legacyPc = "roots" /\ offer \in Offers /\ roots = <<>> /\ left = <<>>
      /\ pending = <<>> /\ listing = {} /\ candidates = <<>>
      /\ visited = 0 /\ inaccessible = 0 /\ cut = FALSE /\ dropped = FALSE /\ entered = {}
  BY Zenon DEF LegacyInit
<1>2. TypeInv
  <2>1. offer \in Seq(Offered)
    BY <1>0, OfferedFolders
  <2>2. 0 \in 0..MaxDirectories /\ 0 \in Nat
    BY DiskAssumption
  <2> QED
    BY <1>0, <1>1, <2>1, <2>2 DEF TypeInv
<1>3. CountInv
  BY <1>0, FS_EmptySet DEF CountInv
<1>4. RootInv
  BY <1>0 DEF RootInv, ListingInv, Scanning
<1>5. ResultInv
  BY <1>0, <1>1 DEF ResultInv, SoundResult, IsInjective
<1> QED
  BY <1>2, <1>3, <1>4, <1>5 DEF IInv

-----------------------------------------------------------------------------
(* Every step keeps it. *)

\* A root is being scanned under its spelling, which is a name.
LEMMA CurrentRoot ==
    ASSUME IInv, Scanning
    PROVE  \E r \in Range(roots) :
              /\ r \in Offered /\ r.dir \in Folder /\ r.spelling \in Spelling
              /\ spelling = r.spelling /\ QueueInv(r) /\ FoundInv(r) /\ DoneInv({r})
<1>1. PICK r \in Range(roots) :
         spelling = r.spelling /\ QueueInv(r) /\ FoundInv(r) /\ DoneInv({r})
  BY DEF IInv, RootInv
<1>2. Range(roots) \subseteq Offered
  BY DEF IInv, TypeInv, Range
<1> QED
  BY <1>1, <1>2, OfferedFolders

\* The head of the queue is a folder that was not counted under this root.
LEMMA HeadIsNew ==
    ASSUME IInv, MayVisit
    PROVE  /\ Head(pending) \in Folder /\ Head(pending) \in Range(pending)
           /\ Tail(pending) \in Seq(Folder) /\ IsInjective(Tail(pending))
           /\ Range(Tail(pending)) = Range(pending) \ {Head(pending)}
           /\ <<Len(left), Head(pending)>> \notin entered
<1>1. pending \in Seq(Folder) /\ pending # <<>> /\ Scanning
  BY DEF MayVisit, IInv, TypeInv, Scanning
<1>2. IsInjective(pending) /\ Range(pending) \cap Here = {}
  BY <1>1, CurrentRoot DEF QueueInv
<1>3. /\ Head(pending) \in Folder /\ Head(pending) \in Range(pending)
      /\ Tail(pending) \in Seq(Folder) /\ IsInjective(Tail(pending))
      /\ Range(Tail(pending)) = Range(pending) \ {Head(pending)}
  BY <1>1, <1>2, TailRest
<1> QED
  BY <1>2, <1>3 DEF Here

\* The variables keep their types.
LEMMA TypeStep == IInv /\ [LegacyNext]_legacyVars => TypeInv'
<1> SUFFICES ASSUME IInv, [LegacyNext]_legacyVars PROVE TypeInv'
  OBVIOUS
<1> USE DEF legacyVars, rootVars, scanVars, countVars, legacyHistory, Scanning
<1>0. TypeInv
  BY DEF IInv
<1>1. CASE TakeRoot
  <2>1. /\ offer \in Seq(Offered) /\ offer # <<>> /\ roots \in Seq(Offered)
        /\ legacyPc = "roots" /\ left = <<>>
    BY <1>0, <1>1 DEF TakeRoot, TypeInv
  <2>2. Head(offer) \in Offered /\ Tail(offer) \in Seq(Offered)
    BY <2>1
  <2>3. Append(roots, Head(offer)) \in Seq(Offered)
    BY <2>1, <2>2
  <2>4. Range(<<>>) = {}
    BY DEF Range
  <2> QED
    BY <1>0, <1>1, <2>1, <2>2, <2>3, <2>4 DEF TakeRoot, TypeInv
<1>2. CASE PassRoot
  <2>1. Tail(offer) \in Seq(Offered)
    BY <1>0, <1>2 DEF PassRoot, TypeInv
  <2> QED
    BY <1>0, <1>2, <2>1 DEF PassRoot, TypeInv
<1>3. CASE BeginScans
  BY <1>0, <1>3 DEF BeginScans, TypeInv
<1>4. CASE EnterRoot
  <2>1. /\ left \in Seq(Offered) /\ left # <<>>
    BY <1>0, <1>4 DEF EnterRoot, TypeInv
  <2>2. /\ Head(left) \in Offered /\ Tail(left) \in Seq(Offered)
        /\ Range(Tail(left)) \subseteq Range(left)
    BY <2>1, TailRange
  <2>3. <<Head(left).dir>> \in Seq(Folder)
    BY <2>2, OfferedFolders
  <2> QED
    BY <1>0, <1>4, <2>2, <2>3 DEF EnterRoot, TypeInv
<1>5. CASE RootIsGone
  <2>1. Tail(left) \in Seq(Offered) /\ Range(Tail(left)) \subseteq Range(left)
    BY <1>0, <1>5, TailRange DEF RootIsGone, TypeInv
  <2> QED
    BY <1>0, <1>5, <2>1 DEF RootIsGone, TypeInv
<1>6. CASE LeaveRoot
  <2>1. <<>> \in Seq(Folder)
    OBVIOUS
  <2> QED
    BY <1>0, <1>6, <2>1 DEF LeaveRoot, TypeInv
<1>7. CASE OpenFolder
  <2>1. visited + 1 \in 0..MaxDirectories
    BY <1>0, <1>7, DiskAssumption DEF OpenFolder, MayVisit, TypeInv
  <2>2. Head(pending) \in Folder /\ Tail(pending) \in Seq(Folder)
    BY <1>7, HeadIsNew DEF OpenFolder
  <2>3. Contents[Head(pending)] \subseteq Folder \cup File
    BY <2>2, DiskAssumption
  <2> QED
    BY <1>0, <1>7, <2>1, <2>2, <2>3 DEF OpenFolder, MayVisit, TypeInv
<1>8. CASE OpenFails
  <2>1. visited + 1 \in 0..MaxDirectories /\ inaccessible + 1 \in Nat
    BY <1>0, <1>8, DiskAssumption DEF OpenFails, MayVisit, TypeInv
  <2>2. Tail(pending) \in Seq(Folder)
    BY <1>8, HeadIsNew DEF OpenFails
  <2> QED
    BY <1>0, <1>8, <2>1, <2>2 DEF OpenFails, MayVisit, TypeInv
<1>9. CASE ExamineEntry
  <2>1. PICK e \in listing :
           /\ listing' = listing \ {e}
           /\ pending' = IF GoesInto(e) THEN Append(pending, e) ELSE pending
           /\ dropped' = (dropped \/ IsDropped(e))
           /\ candidates' = IF IsNew(e) THEN Append(candidates, PathOf(e)) ELSE candidates
    BY <1>9 DEF ExamineEntry
  <2>2. pending' \in Seq(Folder) /\ dropped' \in BOOLEAN
    BY <1>0, <2>1 DEF TypeInv, GoesInto, IsDropped
  <2>3. candidates' \in Seq(Path)
    <3>1. spelling \in Spelling
      BY <1>9, CurrentRoot DEF ExamineEntry
    <3>2. IsNew(e) => PathOf(e) \in Path
      BY <3>1, DiskAssumption DEF IsNew, PathOf, Path
    <3>3. candidates \in Seq(Path)
      BY <1>0 DEF TypeInv
    <3> HIDE DEF Path
    <3> QED
      BY <2>1, <3>2, <3>3
  <2> QED
    BY <1>0, <1>9, <2>1, <2>2, <2>3 DEF ExamineEntry, TypeInv
<1>10. CASE EndListing
  BY <1>0, <1>10 DEF EndListing, TypeInv
<1>11. CASE ListingBreaksOff
  BY <1>0, <1>11 DEF ListingBreaksOff, TypeInv
<1>12. CASE PrintResult
  <2>1. candidates \in Seq(Path) /\ IsInjective(candidates)
    BY <1>0 DEF IInv, TypeInv, ResultInv, SoundResult
  <2>2. candidates' \in Seq(Path)
    BY <1>12, <2>1, SortedPermutes DEF PrintResult
  <2> QED
    BY <1>0, <1>12, <2>2 DEF PrintResult, TypeInv
<1>13. CASE UNCHANGED legacyVars
  BY <1>0, <1>13 DEF TypeInv
<1> QED
  BY <1>1, <1>2, <1>3, <1>4, <1>5, <1>6, <1>7, <1>8, <1>9, <1>10, <1>11, <1>12, <1>13 DEF LegacyNext

\* The folders counted stay different, for the head of the queue is a new one.
LEMMA CountStep == IInv /\ [LegacyNext]_legacyVars => CountInv'
<1> SUFFICES ASSUME IInv, [LegacyNext]_legacyVars PROVE CountInv'
  OBVIOUS
<1> USE DEF legacyVars, rootVars, scanVars, countVars, legacyHistory
<1>0. TypeInv /\ CountInv
  BY DEF IInv
<1>1. CASE MayVisit /\ left' = left /\ visited' = visited + 1 /\ legacyPc' # "roots"
           /\ entered' = entered \cup {<<Len(left), Head(pending)>>}
  <2>1. Head(pending) \in Folder /\ <<Len(left), Head(pending)>> \notin entered
    BY <1>1, HeadIsNew
  <2>2. IsFiniteSet(entered') /\ Cardinality(entered') = Cardinality(entered) + 1
    BY <1>0, <1>1, <2>1, FS_AddElement DEF CountInv
  <2>3. Len(left) \in Nat
    BY <1>0 DEF TypeInv
  <2> QED
    BY <1>0, <1>1, <2>1, <2>2, <2>3 DEF CountInv
<1>2. CASE OpenFolder \/ OpenFails
  BY <1>1, <1>2 DEF OpenFolder, OpenFails, MayVisit
<1>3. CASE EnterRoot \/ RootIsGone
  <2>1. /\ left \in Seq(Offered) /\ left # <<>> /\ left' = Tail(left) /\ legacyPc' # "roots"
        /\ UNCHANGED <<visited, entered>>
    BY <1>0, <1>3 DEF EnterRoot, RootIsGone, TypeInv
  <2>2. Len(left) \in Nat /\ Len(left') = Len(left) - 1
    BY <2>1
  <2>3. \A x \in entered : x[1] \in Nat /\ x[1] >= Len(left)
    BY <1>0 DEF CountInv
  <2>4. \A x \in entered : x[1] >= Len(left')
    BY <2>2, <2>3
  <2> QED
    BY <1>0, <2>1, <2>4 DEF CountInv
<1>4. CASE BeginScans
  BY <1>0, <1>4 DEF BeginScans, CountInv
<1>5. CASE \/ TakeRoot \/ PassRoot \/ LeaveRoot \/ ExamineEntry \/ EndListing
           \/ ListingBreaksOff \/ PrintResult \/ UNCHANGED legacyVars
  <2>1. UNCHANGED <<left, visited, entered>> /\ (legacyPc' = "roots" => legacyPc = "roots")
    BY <1>5 DEF TakeRoot, PassRoot, LeaveRoot, ExamineEntry, EndListing, ListingBreaksOff,
       PrintResult
  <2> QED
    BY <1>0, <2>1 DEF CountInv
<1> QED
  BY <1>2, <1>3, <1>4, <1>5 DEF LegacyNext

\* No folder in one of the queue is known yet: it would lie in two folders, or
\* the root would lie below itself.
LEMMA FreshChildren ==
    ASSUME NEW r, r.dir \in Folder, QueueInv(r), pending \in Seq(Folder), NEW d \in Range(pending)
    PROVE  \A e \in Sub(d) : e \notin Known
<1> SUFFICES ASSUME NEW e \in Sub(d), e \in Known PROVE FALSE
  OBVIOUS
<1>1. /\ d \in Known /\ d \notin Here /\ Known \subseteq Folder
  BY DEF QueueInv, Known, Here, Range
<1>2. \A x \in Known : x = r.dir \/ (x \notin Junction /\ Depth[x] > Depth[r.dir])
  BY DEF QueueInv
<1>3. d \in Folder /\ Depth[d] \in Nat /\ Depth[r.dir] \in Nat /\ Depth[e] = Depth[d] + 1
  BY <1>1, TreeAssumption
<1>4. Depth[d] >= Depth[r.dir]
  BY <1>1, <1>2, <1>3
<1>5. e # r.dir
  BY <1>3, <1>4
<1>6. PICK p \in Here : e \in Sub(p)
  BY <1>5 DEF QueueInv
<1>7. p \in Known /\ p \in Folder /\ p # d /\ Depth[p] \in Nat /\ Depth[e] = Depth[p] + 1
  BY <1>1, <1>6, TreeAssumption DEF Known
<1>8. Depth[p] = Depth[d]
  BY <1>3, <1>7
<1>9. CASE p = r.dir \/ d = r.dir
  BY <1>1, <1>2, <1>3, <1>7, <1>8, <1>9
<1>10. CASE p # r.dir /\ d # r.dir
  <2>1. p \in Folder \ Junction /\ d \in Folder \ Junction
    BY <1>1, <1>2, <1>3, <1>7, <1>10
  <2> QED
    BY <2>1, <1>6, <1>7, TreeAssumption
<1> QED
  BY <1>9, <1>10

\* Counting the head of the queue leaves the queue in order.
LEMMA QueueCounts ==
    ASSUME IInv, MayVisit, NEW r, QueueInv(r), left' = left, pending' = Tail(pending),
           entered' = entered \cup {<<Len(left), Head(pending)>>}
    PROVE  /\ QueueInv(r)' /\ Known' = Known /\ Here' = Here \cup {Head(pending)}
<1>1. /\ Head(pending) \in Folder /\ Head(pending) \in Range(pending)
      /\ IsInjective(pending') /\ Range(pending') = Range(pending) \ {Head(pending)}
  BY HeadIsNew
<1>2. Here' = Here \cup {Head(pending)}
  BY <1>1 DEF Here
<1>3. Known' = Known
  BY <1>1, <1>2 DEF Known
<1>4. Range(pending') \cap Here' = {}
  BY <1>1, <1>2 DEF QueueInv
<1> QED
  BY <1>1, <1>2, <1>3, <1>4 DEF QueueInv

\* What the roots that are done have given stays.
LEMMA DoneStays ==
    ASSUME IInv, NEW S, DoneInv(S), NothingMissed' => NothingMissed, UNCHANGED <<roots, left>>,
           dropped => dropped', Range(candidates) \subseteq Range(candidates')
    PROVE  DoneInv(S)'
<1> SUFFICES ASSUME NothingMissed', NEW q \in Range(roots) \ S, q \notin Range(left)
             PROVE  Due(q, Skipped(q)') \subseteq Range(candidates')
  BY DEF DoneInv, Due
<1>1. q \in Offered
  BY DEF IInv, TypeInv, Range
<1>2. q.dir \in Folder /\ q.spelling \in Spelling
  BY <1>1, OfferedFolders
<1>3. Due(q, Skipped(q)) \subseteq Range(candidates)
  BY DEF DoneInv
<1>4. CASE dropped' <=> dropped
  BY <1>3, <1>4 DEF Skipped
<1>5. CASE ~dropped /\ dropped'
  <2>1. Skipped(q) = {} /\ (Skipped(q))' = Long(q.spelling)
    BY <1>5 DEF Skipped, Long
  <2>2. Due(q, Long(q.spelling)) \subseteq Due(q, {})
    BY <1>2, DueLessLong
  <2> QED
    BY <1>3, <2>1, <2>2
<1> QED
  BY <1>4, <1>5, Zenon

\* The first folder of a root starts its queue.
LEMMA RootEntered == IInv /\ EnterRoot => RootInv'
<1> SUFFICES ASSUME IInv, EnterRoot PROVE RootInv'
  OBVIOUS
<1>0. PICK r \in Offered : r = Head(left)
  BY TailRange DEF EnterRoot, IInv, TypeInv
<1>1. /\ left \in Seq(Offered) /\ left # <<>> /\ Range(left) \subseteq Range(roots)
      /\ left' = Tail(left) /\ pending' = <<r.dir>> /\ spelling' = r.spelling /\ legacyPc' = "head"
      /\ UNCHANGED <<entered, roots, listing, candidates, visited, inaccessible, cut, dropped>>
  BY <1>0 DEF EnterRoot, IInv, TypeInv, rootVars, countVars, legacyHistory
<1>2. /\ Range(left) = Range(left') \cup {r} /\ r \in Range(roots)
      /\ Len(left) \in Nat /\ Len(left') = Len(left) - 1
  BY <1>0, <1>1, TailRange
<1>3. r.dir \in Folder
  BY OfferedFolders
<1>4. Here' = {}
  <2>1. \A x \in entered : x[1] \in Nat /\ x[1] >= Len(left)
    BY DEF IInv, CountInv
  <2>2. \A d \in Folder : <<Len(left'), d>> \notin entered
    BY <1>2, <2>1
  <2> QED
    BY <1>1, <2>2 DEF Here
<1>5. Range(pending') = {r.dir} /\ IsInjective(pending')
  BY <1>1 DEF Range, IsInjective
<1>6. Known' = {r.dir}
  BY <1>4, <1>5 DEF Known
<1>7. QueueInv(r)'
  BY <1>3, <1>4, <1>5, <1>6, ReachedRoot DEF QueueInv
<1>8. FoundInv(r)'
  BY <1>4, <1>6 DEF FoundInv
<1>9. DoneInv({r})'
  <2>1. DoneInv({})
    BY DEF EnterRoot, IInv, RootInv
  <2> QED
    BY <1>1, <1>2, <2>1 DEF DoneInv, NothingMissed, Due, Skipped
<1>10. ListingInv'
  BY <1>1 DEF ListingInv
<1> QED
  BY <1>1, <1>2, <1>7, <1>8, <1>9, <1>10 DEF RootInv, Scanning

\* When nothing was missed and the queue is empty, the counted folders are all
\* that the root reaches.
LEMMA RootLeft == IInv /\ LeaveRoot => RootInv'
<1> SUFFICES ASSUME IInv, LeaveRoot PROVE RootInv'
  OBVIOUS
<1>1. /\ legacyPc = "head" /\ legacyPc' = "next" /\ listing = {}
      /\ pending = <<>> \/ visited >= MaxDirectories
      /\ UNCHANGED <<roots, left, candidates, visited, inaccessible, cut, dropped>>
  BY DEF LeaveRoot, IInv, TypeInv, rootVars, countVars, legacyHistory
<1>2. PICK r \in Range(roots) :
         /\ r \in Offered /\ r.dir \in Folder /\ r.spelling \in Spelling
         /\ spelling = r.spelling /\ QueueInv(r) /\ FoundInv(r) /\ DoneInv({r})
  BY <1>1, CurrentRoot DEF Scanning
<1> DEFINE skip == Skipped(r)
<1>0. skip \in Skips
  BY <1>2 DEF Skipped, Skips
<1>3. ASSUME NothingMissed PROVE Due(r, skip) \subseteq Range(candidates)
  <2>1. pending = <<>>
    <3>1. visited \in 0..MaxDirectories /\ MaxDirectories \in Nat
      BY DiskAssumption DEF IInv, TypeInv
    <3> QED
      BY <1>1, <1>3, <3>1 DEF NothingMissed
  <2>2. Known = Here /\ Here \in SUBSET Folder
    BY <2>1 DEF Known, Here, Range
  <2>3. /\ r.dir \in Here
        /\ \A d \in Here : \A e \in Contents[d] :
              /\ e \in Folder \ Junction /\ ~dropped => e \in Here
              /\ GoesInto(e) => e \in Here
              /\ e \in Container => PathOf(e) \in Range(candidates)
    BY <1>1, <1>2, <1>3, <2>2 DEF FoundInv
  <2>4. ClosedUnder(Here, r.dir, skip)
    <3> SUFFICES ASSUME NEW d \in Here, NEW e \in Sub(d), e \notin skip PROVE e \in Here
      BY <2>3 DEF ClosedUnder
    <3>1. e \in Contents[d] /\ e \in Folder \ Junction
      BY DEF Sub
    <3>2. CASE dropped
      <4>1. /\ skip = {c \in Folder : Length[<<r.spelling, c>>] >= MaxPath}
            /\ <<r.spelling, e>> \in Spelling \X Folder
        BY <1>2, <3>1, <3>2 DEF Skipped, Long
      <4>2. Length[<<r.spelling, e>>] \in Nat /\ MaxPath \in Nat
        BY <4>1, NamesAssumption, DiskAssumption
      <4>3. Length[PathOf(e)] < MaxPath
        BY <1>2, <3>1, <4>1, <4>2 DEF PathOf
      <4> QED
        BY <2>3, <3>1, <4>3 DEF GoesInto
    <3>3. CASE ~dropped
      BY <2>3, <3>1, <3>3
    <3> QED
      BY <3>2, <3>3
  <2>5. Reached[r.dir][skip] \subseteq Here
    BY <1>0, <1>2, <2>2, <2>4, ReachedLeast
  <2>6. \A e \in Found[r.dir][skip] : \E d \in Here : e \in Contents[d] /\ e \in Container
    BY <1>0, <1>2, <2>5 DEF Found
  <2>7. \A e \in Found[r.dir][skip] : <<r.spelling, e>> \in Range(candidates)
    BY <1>2, <2>3, <2>6 DEF PathOf
  <2> QED
    BY <2>7 DEF Due
<1>4. DoneInv({})'
  BY <1>1, <1>2, <1>3 DEF DoneInv, NothingMissed, Due, Skipped
<1> QED
  BY <1>1, <1>4 DEF RootInv, ListingInv, Scanning

\* Opening a folder takes it from the queue to the counted ones.
LEMMA FolderOpened == IInv /\ OpenFolder => RootInv'
<1> SUFFICES ASSUME IInv, OpenFolder PROVE RootInv'
  OBVIOUS
<1> DEFINE d == Head(pending)
<1>1. /\ MayVisit /\ legacyPc = "head" /\ legacyPc' = "list" /\ ~TooLong(d) /\ listing = {}
      /\ visited' = visited + 1 /\ listing' = Contents[d] /\ pending' = Tail(pending)
      /\ entered' = entered \cup {<<Len(left), d>>}
      /\ UNCHANGED <<roots, left, spelling, candidates, inaccessible, cut, dropped>>
  BY DEF OpenFolder, MayVisit, rootVars, IInv, TypeInv
<1>2. PICK r \in Range(roots) :
         /\ r \in Offered /\ r.dir \in Folder /\ r.spelling \in Spelling
         /\ spelling = r.spelling /\ QueueInv(r) /\ FoundInv(r) /\ DoneInv({r})
  BY <1>1, CurrentRoot DEF Scanning
<1>3. d \in Folder /\ d \in Range(pending) /\ pending \in Seq(Folder)
  BY <1>1, HeadIsNew DEF IInv, TypeInv
<1>4. QueueInv(r)' /\ Known' = Known /\ Here' = Here \cup {d}
  BY <1>1, <1>2, QueueCounts
<1> HIDE DEF d
<1>5. NothingMissed' => NothingMissed
  <2>1. visited \in Nat /\ MaxDirectories \in Nat
    BY DiskAssumption DEF IInv, TypeInv
  <2> QED
    BY <1>1, <2>1 DEF NothingMissed
<1>6. FoundInv(r)'
  BY <1>1, <1>2, <1>4, <1>5 DEF FoundInv, GoesInto, PathOf
<1>7. DoneInv({r})'
  BY <1>1, <1>2, <1>5, DoneStays
<1>8. ListingInv'
  <2>1. \A e \in Sub(d) : e \notin Known
    BY <1>2, <1>3, FreshChildren
  <2>2. \A e \in Contents[d] : GoesInto(e) => e \notin Known
    BY <2>1 DEF Sub, GoesInto
  <2> QED
    BY <1>1, <1>4, <2>2 DEF ListingInv, GoesInto, PathOf
<1> QED
  BY <1>1, <1>2, <1>4, <1>6, <1>7, <1>8 DEF RootInv, Scanning

\* A folder that cannot be listed is counted all the same, and the user told.
LEMMA FolderFailed == IInv /\ OpenFails => RootInv'
<1> SUFFICES ASSUME IInv, OpenFails PROVE RootInv'
  OBVIOUS
<1>1. /\ MayVisit /\ legacyPc = "head" /\ legacyPc' = "head" /\ pending' = Tail(pending)
      /\ entered' = entered \cup {<<Len(left), Head(pending)>>}
      /\ inaccessible' = inaccessible + 1
      /\ UNCHANGED <<roots, left, spelling>>
  BY DEF OpenFails, MayVisit, rootVars
<1>2. PICK r \in Range(roots) : spelling = r.spelling /\ QueueInv(r)
  BY <1>1, CurrentRoot DEF Scanning
<1>3. QueueInv(r)'
  BY <1>1, <1>2, QueueCounts
<1>4. ~NothingMissed'
  BY <1>1 DEF NothingMissed, IInv, TypeInv
<1> QED
  BY <1>1, <1>2, <1>3, <1>4 DEF RootInv, Scanning, FoundInv, DoneInv, ListingInv

\* An entry in hand becomes known, found, or is passed over.
LEMMA EntryExamined == IInv /\ ExamineEntry => RootInv'
<1> SUFFICES ASSUME IInv, ExamineEntry PROVE RootInv'
  OBVIOUS
<1>1. PICK e \in listing :
         /\ listing' = listing \ {e}
         /\ pending' = IF GoesInto(e) THEN Append(pending, e) ELSE pending
         /\ dropped' = (dropped \/ IsDropped(e))
         /\ candidates' = IF IsNew(e) THEN Append(candidates, PathOf(e)) ELSE candidates
  BY DEF ExamineEntry
<1>2. /\ legacyPc = "list" /\ legacyPc' = "list"
      /\ UNCHANGED <<roots, left, spelling, visited, inaccessible, cut, entered>>
  BY DEF ExamineEntry, rootVars, legacyHistory
<1>3. PICK r \in Range(roots) :
         /\ r \in Offered /\ r.dir \in Folder /\ r.spelling \in Spelling
         /\ spelling = r.spelling /\ QueueInv(r) /\ FoundInv(r) /\ DoneInv({r})
  BY <1>2, CurrentRoot DEF Scanning
<1>4. PICK d \in Here : listing \subseteq Contents[d]
  BY <1>2 DEF IInv, RootInv, ListingInv
<1>5. \A x \in listing : GoesInto(x) => x \notin Known
  BY <1>2 DEF IInv, RootInv, ListingInv
<1>6. pending \in Seq(Folder) /\ candidates \in Seq(Path)
  BY DEF IInv, TypeInv
<1>7. d \in Folder /\ d \in Known /\ Here' = Here
  BY <1>2 DEF Here, Known
<1>8. /\ Range(pending') = Range(pending) \cup (IF GoesInto(e) THEN {e} ELSE {})
      /\ IsInjective(pending')
  <2>1. IsInjective(pending)
    BY <1>3 DEF QueueInv
  <2>2. CASE GoesInto(e)
    <3>1. e \in Folder /\ e \notin Range(pending)
      BY <1>5, <2>2 DEF GoesInto, Known
    <3> QED
      BY <1>1, <1>6, <2>1, <2>2, <3>1, AppendNew
  <2>3. CASE ~GoesInto(e)
    BY <1>1, <2>1, <2>3
  <2> QED
    BY <2>2, <2>3
<1>9. Known' = Known \cup (IF GoesInto(e) THEN {e} ELSE {})
  BY <1>7, <1>8 DEF Known
<1>10. GoesInto(e) => e \in Sub(d)
  BY <1>4 DEF GoesInto, Sub
<1>11. QueueInv(r)'
  <2>1. GoesInto(e) => e \notin Junction /\ Depth[e] > Depth[r.dir] /\ e \in Reached[r.dir][{}]
    <3> SUFFICES ASSUME GoesInto(e)
                 PROVE  e \notin Junction /\ Depth[e] > Depth[r.dir] /\ e \in Reached[r.dir][{}]
      OBVIOUS
    <3>1. Depth[d] \in Nat /\ Depth[r.dir] \in Nat /\ Depth[e] = Depth[d] + 1
      BY <1>3, <1>7, <1>10, TreeAssumption
    <3>2. Depth[d] >= Depth[r.dir]
      BY <1>3, <1>7, <3>1 DEF QueueInv
    <3>3. e \in Reached[r.dir][{}]
      BY <1>3, <1>4, <1>7, <1>10, ReachedStep DEF QueueInv
    <3> QED
      BY <3>1, <3>2, <3>3 DEF GoesInto
  <2>2. Range(pending') \cap Here' = {}
    BY <1>3, <1>5, <1>7, <1>8 DEF QueueInv, Known
  <2>3. \A x \in Known' :
           \/ x = r.dir
           \/ x \notin Junction /\ Depth[x] > Depth[r.dir] /\ \E p \in Here' : x \in Sub(p)
    BY <1>3, <1>7, <1>9, <1>10, <2>1 DEF QueueInv
  <2>4. Known' \subseteq Reached[r.dir][{}]
    BY <1>3, <1>9, <2>1 DEF QueueInv
  <2> QED
    BY <1>8, <2>2, <2>3, <2>4 DEF QueueInv
<1>12. /\ Range(candidates) \subseteq Range(candidates')
       /\ e \in Container => PathOf(e) \in Range(candidates')
  <2>1. CASE IsNew(e)
    <3>1. e \in File /\ spelling \in Spelling
      BY <2>1, <1>3, DiskAssumption DEF IsNew
    <3>2. PathOf(e) \in Path
      BY <3>1 DEF PathOf, Path
    <3>3. Range(candidates') = Range(candidates) \cup {PathOf(e)}
      BY <1>1, <1>6, <2>1, <3>2, AppendRange
    <3> QED
      BY <3>3
  <2>2. CASE ~IsNew(e)
    BY <1>1, <2>2 DEF IsNew
  <2> QED
    BY <2>1, <2>2
<1>13. NothingMissed' <=> NothingMissed
  BY <1>2 DEF NothingMissed
<1>14. FoundInv(r)'
  <2> SUFFICES ASSUME NothingMissed
               PROVE  /\ r.dir \in Known'
                      /\ \A x \in Here' : \A c \in Contents[x] \ listing' :
                            /\ c \in Folder \ Junction /\ ~dropped' => c \in Known'
                            /\ GoesInto(c) => c \in Known'
                            /\ c \in Container => PathOf(c) \in Range(candidates')
    BY <1>2, <1>13 DEF FoundInv, PathOf, GoesInto
  <2>1. r.dir \in Known
    BY <1>3 DEF FoundInv
  <2>2. ASSUME NEW x \in Here, NEW c \in Contents[x] \ listing'
        PROVE  /\ c \in Folder \ Junction /\ ~dropped' => c \in Known'
               /\ GoesInto(c) => c \in Known'
               /\ c \in Container => PathOf(c) \in Range(candidates')
    <3>1. CASE c = e
      BY <1>1, <1>9, <1>12, <3>1 DEF IsDropped
    <3>2. CASE c # e
      <4>1. c \in Contents[x] \ listing
        BY <1>1, <2>2, <3>2
      <4> QED
        BY <1>1, <1>3, <1>9, <1>12, <4>1 DEF FoundInv
    <3> QED
      BY <3>1, <3>2
  <2> QED
    BY <1>7, <1>9, <2>1, <2>2
<1>15. DoneInv({r})'
  BY <1>1, <1>2, <1>3, <1>12, <1>13, DoneStays
<1>16. ListingInv'
  <2>1. \A x \in listing' : GoesInto(x) => x \notin Known'
    BY <1>1, <1>5, <1>9
  <2> QED
    BY <1>1, <1>2, <1>4, <1>7, <2>1 DEF ListingInv, GoesInto, PathOf
<1> QED
  BY <1>2, <1>3, <1>11, <1>14, <1>15, <1>16 DEF RootInv, Scanning

\* The end of a listing, reached or not.
LEMMA ListingEnded == IInv /\ (EndListing \/ ListingBreaksOff) => RootInv'
<1> SUFFICES ASSUME IInv, EndListing \/ ListingBreaksOff PROVE RootInv'
  OBVIOUS
<1>1. /\ legacyPc = "list" /\ legacyPc' = "head" /\ listing' = {}
      /\ listing = {} \/ cut'
      /\ UNCHANGED <<roots, left, pending, spelling, candidates, visited, inaccessible, dropped,
                     entered>>
      /\ cut' = cut \/ cut'
  BY DEF EndListing, ListingBreaksOff, rootVars, scanVars, countVars, legacyHistory
<1>2. PICK r \in Range(roots) :
         spelling = r.spelling /\ QueueInv(r) /\ FoundInv(r) /\ DoneInv({r})
  BY <1>1, CurrentRoot DEF Scanning
<1>3. Here' = Here /\ Known' = Known
  BY <1>1 DEF Here, Known
<1>4. NothingMissed' => NothingMissed /\ listing = {}
  BY <1>1 DEF NothingMissed
<1>5. QueueInv(r)'
  BY <1>1, <1>2, <1>3 DEF QueueInv
<1>6. FoundInv(r)'
  BY <1>1, <1>2, <1>3, <1>4 DEF FoundInv, GoesInto, PathOf
<1>7. DoneInv({r})'
  BY <1>1, <1>2, <1>4, DoneStays
<1> QED
  BY <1>1, <1>2, <1>5, <1>6, <1>7 DEF RootInv, Scanning, ListingInv

\* The roots, their queues and what they gave.
LEMMA RootStep == IInv /\ [LegacyNext]_legacyVars => RootInv'
<1> SUFFICES ASSUME IInv, [LegacyNext]_legacyVars PROVE RootInv'
  OBVIOUS
<1> USE DEF legacyVars, rootVars, scanVars, countVars, legacyHistory
<1>0. RootInv
  BY DEF IInv
<1>1. CASE TakeRoot \/ PassRoot
  BY <1>1 DEF TakeRoot, PassRoot, RootInv, Scanning, ListingInv
<1>2. CASE BeginScans
  BY <1>2 DEF BeginScans, RootInv, Scanning, ListingInv, DoneInv
<1>3. CASE RootIsGone
  <2>1. ~NothingMissed' /\ legacyPc' = "next"
    BY <1>3 DEF RootIsGone, NothingMissed, IInv, TypeInv
  <2> QED
    BY <2>1 DEF RootInv, Scanning, ListingInv, DoneInv
<1>4. CASE PrintResult
  <2>1. candidates \in Seq(Path) /\ IsInjective(candidates) /\ DoneInv({})
    BY <1>4 DEF PrintResult, IInv, TypeInv, RootInv, ResultInv, SoundResult
  <2>2. Range(candidates') = Range(candidates)
    BY <1>4, <2>1, SortedPermutes DEF PrintResult
  <2>3. NothingMissed' => NothingMissed
    BY <1>4 DEF PrintResult, NothingMissed
  <2>4. DoneInv({})'
    BY <1>4, <2>1, <2>2, <2>3, DoneStays DEF PrintResult
  <2> QED
    BY <1>4, <2>4 DEF PrintResult, RootInv, Scanning, ListingInv
<1>5. CASE UNCHANGED legacyVars
  <2>1. Scanning' = Scanning /\ Known' = Known /\ Here' = Here /\ NothingMissed' = NothingMissed
    BY <1>5 DEF Scanning, Known, Here, NothingMissed
  <2>2. \A r : Skipped(r)' = Skipped(r)
    BY <1>5 DEF Skipped, Long
  <2>3. \A S : DoneInv(S)' = DoneInv(S)
    BY <1>5, <2>1, <2>2 DEF DoneInv, Due
  <2>4. \A r : QueueInv(r)' = QueueInv(r) /\ FoundInv(r)' = FoundInv(r)
    BY <1>5, <2>1 DEF QueueInv, FoundInv, GoesInto, PathOf
  <2>5. ListingInv' = ListingInv
    BY <1>5, <2>1 DEF ListingInv, GoesInto, PathOf
  <2> QED
    BY <1>0, <1>5, <2>1, <2>3, <2>4, <2>5 DEF RootInv
<1> QED
  BY <1>1, <1>2, <1>3, <1>4, <1>5, RootEntered, RootLeft, FolderOpened, FolderFailed,
     EntryExamined, ListingEnded DEF LegacyNext

\* What is found below a root is due, and sorting loses and doubles nothing.
LEMMA ResultStep == IInv /\ [LegacyNext]_legacyVars => ResultInv'
<1> SUFFICES ASSUME IInv, [LegacyNext]_legacyVars PROVE ResultInv'
  OBVIOUS
<1> USE DEF legacyVars, rootVars, scanVars, countVars, legacyHistory
<1>0. /\ candidates \in Seq(Path) /\ IsInjective(candidates) /\ Range(candidates) \subseteq AllDue
      /\ legacyPc \in {"roots", "done"} => left = <<>>
      /\ legacyPc = "roots" => candidates = <<>>
  BY DEF IInv, TypeInv, ResultInv, SoundResult
<1>1. CASE TakeRoot
  <2>1. candidates' = <<>> /\ legacyPc' # "done" /\ Range(<<>>) = {} /\ DOMAIN <<>> = {}
    BY <1>0, <1>1 DEF TakeRoot, Range
  <2> QED
    BY <2>1 DEF ResultInv, SoundResult, IsInjective
<1>2. CASE BeginScans
  <2>1. candidates' = <<>> /\ Range(<<>>) = {} /\ DOMAIN <<>> = {}
    BY <1>0, <1>2 DEF BeginScans, Range
  <2> QED
    BY <2>1 DEF ResultInv, SoundResult, IsInjective
<1>3. CASE ExamineEntry
  <2>1. PICK e \in listing :
           candidates' = IF IsNew(e) THEN Append(candidates, PathOf(e)) ELSE candidates
    BY <1>3 DEF ExamineEntry
  <2>2. legacyPc = "list" /\ legacyPc' = "list" /\ roots' = roots
    BY <1>3 DEF ExamineEntry
  <2>3. PICK r \in Range(roots) :
           r.dir \in Folder /\ r.spelling \in Spelling /\ spelling = r.spelling /\ QueueInv(r)
    BY <2>2, CurrentRoot DEF Scanning
  <2>4. PICK d \in Here : listing \subseteq Contents[d]
    BY <2>2 DEF IInv, RootInv, ListingInv
  <2>5. CASE IsNew(e)
    <3>1. d \in Reached[r.dir][{}]
      BY <2>3, <2>4 DEF QueueInv, Known
    <3>2. e \in Found[r.dir][{}]
      BY <2>3, <2>4, <2>5, <3>1 DEF Found, IsNew, Skips
    <3>3. PathOf(e) \in AllDue
      BY <2>3, <3>2 DEF AllDue, Due, PathOf
    <3>4. PathOf(e) \in Path /\ PathOf(e) \notin Range(candidates)
      BY <2>3, <2>5, DiskAssumption DEF PathOf, Path, IsNew
    <3>5. IsInjective(candidates') /\ Range(candidates') = Range(candidates) \cup {PathOf(e)}
      BY <1>0, <2>1, <2>5, <3>4, AppendNew
    <3> QED
      BY <1>0, <2>2, <3>3, <3>5 DEF ResultInv, SoundResult, AllDue
  <2>6. CASE ~IsNew(e)
    BY <1>0, <2>1, <2>2, <2>6 DEF ResultInv, SoundResult, AllDue
  <2> QED
    BY <2>5, <2>6
<1>4. CASE PrintResult
  <2>1. candidates' = Sorted(candidates) /\ roots' = roots
    BY <1>4 DEF PrintResult
  <2> QED
    BY <1>0, <2>1, SortedPermutes DEF ResultInv, SoundResult, AllDue
<1>5. CASE \/ PassRoot \/ EnterRoot \/ RootIsGone \/ LeaveRoot \/ OpenFolder \/ OpenFails
           \/ EndListing \/ ListingBreaksOff
  <2>1. UNCHANGED <<candidates, roots>> /\ legacyPc' # "done"
    BY <1>5 DEF PassRoot, EnterRoot, RootIsGone, LeaveRoot, OpenFolder, OpenFails,
       EndListing, ListingBreaksOff, MayVisit
  <2> QED
    BY <1>0, <2>1 DEF ResultInv, SoundResult, AllDue
<1>6. CASE UNCHANGED legacyVars
  BY <1>6 DEF IInv, ResultInv, SoundResult, AllDue
<1> QED
  BY <1>1, <1>2, <1>3, <1>4, <1>5, <1>6 DEF LegacyNext

\* The invariant holds throughout.
LEMMA Invariant == LegacySpec => []IInv
<1>1. IInv /\ [LegacyNext]_legacyVars => IInv'
  BY TypeStep, CountStep, RootStep, ResultStep DEF IInv
<1> QED
  BY InvInit, <1>1, PTL DEF LegacySpec

-----------------------------------------------------------------------------
(* The theorems. *)

\* On any disk the variables keep their types and the folders their limit.
THEOREM TypeCorrect == LegacySpec => []LegacyTypeOK
<1>1. IInv => LegacyTypeOK
  <2> SUFFICES ASSUME IInv PROVE LegacyTypeOK
    OBVIOUS
  <2>1. Range(roots) \cup Range(left) \cup Range(offer) \subseteq Offered
    BY DEF IInv, TypeInv, Range
  <2>2. Range(pending) \subseteq Folder
    BY DEF IInv, TypeInv, Range
  <2>3. Range(candidates) \subseteq {r.spelling : r \in Range(roots)} \X Container
    <3>1. \A r \in Range(roots) : r.dir \in Folder
      BY <2>1, OfferedFolders
    <3>2. \A d \in Folder : Found[d][{}] \subseteq Container
      BY DEF Found, Skips
    <3>3. AllDue \subseteq {r.spelling : r \in Range(roots)} \X Container
      BY <3>1, <3>2 DEF AllDue, Due
    <3> QED
      BY <3>3 DEF IInv, ResultInv, SoundResult
  <2> QED
    BY <2>1, <2>2, <2>3 DEF IInv, TypeInv, LegacyTypeOK, Offered
<1> QED
  BY Invariant, <1>1, PTL

\* Roots that overlap double nothing, and nothing is found that is not due.
THEOREM OnlyWhatIsDue == LegacySpec => []SoundResult
<1>1. IInv => SoundResult
  BY DEF IInv, ResultInv
<1> QED
  BY Invariant, <1>1, PTL

\* A result without a word of caution misses what a listing that broke off
\* held and what lies below a folder dropped for its length, and nothing else
\* (src/legacy/main.cpp:95-129): with neither it is everything below the roots.
THEOREM AllThatIsDue == LegacySpec => []CompleteResult
<1>1. IInv => CompleteResult
  <2> SUFFICES ASSUME IInv, legacyPc = "done", NothingMissed
               PROVE  /\ \A r \in Range(roots) : Due(r, Skipped(r)) \subseteq Range(candidates)
                      /\ ~dropped => Range(candidates) = AllDue
                      /\ \A i, j \in DOMAIN candidates : i < j => Before(candidates[i], candidates[j])
    BY DEF CompleteResult, NothingMissed
  <2>1. Range(left) = {}
    BY DEF IInv, TypeInv, Range
  <2>2. \A q \in Range(roots) : Due(q, Skipped(q)) \subseteq Range(candidates)
    BY <2>1 DEF IInv, RootInv, DoneInv
  <2>3. ~dropped => \A q \in Range(roots) : Due(q, {}) \subseteq Range(candidates)
    BY <2>2 DEF Skipped
  <2> QED
    BY <2>2, <2>3 DEF IInv, ResultInv, SoundResult, AllDue
<1> QED
  BY Invariant, <1>1, PTL

\* Whatever junctions lead where, no folder is counted twice under one root.
THEOREM EachFolderOnce == LegacySpec => []NoFolderTwice
<1>1. IInv => NoFolderTwice
  BY DEF IInv, CountInv, NoFolderTwice
<1> QED
  BY Invariant, <1>1, PTL

-----------------------------------------------------------------------------
(* Termination, as far as it is a matter of safety: a number that every step *)
(* makes smaller.  A folder that may still be counted stands for all that    *)
(* its listing can hold; the queue does not matter, for the limit empties it.*)

\* Steps around the scans of the roots.
RootSteps ==
    CASE legacyPc = "roots" -> 3 * Len(offer) + 2 * Len(roots) + 2
      [] legacyPc = "next"  -> 2 * Len(left) + 1
      [] legacyPc = "head"  -> 2 * Len(left) + 2
      [] legacyPc = "list"  -> 2 * Len(left) + 3
      [] OTHER        -> 0

\* The cost of a folder that may still be counted.
FolderCost == Cardinality(Folder \cup File) + 3

\* No more steps than these are left to the program.
StepsLeft == RootSteps + FolderCost * (MaxDirectories - visited) + Cardinality(listing)

\* The lengths of the sequences, and the numbers that StepsLeft is made of.
LEMMA PartsTyped ==
    ASSUME IsFiniteSet(Folder \cup File), TypeInv
    PROVE  /\ Len(offer) \in Nat /\ Len(roots) \in Nat /\ Len(left) \in Nat
           /\ RootSteps \in Nat /\ FolderCost \in Nat /\ MaxDirectories - visited \in Nat
           /\ FolderCost * (MaxDirectories - visited) \in Nat
           /\ IsFiniteSet(listing)
           /\ Cardinality(listing) \in Nat /\ Cardinality(listing) + 3 <= FolderCost
<1>1. Len(offer) \in Nat /\ Len(roots) \in Nat /\ Len(left) \in Nat
  BY DEF TypeInv
<1>2. RootSteps \in Nat
  BY <1>1 DEF RootSteps
<1>3. FolderCost \in Nat
  BY FS_CardinalityType DEF FolderCost
<1>4. MaxDirectories - visited \in Nat
  BY DiskAssumption DEF TypeInv
<1>5. \A m, n \in Nat : m * n \in Nat
  OBVIOUS
<1>6. /\ IsFiniteSet(listing) /\ Cardinality(listing) \in Nat
      /\ Cardinality(listing) <= Cardinality(Folder \cup File)
  BY FS_Subset, FS_CardinalityType DEF TypeInv
<1>7. Cardinality(listing) + 3 <= FolderCost
  BY <1>6, FS_CardinalityType DEF FolderCost
<1> QED
  BY <1>1, <1>2, <1>3, <1>4, <1>5, <1>6, <1>7

\* A folder more that was counted is one fewer that may be.
LEMMA OneVisitFewer ==
    \A c, m, v \in Nat : v < m => c * (m - (v + 1)) = c * (m - v) - c
<1>1. \A c, n \in Nat : c * (n - 1) = c * n - c
  OBVIOUS
<1> SUFFICES ASSUME NEW c \in Nat, NEW m \in Nat, NEW v \in Nat, v < m
             PROVE  c * (m - (v + 1)) = c * (m - v) - c
  OBVIOUS
<1>2. m - v \in Nat /\ m - (v + 1) = (m - v) - 1
  OBVIOUS
<1> QED
  BY <1>1, <1>2

\* Each step of the program makes StepsLeft smaller.
LEMMA EveryStepDown ==
    ASSUME IsFiniteSet(Folder \cup File), TypeInv, TypeInv', LegacyNext
    PROVE  StepsLeft' < StepsLeft
<1> DEFINE Visits == FolderCost * (MaxDirectories - visited)
<1>0. /\ Len(offer) \in Nat /\ Len(roots) \in Nat /\ Len(left) \in Nat
      /\ RootSteps \in Nat /\ FolderCost \in Nat /\ Visits \in Nat
      /\ IsFiniteSet(listing) /\ Cardinality(listing) \in Nat
  BY PartsTyped
<1>1. /\ RootSteps' \in Nat /\ IsFiniteSet(listing') /\ Cardinality(listing') \in Nat
      /\ Cardinality(listing') + 3 <= FolderCost
      /\ Len(offer') \in Nat /\ Len(roots') \in Nat /\ Len(left') \in Nat
  <2>1. Len(offer') \in Nat /\ Len(roots') \in Nat /\ Len(left') \in Nat
    BY DEF TypeInv
  <2>2. RootSteps' \in Nat
    BY <2>1 DEF RootSteps
  <2>3. /\ IsFiniteSet(listing') /\ Cardinality(listing') \in Nat
        /\ Cardinality(listing') <= Cardinality(Folder \cup File)
    BY FS_Subset, FS_CardinalityType DEF TypeInv
  <2>4. Cardinality(listing') + 3 <= FolderCost
    BY <2>3, FS_CardinalityType DEF FolderCost
  <2> QED
    BY <2>1, <2>2, <2>3, <2>4
<1>2. StepsLeft = RootSteps + Visits + Cardinality(listing)
  BY DEF StepsLeft
<1>3. StepsLeft' = RootSteps' + Visits' + Cardinality(listing')
  BY DEF StepsLeft
<1>4. visited' = visited => Visits' = Visits
  OBVIOUS
<1>5. visited' = visited + 1 /\ visited < MaxDirectories => Visits' = Visits - FolderCost
  BY <1>0, OneVisitFewer, DiskAssumption DEF TypeInv
<1> HIDE DEF Visits
<1>6. \A r, q, v, l \in Nat : q < r => q + v + l < r + v + l
  OBVIOUS
<1>7. CASE \/ TakeRoot \/ PassRoot \/ BeginScans
           \/ EnterRoot \/ RootIsGone \/ LeaveRoot \/ EndListing \/ PrintResult
  <2>1. visited' = visited /\ listing' = listing
    BY <1>7 DEF TakeRoot, PassRoot, BeginScans, EnterRoot, RootIsGone, LeaveRoot,
                EndListing, PrintResult, countVars, scanVars
  <2>2. RootSteps' < RootSteps
    <3>1. CASE TakeRoot
      <4>1. /\ legacyPc = "roots" /\ legacyPc' = "roots"
            /\ Len(offer') = Len(offer) - 1 /\ Len(roots') = Len(roots) + 1
        BY <3>1 DEF TakeRoot, TypeInv
      <4> QED
        BY <1>0, <4>1 DEF RootSteps
    <3>2. CASE PassRoot
      <4>1. /\ legacyPc = "roots" /\ legacyPc' = "roots"
            /\ Len(offer') = Len(offer) - 1 /\ roots' = roots
        BY <3>2 DEF PassRoot, TypeInv
      <4> QED
        BY <1>0, <4>1 DEF RootSteps
    <3>3. CASE BeginScans
      BY <1>0, <3>3 DEF BeginScans, RootSteps
    <3>4. CASE EnterRoot \/ RootIsGone
      <4>1. legacyPc = "next" /\ legacyPc' \in {"next", "head"} /\ Len(left') = Len(left) - 1
        BY <3>4 DEF EnterRoot, RootIsGone, TypeInv
      <4> QED
        BY <1>0, <4>1 DEF RootSteps
    <3>5. CASE LeaveRoot \/ EndListing \/ PrintResult
      <4>1. /\ left' = left
            /\ \/ legacyPc = "head" /\ legacyPc' = "next"
               \/ legacyPc = "list" /\ legacyPc' = "head"
               \/ legacyPc = "next" /\ legacyPc' = "done"
        BY <3>5 DEF LeaveRoot, EndListing, PrintResult, scanVars
      <4> QED
        BY <1>0, <4>1 DEF RootSteps
    <3> QED
      BY <1>7, <3>1, <3>2, <3>3, <3>4, <3>5
  <2>3. StepsLeft' = RootSteps' + Visits + Cardinality(listing)
    BY <1>3, <1>4, <2>1
  <2> QED
    BY <1>0, <1>1, <1>2, <1>6, <2>2, <2>3
<1>8. CASE OpenFolder \/ OpenFails
  <2>1. /\ legacyPc = "head" /\ legacyPc' \in {"head", "list"} /\ left' = left
        /\ visited' = visited + 1 /\ visited < MaxDirectories
    BY <1>8 DEF OpenFolder, OpenFails, MayVisit
  <2>2. RootSteps' <= RootSteps + 1
    BY <1>0, <2>1 DEF RootSteps
  <2>3. StepsLeft' = RootSteps' + (Visits - FolderCost) + Cardinality(listing')
    BY <1>3, <1>5, <2>1
  <2>4. \A r, q, v, c, k, l \in Nat :
            q <= r + 1 /\ l + 3 <= c => q + (v - c) + l < r + v + k
    OBVIOUS
  <2> QED
    BY <1>0, <1>1, <1>2, <2>2, <2>3, <2>4
<1>9. CASE ExamineEntry \/ ListingBreaksOff
  <2>1. /\ visited' = visited /\ left' = left
        /\ legacyPc = "list" /\ legacyPc' \in {"list", "head"}
    BY <1>9 DEF ExamineEntry, ListingBreaksOff, countVars
  <2>2. RootSteps' <= RootSteps
    BY <1>0, <2>1 DEF RootSteps
  <2>3. Cardinality(listing') < Cardinality(listing)
    <3>1. PICK e \in listing : listing' \subseteq listing \ {e}
      BY <1>9 DEF ExamineEntry, ListingBreaksOff
    <3>2. IsFiniteSet(listing \ {e}) /\ Cardinality(listing \ {e}) = Cardinality(listing) - 1
      BY <1>0, FS_RemoveElement
    <3>3. Cardinality(listing') <= Cardinality(listing \ {e})
      BY <3>1, <3>2, FS_Subset
    <3> QED
      BY <1>0, <1>1, <3>2, <3>3
  <2>4. StepsLeft' = RootSteps' + Visits + Cardinality(listing')
    BY <1>3, <1>4, <2>1
  <2>5. \A r, q, v, k, l \in Nat : q <= r /\ l < k => q + v + l < r + v + k
    OBVIOUS
  <2> QED
    BY <1>0, <1>1, <1>2, <2>2, <2>3, <2>4, <2>5
<1> QED
  BY <1>7, <1>8, <1>9 DEF LegacyNext

\* The program has finitely many steps to take, for the listings are finite
\* and the folders are counted against one limit: whatever junctions the disk
\* has and whatever fails, the scans of all roots and the print of their result
\* are over after a number of steps that is fixed when the roots are offered (src/legacy/main.cpp:141-177).
THEOREM ProgramRunsOut ==
    ASSUME IsFiniteSet(Folder \cup File)
    PROVE  LegacySpec => /\ StepsLeft = 3 * Len(offer) + 2 + FolderCost * MaxDirectories
                         /\ [](StepsLeft \in Nat)
                         /\ [][StepsLeft' < StepsLeft]_legacyVars
<1>1. LegacyInit => StepsLeft = 3 * Len(offer) + 2 + FolderCost * MaxDirectories
  <2> SUFFICES ASSUME LegacyInit
               PROVE  StepsLeft = 3 * Len(offer) + 2 + FolderCost * MaxDirectories
    OBVIOUS
  <2>1. legacyPc = "roots" /\ roots = <<>> /\ visited = 0 /\ Cardinality(listing) = 0
    BY FS_EmptySet, Zenon DEF LegacyInit
  <2>2. RootSteps = 3 * Len(offer) + 2 /\ Len(offer) \in Nat
    BY <2>1, InvInit, PartsTyped DEF RootSteps, IInv
  <2>3. FolderCost * (MaxDirectories - visited) \in Nat /\ MaxDirectories - visited = MaxDirectories
    BY <2>1, InvInit, PartsTyped, DiskAssumption DEF IInv
  <2>4. StepsLeft = (3 * Len(offer) + 2) + FolderCost * MaxDirectories + 0
    BY <2>1, <2>2, <2>3, Zenon DEF StepsLeft
  <2>5. \A l, c \in Nat : (3 * l + 2) + c + 0 = 3 * l + 2 + c
    OBVIOUS
  <2> QED
    BY <2>2, <2>3, <2>4, <2>5, Zenon
<1>2. IInv => StepsLeft \in Nat
  <2>1. \A m, n, k \in Nat : m + n + k \in Nat
    OBVIOUS
  <2> QED
    BY <2>1, PartsTyped, Zenon DEF IInv, StepsLeft
<1>3. IInv /\ IInv' /\ [LegacyNext]_legacyVars => [StepsLeft' < StepsLeft]_legacyVars
  BY EveryStepDown DEF IInv
<1> QED
  BY <1>1, <1>2, <1>3, Invariant, PTL DEF LegacySpec

=============================================================================
