-------------------------- MODULE SearchPlanProofs --------------------------
(* Proofs about SearchPlan, for any drives, any entries next to the profile *)
(* and any order in which the compiler evaluates the arguments.             *)
EXTENDS SearchPlan, FiniteSetTheorems, SequenceTheorems, TLAPS

-----------------------------------------------------------------------------
(* Picking elements by their places. *)

\* The k-th of the places P, and that each place is the k-th for some k.
LEMMA NthPlace ==
    ASSUME NEW n \in Nat, NEW P \in SUBSET (1..n)
    PROVE  /\ IsFiniteSet(P) /\ Cardinality(P) \in Nat
           /\ \A k \in 1..Cardinality(P) :
                 Nth(P, k) \in P /\ Cardinality(P \cap 1..Nth(P, k)) = k
           /\ \A i \in P : \E k \in 1..Cardinality(P) : Nth(P, k) = i
<1>1. IsFiniteSet(P) /\ Cardinality(P) \in Nat
  <2>1. IsFiniteSet(1..n)
    BY FS_Interval
  <2> QED
    BY <2>1, FS_Subset, FS_CardinalityType
<1> DEFINE m == Cardinality(P)
<1> DEFINE UpTo(i) == P \cap 1..i
<1> DEFINE place == [i \in P |-> Cardinality(UpTo(i))]
<1>2. \A i \in P : IsFiniteSet(UpTo(i)) /\ Cardinality(UpTo(i)) \in 1..m
  <2> SUFFICES ASSUME NEW i \in P
               PROVE  IsFiniteSet(UpTo(i)) /\ Cardinality(UpTo(i)) \in 1..m
    OBVIOUS
  <2>1. UpTo(i) \in SUBSET P /\ i \in UpTo(i)
    OBVIOUS
  <2>2. IsFiniteSet(UpTo(i)) /\ Cardinality(UpTo(i)) \in Nat /\ Cardinality(UpTo(i)) <= m
    BY <2>1, <1>1, FS_Subset, FS_CardinalityType
  <2>3. Cardinality(UpTo(i)) # 0
    BY <2>1, <2>2, FS_EmptySet
  <2> QED
    BY <2>2, <2>3, <1>1
<1>3. \A i, j \in P : i < j => Cardinality(UpTo(i)) < Cardinality(UpTo(j))
  <2> SUFFICES ASSUME NEW i \in P, NEW j \in P, i < j
               PROVE  Cardinality(UpTo(i)) < Cardinality(UpTo(j))
    OBVIOUS
  <2>1. UpTo(i) \cup {j} \in SUBSET UpTo(j) /\ j \notin UpTo(i)
    OBVIOUS
  <2>2. Cardinality(UpTo(i) \cup {j}) = Cardinality(UpTo(i)) + 1
    BY <2>1, <1>2, FS_AddElement
  <2>3. Cardinality(UpTo(i) \cup {j}) <= Cardinality(UpTo(j))
    BY <2>1, <1>2, FS_Subset
  <2> QED
    BY <2>2, <2>3, <1>2, <1>1
<1>4. place \in Injection(P, 1..m)
  <2>1. \A i, j \in P : i # j => Cardinality(UpTo(i)) # Cardinality(UpTo(j))
    <3> SUFFICES ASSUME NEW i \in P, NEW j \in P, i # j
                 PROVE  Cardinality(UpTo(i)) # Cardinality(UpTo(j))
      OBVIOUS
    <3>1. i < j \/ j < i
      OBVIOUS
    <3> QED
      BY <3>1, <1>2, <1>3
  <2>2. place \in [P -> 1..m]
    BY <1>2
  <2> QED
    BY <2>1, <2>2 DEF Injection, IsInjective
<1>5. IsFiniteSet(1..m) /\ Cardinality(1..m) = m
  BY <1>1, FS_Interval
<1>6. place \in Surjection(P, 1..m)
  BY <1>4, <1>5, FS_Injection
<1>7. \A k \in 1..m : \E i \in P : Cardinality(UpTo(i)) = k
  BY <1>6 DEF Surjection
<1>8. \A k \in 1..m : Nth(P, k) \in P /\ Cardinality(UpTo(Nth(P, k))) = k
  BY <1>7 DEF Nth
<1>9. \A i \in P : \E k \in 1..m : Nth(P, k) = i
  <2> SUFFICES ASSUME NEW i \in P PROVE \E k \in 1..m : Nth(P, k) = i
    OBVIOUS
  <2> DEFINE k == Cardinality(UpTo(i))
  <2>1. k \in 1..m /\ Nth(P, k) \in P /\ Cardinality(UpTo(Nth(P, k))) = k
    BY <1>2, <1>8
  <2>2. Nth(P, k) = i
    BY <2>1, <1>4 DEF Injection, IsInjective
  <2> QED
    BY <2>1, <2>2
<1> QED
  BY <1>1, <1>8, <1>9

\* What is picked is what stands at the places, and different if that is.
LEMMA PickedElements ==
    ASSUME NEW S, NEW s \in Seq(S), NEW P \in SUBSET DOMAIN s
    PROVE  /\ Picked(s, P) \in Seq(S)
           /\ DOMAIN Picked(s, P) = 1..Len(Picked(s, P))
           /\ Len(Picked(s, P)) = Cardinality(P)
           /\ Range(Picked(s, P)) = {s[i] : i \in P}
           /\ (\A i, j \in P : s[i] = s[j] => i = j) => IsInjective(Picked(s, P))
<1>0. PICK n \in Nat : n = Len(s)
  OBVIOUS
<1>1. P \in SUBSET (1..n) /\ DOMAIN s = 1..n
  BY <1>0
<1>2. /\ Cardinality(P) \in Nat
      /\ \A k \in 1..Cardinality(P) : Nth(P, k) \in P /\ Cardinality(P \cap 1..Nth(P, k)) = k
      /\ \A i \in P : \E k \in 1..Cardinality(P) : Nth(P, k) = i
  BY <1>1, NthPlace
<1>3. PICK m \in Nat : m = Cardinality(P)
  BY <1>2
<1>4. Picked(s, P) = [k \in 1..m |-> s[Nth(P, k)]]
  BY <1>3 DEF Picked
<1>5. \A k \in 1..m : s[Nth(P, k)] \in S
  <2>1. \A i \in 1..n : s[i] \in S
    BY <1>0
  <2>2. \A k \in 1..m : Nth(P, k) \in 1..n
    BY <1>1, <1>2, <1>3
  <2> QED
    BY <2>1, <2>2
<1>6. Picked(s, P) \in Seq(S) /\ Len(Picked(s, P)) = m /\ DOMAIN Picked(s, P) = 1..m
  BY <1>4, <1>5
<1>7. Range(Picked(s, P)) = {s[i] : i \in P}
  <2>1. Range(Picked(s, P)) = {s[Nth(P, k)] : k \in 1..m}
    BY <1>4 DEF Range
  <2> QED
    BY <2>1, <1>2, <1>3
<1>8. ASSUME \A i, j \in P : s[i] = s[j] => i = j PROVE IsInjective(Picked(s, P))
  <2> SUFFICES ASSUME NEW k \in 1..m, NEW l \in 1..m, s[Nth(P, k)] = s[Nth(P, l)]
               PROVE  k = l
    BY <1>4 DEF IsInjective
  <2>1. Nth(P, k) = Nth(P, l)
    BY <1>8, <1>2, <1>3
  <2> QED
    BY <2>1, <1>2, <1>3
<1> QED
  BY <1>3, <1>6, <1>7, <1>8

\* A new element at the end leaves a sequence without repetition.
LEMMA AppendNew ==
    ASSUME NEW S, NEW s \in Seq(S), NEW e \in S, IsInjective(s), e \notin Range(s)
    PROVE  /\ Append(s, e) \in Seq(S) /\ IsInjective(Append(s, e))
           /\ Range(Append(s, e)) = Range(s) \cup {e}
<1>0. PICK n \in Nat : n = Len(s)
  OBVIOUS
<1>1. /\ Append(s, e) \in Seq(S) /\ DOMAIN Append(s, e) = 1..(n + 1) /\ DOMAIN s = 1..n
      /\ Append(s, e)[n + 1] = e /\ \A i \in 1..n : Append(s, e)[i] = s[i]
  BY <1>0
<1>2. Range(Append(s, e)) = Range(s) \cup {e}
  BY <1>1 DEF Range
<1>3. IsInjective(Append(s, e))
  <2>1. \A i \in 1..n : s[i] # e
    BY <1>1 DEF Range
  <2>2. \A i \in 1..(n + 1) : i \in 1..n \/ i = n + 1
    BY <1>0
  <2> QED
    BY <1>1, <2>1, <2>2 DEF IsInjective
<1> QED
  BY <1>1, <1>2, <1>3

\* Tuples written out.
LEMMA AppendToTuples ==
    ASSUME NEW a, NEW b, NEW c
    PROVE  Append(<<a>>, b) = <<a, b>> /\ Append(<<a, b>>, c) = <<a, b, c>>
<1> DEFINE S == {a, b, c}
<1>1. <<a>> \in Seq(S) /\ <<a, b>> \in Seq(S) /\ <<a, b, c>> \in Seq(S)
  OBVIOUS
<1>2. Append(<<a>>, b) = <<a, b>>
  <2>1. /\ Append(<<a>>, b) \in Seq(S) /\ Len(Append(<<a>>, b)) = 2 /\ Len(<<a, b>>) = 2
        /\ \A i \in 1..2 : Append(<<a>>, b)[i] = <<a, b>>[i]
    BY <1>1
  <2> HIDE DEF S
  <2> QED
    BY <1>1, <2>1, SeqEqual
<1>3. Append(<<a, b>>, c) = <<a, b, c>>
  <2>1. /\ Append(<<a, b>>, c) \in Seq(S) /\ Len(Append(<<a, b>>, c)) = 3 /\ Len(<<a, b, c>>) = 3
        /\ \A i \in 1..3 : Append(<<a, b>>, c)[i] = <<a, b, c>>[i]
    BY <1>1
  <2> HIDE DEF S
  <2> QED
    BY <1>1, <2>1, SeqEqual
<1> QED
  BY <1>2, <1>3

\* The first element taken off leaves one without repetition that has it not.
LEMMA TailRest ==
    ASSUME NEW S, NEW s \in Seq(S), s # <<>>, IsInjective(s)
    PROVE  /\ Head(s) \in S /\ Tail(s) \in Seq(S) /\ Len(Tail(s)) = Len(s) - 1
           /\ IsInjective(Tail(s)) /\ Range(Tail(s)) = Range(s) \ {Head(s)}
           /\ Head(s) \in Range(s)
<1>0. PICK n \in Nat : n = Len(s)
  OBVIOUS
<1>1. /\ n > 0 /\ Head(s) = s[1] /\ Tail(s) \in Seq(S) /\ DOMAIN s = 1..n
      /\ Len(Tail(s)) = n - 1 /\ DOMAIN Tail(s) = 1..(n - 1)
      /\ \A i \in 1..(n - 1) : Tail(s)[i] = s[i + 1]
  BY <1>0
<1>2. \A i \in 1..(n - 1) : i + 1 \in 1..n /\ i + 1 # 1
  BY <1>0
<1>3. \A i \in 1..n : i = 1 \/ \E j \in 1..(n - 1) : i = j + 1
  <2> SUFFICES ASSUME NEW i \in 1..n, i # 1 PROVE \E j \in 1..(n - 1) : i = j + 1
    OBVIOUS
  <2>1. i - 1 \in 1..(n - 1) /\ i = (i - 1) + 1
    BY <1>0
  <2> QED
    BY <2>1
<1>4. 1 \in 1..n
  BY <1>0, <1>1
<1>5. IsInjective(Tail(s))
  <2> SUFFICES ASSUME NEW i \in 1..(n - 1), NEW j \in 1..(n - 1), Tail(s)[i] = Tail(s)[j]
               PROVE  i = j
    BY <1>1 DEF IsInjective
  <2>1. i + 1 = j + 1
    BY <1>1, <1>2 DEF IsInjective
  <2> QED
    BY <2>1
<1>6. Range(s) = {s[i] : i \in 1..n} /\ Range(Tail(s)) = {s[i + 1] : i \in 1..(n - 1)}
  BY <1>1 DEF Range
<1>7. \A i \in 1..(n - 1) : s[i + 1] # s[1]
  BY <1>1, <1>2, <1>4 DEF IsInjective
<1>8. Range(Tail(s)) = Range(s) \ {s[1]}
  <2>1. Range(Tail(s)) \subseteq Range(s) \ {s[1]}
    BY <1>2, <1>6, <1>7
  <2>2. \A i \in 1..n : s[i] # s[1] => \E j \in 1..(n - 1) : s[i] = s[j + 1]
    BY <1>3
  <2>3. Range(s) \ {s[1]} \subseteq Range(Tail(s))
    BY <2>2, <1>6
  <2> QED
    BY <2>1, <2>3
<1> QED
  BY <1>0, <1>1, <1>4, <1>5, <1>6, <1>8

-----------------------------------------------------------------------------
(* The letters. *)

\* There are finitely many drives, as many as letters.
LEMMA DrivesFinite == IsFiniteSet(Drive) /\ Cardinality(Drive) \in Nat
<1>0. PICK n \in Nat : n = Len(Letters)
  BY PlanAssumption
<1>1. Letters \in Surjection(1..n, Drive)
  BY <1>0, PlanAssumption DEF Surjection, Drive, Range
<1>2. IsFiniteSet(1..n)
  BY FS_Interval
<1> QED
  BY <1>1, <1>2, FS_Surjection, FS_CardinalityType

\* Some drives in the order of their letters: each once, and no more than
\* there are.
LEMMA AscendingLists ==
    ASSUME NEW S \in SUBSET Drive
    PROVE  /\ IsFiniteSet(S) /\ Cardinality(S) \in Nat
           /\ Cardinality(S) <= Cardinality(Drive)
           /\ Ascending(S) \in Seq(Drive) /\ IsInjective(Ascending(S))
           /\ Range(Ascending(S)) = S /\ Len(Ascending(S)) <= Cardinality(S)
<1> DEFINE P == {i \in DOMAIN Letters : Letters[i] \in S}
<1>0. PICK n \in Nat : n = Len(Letters)
  BY PlanAssumption
<1>1. /\ Letters \in Seq(Drive) /\ DOMAIN Letters = 1..n
      /\ \A i, j \in 1..n : Letters[i] = Letters[j] => i = j
  BY <1>0, PlanAssumption DEF IsInjective
<1>2. IsFiniteSet(S) /\ Cardinality(S) \in Nat /\ Cardinality(S) <= Cardinality(Drive)
  BY DrivesFinite, FS_Subset, FS_CardinalityType
<1>3. /\ Ascending(S) \in Seq(Drive) /\ IsInjective(Ascending(S))
      /\ Range(Ascending(S)) = {Letters[i] : i \in P}
      /\ Len(Ascending(S)) = Cardinality(P)
  BY <1>1, PickedElements DEF Ascending
<1>4. \A d \in Drive : \E i \in 1..n : Letters[i] = d
  BY <1>1 DEF Drive, Range
<1>5. {Letters[i] : i \in P} = S
  BY <1>1, <1>4
<1>6. Cardinality(P) <= Cardinality(S)
  <2>1. [i \in P |-> Letters[i]] \in Injection(P, S)
    BY <1>1 DEF Injection, IsInjective
  <2> QED
    BY <2>1, <1>2, FS_Injection
<1> QED
  BY <1>2, <1>3, <1>5, <1>6

-----------------------------------------------------------------------------
(* The invariant. *)

\* Where the evaluation of the arguments stands.
ControlInv ==
    /\ planPc \in {"profile", "arguments", "folders", "siblings", "entries",
                   "drives", "fill", "kinds", "done", "thrown"}
    /\ arguments \subseteq {"folders", "siblings", "drives"}
    /\ planPc = "folders" => "folders" \notin arguments
    /\ planPc \in {"siblings", "entries"} => "siblings" \notin arguments
    /\ planPc \in {"drives", "fill", "kinds"} => "drives" \notin arguments
    /\ planPc = "profile" => arguments = {"folders", "siblings", "drives"}
    /\ planPc = "done" => arguments = {}

\* The folders resolved so far.
FoldersInv ==
    /\ folders \in {<<>>, <<"downloads">>, <<"downloads", "desktop">>, KnownFolders}
    /\ "folders" \in arguments => folders = <<>>
    /\ planPc = "folders" => folders # KnownFolders

Others == {e \in Profile : IsOther(e)}

\* Every other profile is in the list, missed, or still to be looked at.
ProfilesInv ==
    /\ entries \subseteq Beside
    /\ others \in Seq(Beside) /\ IsInjective(others)
    /\ entries \cap missed = {}
    /\ planPc \notin {"entries", "thrown"} => entries = {}
    /\ "siblings" \in arguments \/ planPc = "siblings" => others = <<>> /\ missed = {}
    /\ "siblings" \notin arguments /\ planPc \notin {"siblings", "thrown"}
          => Range(others) = (Others \ missed) \ entries

Types == {"fixed", "removable", "remote", "cdrom", "no_root_dir"}

DriveRecords == [root : Drive, type : Types]

Real(d) == [root |-> d, type |-> Kind[d]]

\* What the two calls and the loop made of the drives: no drive is in hand
\* twice, and once there is a list no drive that stayed is lost.
DrivesInv ==
    /\ present \subseteq Drive /\ stayed \subseteq present
    /\ required \in 0..Cardinality(Drive)
    /\ cursor \in Seq(Drive) /\ drives \in Seq(DriveRecords)
    /\ Len(cursor) + Len(drives) <= required
    /\ IsInjective(cursor)
    /\ \A i, j \in DOMAIN drives : drives[i].root = drives[j].root => i = j
    /\ \A i \in DOMAIN drives : drives[i].root \notin Range(cursor)
    /\ planPc # "kinds" => cursor = <<>>
    /\ "drives" \in arguments \/ planPc \in {"drives", "fill"} => drives = <<>> /\ lost = "not"
    /\ "drives" \notin arguments /\ planPc \notin {"drives", "fill", "thrown"} /\ lost = "not"
          => \A d \in stayed : d \in Range(cursor) \/ Real(d) \in Range(drives)

PlanInv == plan = IF planPc = "done" THEN Composed ELSE <<>>

IInv == ControlInv /\ FoldersInv /\ ProfilesInv /\ DrivesInv /\ PlanInv

-----------------------------------------------------------------------------
(* Every step keeps it. *)

\* The next argument is evaluated after the last one.
LEMMA ControlStep == IInv /\ [PlanNext]_planVars => ControlInv'
<1> SUFFICES ASSUME IInv, [PlanNext]_planVars PROVE ControlInv'
  OBVIOUS
<1> USE DEF planVars, folderVars, driveVars, diskVars, planHistory
<1>1. CASE FindProfile
  BY <1>1 DEF FindProfile, IInv, ControlInv
<1>2. CASE Throw
  BY <1>2 DEF Throw, IInv, ControlInv
<1>3. CASE BeginArgument
  BY <1>3 DEF BeginArgument, IInv, ControlInv
<1>4. CASE ResolveFolder
  BY <1>4 DEF ResolveFolder, IInv, ControlInv
<1>5. CASE OpenProfiles
  BY <1>5 DEF OpenProfiles, IInv, ControlInv
<1>6. CASE OpenProfilesFails
  BY <1>6 DEF OpenProfilesFails, IInv, ControlInv
<1>7. CASE LookAtEntry
  BY <1>7 DEF LookAtEntry, IInv, ControlInv
<1>8. CASE NextEntryThrows
  BY <1>8 DEF NextEntryThrows, IInv, ControlInv
<1>9. CASE EndProfiles
  BY <1>9 DEF EndProfiles, IInv, ControlInv
<1>10. CASE SizeDrives
  BY <1>10 DEF SizeDrives, IInv, ControlInv
<1>11. CASE DrivesRefused
  BY <1>11 DEF DrivesRefused, IInv, ControlInv
<1>12. CASE FillDrives
  BY <1>12 DEF FillDrives, IInv, ControlInv
<1>13. CASE AskKind
  BY <1>13 DEF AskKind, IInv, ControlInv
<1>14. CASE EndDrives
  BY <1>14 DEF EndDrives, IInv, ControlInv
<1>15. CASE Compose
  BY <1>15 DEF Compose, IInv, ControlInv
<1>16. CASE DriveComes
  BY <1>16 DEF DriveComes, IInv, ControlInv
<1>17. CASE DriveGoes
  BY <1>17 DEF DriveGoes, IInv, ControlInv
<1>18. CASE UNCHANGED planVars
  BY <1>18 DEF IInv, ControlInv
<1> QED
  BY <1>1, <1>2, <1>3, <1>4, <1>5, <1>6, <1>7, <1>8, <1>9,
     <1>10, <1>11, <1>12, <1>13, <1>14, <1>15, <1>16, <1>17, <1>18 DEF PlanNext, Build

\* The folders are resolved in their order.
LEMMA FoldersStep == IInv /\ [PlanNext]_planVars => FoldersInv'
<1> SUFFICES ASSUME IInv, [PlanNext]_planVars PROVE FoldersInv'
  OBVIOUS
<1> USE DEF planVars, folderVars, driveVars, diskVars, planHistory
<1>1. CASE FindProfile
  BY <1>1 DEF FindProfile, IInv, ControlInv, FoldersInv, KnownFolders
<1>2. CASE Throw
  BY <1>2 DEF Throw, IInv, ControlInv, FoldersInv, KnownFolders
<1>3. CASE BeginArgument
  BY <1>3 DEF BeginArgument, IInv, ControlInv, FoldersInv, KnownFolders
<1>4. CASE ResolveFolder
  <2>1. folders \in {<<>>, <<"downloads">>, <<"downloads", "desktop">>}
    BY <1>4 DEF ResolveFolder, IInv, FoldersInv
  <2>2. /\ folders' = Append(folders, KnownFolders[Len(folders) + 1])
        /\ arguments' = arguments /\ "folders" \notin arguments
        /\ planPc' = IF Len(folders') = Len(KnownFolders) THEN "arguments" ELSE planPc
    BY <1>4 DEF ResolveFolder, IInv, ControlInv
  <2>3. CASE folders = <<>>
    <3>1. folders' = <<"downloads">>
      BY <2>2, <2>3 DEF KnownFolders
    <3> QED
      BY <2>2, <3>1 DEF FoldersInv, KnownFolders
  <2>4. CASE folders = <<"downloads">>
    <3>1. Len(folders) + 1 = 2 /\ KnownFolders[2] = "desktop"
      BY <2>4 DEF KnownFolders
    <3>2. Append(<<"downloads">>, "desktop") = <<"downloads", "desktop">>
      BY AppendToTuples
    <3>3. folders' = <<"downloads", "desktop">>
      BY <2>2, <2>4, <3>1, <3>2
    <3> QED
      BY <2>2, <3>3 DEF FoldersInv, KnownFolders
  <2>5. CASE folders = <<"downloads", "desktop">>
    <3>3. Len(folders) + 1 = 3 /\ KnownFolders[3] = "documents"
      BY <2>5 DEF KnownFolders
    <3>4. Append(<<"downloads", "desktop">>, "documents") = <<"downloads", "desktop", "documents">>
      BY AppendToTuples
    <3>1. folders' = KnownFolders
      BY <2>2, <2>5, <3>3, <3>4 DEF KnownFolders
    <3>2. planPc' = "arguments"
      BY <2>2, <3>1
    <3> QED
      BY <2>2, <3>1, <3>2 DEF FoldersInv
  <2> QED
    BY <2>1, <2>3, <2>4, <2>5
<1>5. CASE OpenProfiles
  BY <1>5 DEF OpenProfiles, IInv, ControlInv, FoldersInv, KnownFolders
<1>6. CASE OpenProfilesFails
  BY <1>6 DEF OpenProfilesFails, IInv, ControlInv, FoldersInv, KnownFolders
<1>7. CASE LookAtEntry
  BY <1>7 DEF LookAtEntry, IInv, ControlInv, FoldersInv, KnownFolders
<1>8. CASE NextEntryThrows
  BY <1>8 DEF NextEntryThrows, IInv, ControlInv, FoldersInv, KnownFolders
<1>9. CASE EndProfiles
  BY <1>9 DEF EndProfiles, IInv, ControlInv, FoldersInv, KnownFolders
<1>10. CASE SizeDrives
  BY <1>10 DEF SizeDrives, IInv, ControlInv, FoldersInv, KnownFolders
<1>11. CASE DrivesRefused
  BY <1>11 DEF DrivesRefused, IInv, ControlInv, FoldersInv, KnownFolders
<1>12. CASE FillDrives
  BY <1>12 DEF FillDrives, IInv, ControlInv, FoldersInv, KnownFolders
<1>13. CASE AskKind
  BY <1>13 DEF AskKind, IInv, ControlInv, FoldersInv, KnownFolders
<1>14. CASE EndDrives
  BY <1>14 DEF EndDrives, IInv, ControlInv, FoldersInv, KnownFolders
<1>15. CASE Compose
  BY <1>15 DEF Compose, IInv, ControlInv, FoldersInv, KnownFolders
<1>16. CASE DriveComes
  BY <1>16 DEF DriveComes, IInv, ControlInv, FoldersInv, KnownFolders
<1>17. CASE DriveGoes
  BY <1>17 DEF DriveGoes, IInv, ControlInv, FoldersInv, KnownFolders
<1>18. CASE UNCHANGED planVars
  BY <1>18 DEF IInv, ControlInv, FoldersInv, KnownFolders
<1> QED
  BY <1>1, <1>2, <1>3, <1>4, <1>5, <1>6, <1>7, <1>8, <1>9,
     <1>10, <1>11, <1>12, <1>13, <1>14, <1>15, <1>16, <1>17, <1>18 DEF PlanNext, Build

\* An entry goes from those to look at to the list or is passed over.
LEMMA ProfilesStep == IInv /\ [PlanNext]_planVars => ProfilesInv'
<1> SUFFICES ASSUME IInv, [PlanNext]_planVars PROVE ProfilesInv'
  OBVIOUS
<1> USE DEF planVars, folderVars, driveVars, diskVars, planHistory
<1>1. CASE FindProfile
  BY <1>1 DEF FindProfile, IInv, ControlInv, ProfilesInv
<1>2. CASE Throw
  BY <1>2 DEF Throw, IInv, ControlInv, ProfilesInv
<1>3. CASE BeginArgument
  BY <1>3 DEF BeginArgument, IInv, ControlInv, ProfilesInv
<1>4. CASE ResolveFolder
  BY <1>4 DEF ResolveFolder, IInv, ControlInv, ProfilesInv
<1>5. CASE OpenProfiles
  <2>1. /\ others = <<>> /\ missed = {} /\ "siblings" \notin arguments
        /\ planPc' = "entries" /\ entries' = Beside
        /\ UNCHANGED <<others, missed, arguments>>
    BY <1>5 DEF OpenProfiles, planHistory, IInv, ControlInv, ProfilesInv
  <2>2. Range(others) = {} /\ Profile \subseteq Beside
    BY <2>1, PlanAssumption DEF Range
  <2> QED
    BY <2>1, <2>2 DEF IInv, ProfilesInv, Others
<1>6. CASE OpenProfilesFails
  <2>1. /\ others = <<>> /\ entries = {} /\ "siblings" \notin arguments
        /\ planPc' = "arguments" /\ missed' = Profile
        /\ UNCHANGED <<others, entries, arguments>>
    BY <1>6 DEF OpenProfilesFails, folderVars, IInv, ControlInv, ProfilesInv
  <2>2. Range(others) = {}
    BY <2>1 DEF Range
  <2> QED
    BY <2>1, <2>2 DEF IInv, ProfilesInv, Others
<1>7. CASE LookAtEntry
  <2>1. PICK e \in entries :
           /\ entries' = entries \ {e}
           /\ \/ IsOther(e) /\ others' = Append(others, e) /\ UNCHANGED missed
              \/ ~IsOther(e) /\ UNCHANGED <<others, missed>>
              \/ missed' = missed \cup {e} /\ UNCHANGED others
    BY <1>7 DEF LookAtEntry
  <2>2. /\ planPc = "entries" /\ planPc' = planPc /\ arguments' = arguments /\ "siblings" \notin arguments
        /\ entries \subseteq Beside /\ others \in Seq(Beside) /\ IsInjective(others)
        /\ Range(others) = (Others \ missed) \ entries /\ entries \cap missed = {}
    BY <1>7 DEF LookAtEntry, IInv, ControlInv, ProfilesInv
  <2>3. CASE IsOther(e) /\ others' = Append(others, e) /\ UNCHANGED missed
    <3>1. others' \in Seq(Beside) /\ IsInjective(others') /\ Range(others') = Range(others) \cup {e}
      BY <2>2, <2>3, AppendNew
    <3>2. e \notin missed
      BY <2>2
    <3> QED
      BY <2>1, <2>2, <2>3, <3>1, <3>2 DEF ProfilesInv, Others, IsOther
  <2>4. CASE ~IsOther(e) /\ UNCHANGED <<others, missed>>
    BY <2>1, <2>2, <2>4 DEF ProfilesInv, Others
  <2>5. CASE missed' = missed \cup {e} /\ UNCHANGED others
    BY <2>1, <2>2, <2>5 DEF ProfilesInv, Others
  <2> QED
    BY <2>1, <2>3, <2>4, <2>5
<1>8. CASE NextEntryThrows
  BY <1>8 DEF NextEntryThrows, IInv, ControlInv, ProfilesInv
<1>9. CASE EndProfiles
  BY <1>9 DEF EndProfiles, IInv, ControlInv, ProfilesInv
<1>10. CASE SizeDrives
  BY <1>10 DEF SizeDrives, IInv, ControlInv, ProfilesInv
<1>11. CASE DrivesRefused
  BY <1>11 DEF DrivesRefused, IInv, ControlInv, ProfilesInv
<1>12. CASE FillDrives
  BY <1>12 DEF FillDrives, IInv, ControlInv, ProfilesInv
<1>13. CASE AskKind
  BY <1>13 DEF AskKind, IInv, ControlInv, ProfilesInv
<1>14. CASE EndDrives
  BY <1>14 DEF EndDrives, IInv, ControlInv, ProfilesInv
<1>15. CASE Compose
  BY <1>15 DEF Compose, IInv, ControlInv, ProfilesInv
<1>16. CASE DriveComes
  BY <1>16 DEF DriveComes, IInv, ControlInv, ProfilesInv
<1>17. CASE DriveGoes
  BY <1>17 DEF DriveGoes, IInv, ControlInv, ProfilesInv
<1>18. CASE UNCHANGED planVars
  BY <1>18 DEF IInv, ControlInv, ProfilesInv
<1> QED
  BY <1>1, <1>2, <1>3, <1>4, <1>5, <1>6, <1>7, <1>8, <1>9,
     <1>10, <1>11, <1>12, <1>13, <1>14, <1>15, <1>16, <1>17, <1>18 DEF PlanNext, Build

\* A drive goes from the buffer to the list, and what Windows says of it is kept.
LEMMA DrivesStep == IInv /\ [PlanNext]_planVars => DrivesInv'
<1> SUFFICES ASSUME IInv, [PlanNext]_planVars PROVE DrivesInv'
  OBVIOUS
<1> USE DEF planVars, folderVars, driveVars, diskVars, planHistory
<1>1. CASE FindProfile
  BY <1>1 DEF FindProfile, IInv, ControlInv, DrivesInv
<1>2. CASE Throw
  BY <1>2 DEF Throw, IInv, ControlInv, DrivesInv
<1>3. CASE BeginArgument
  BY <1>3 DEF BeginArgument, IInv, ControlInv, DrivesInv
<1>4. CASE ResolveFolder
  BY <1>4 DEF ResolveFolder, IInv, ControlInv, DrivesInv
<1>5. CASE OpenProfiles
  BY <1>5 DEF OpenProfiles, IInv, ControlInv, DrivesInv
<1>6. CASE OpenProfilesFails
  BY <1>6 DEF OpenProfilesFails, IInv, ControlInv, DrivesInv
<1>7. CASE LookAtEntry
  BY <1>7 DEF LookAtEntry, IInv, ControlInv, DrivesInv
<1>8. CASE NextEntryThrows
  BY <1>8 DEF NextEntryThrows, IInv, ControlInv, DrivesInv
<1>9. CASE EndProfiles
  BY <1>9 DEF EndProfiles, IInv, ControlInv, DrivesInv
<1>10. CASE SizeDrives
  <2>1. Cardinality(present) \in 0..Cardinality(Drive)
    BY AscendingLists, DrivesFinite DEF IInv, DrivesInv
  <2>2. /\ planPc = "drives" /\ planPc' = "fill" /\ required' = Cardinality(present)
        /\ UNCHANGED <<arguments, cursor, drives, present, stayed, lost>>
    BY <1>10 DEF SizeDrives, folderVars, diskVars, planHistory
  <2>3. cursor = <<>> /\ drives = <<>> /\ Len(<<>>) = 0
    BY <2>2 DEF IInv, DrivesInv
  <2> QED
    BY <2>1, <2>2, <2>3 DEF IInv, DrivesInv
<1>11. CASE DrivesRefused
  BY <1>11 DEF DrivesRefused, IInv, ControlInv, DrivesInv
<1>12. CASE FillDrives
  <2>1. /\ planPc = "fill" /\ planPc' = "kinds"
        /\ UNCHANGED <<arguments, required, drives, present, stayed>>
        /\ cursor = <<>> /\ drives = <<>> /\ Len(drives) = 0 /\ required \in Nat
    BY <1>12, DrivesFinite DEF FillDrives, folderVars, diskVars, IInv, DrivesInv
  <2>2. CASE Cardinality(present) <= required
    <3>1. cursor' = Ascending(present) /\ lost' = lost
      BY <1>12, <2>2 DEF FillDrives
    <3>2. present \in SUBSET Drive
      BY DEF IInv, DrivesInv
    <3>3. /\ cursor' \in Seq(Drive) /\ IsInjective(cursor') /\ Range(cursor') = present
          /\ Len(cursor') <= required
      BY <2>1, <2>2, <3>1, <3>2, AscendingLists
    <3> QED
      BY <2>1, <3>1, <3>3 DEF IInv, DrivesInv
  <2>3. CASE ~(Cardinality(present) <= required)
    <3>1. cursor' = cursor /\ lost' = "outgrown"
      BY <1>12, <2>3 DEF FillDrives
    <3> QED
      BY <2>1, <3>1 DEF IInv, ControlInv, DrivesInv
  <2> QED
    BY <2>2, <2>3
<1>13. CASE AskKind
  <2> DEFINE d == Head(cursor)
  <2> DEFINE record == [root |-> d, type |-> IF d \in present THEN Kind[d] ELSE "no_root_dir"]
  <2>1. /\ planPc = "kinds" /\ cursor # <<>> /\ planPc' = planPc
        /\ cursor' = Tail(cursor) /\ drives' = Append(drives, record)
        /\ UNCHANGED <<arguments, required, present, stayed, lost>>
    BY <1>13 DEF AskKind, folderVars, diskVars, planHistory
  <2>2. /\ cursor \in Seq(Drive) /\ IsInjective(cursor) /\ drives \in Seq(DriveRecords)
        /\ stayed \subseteq present
    BY DEF IInv, DrivesInv
  <2>3. /\ d \in Drive /\ cursor' \in Seq(Drive) /\ Len(cursor') = Len(cursor) - 1
        /\ IsInjective(cursor') /\ Range(cursor') = Range(cursor) \ {d} /\ d \in Range(cursor)
    BY <2>1, <2>2, TailRest
  <2>4. record \in DriveRecords /\ record.root = d
    BY <2>3, PlanAssumption DEF DriveRecords, Types
  <2>5. d \in stayed => record = Real(d)
    BY <2>2 DEF Real
  <2> HIDE DEF d, record
  <2>6. PICK n \in Nat : n = Len(drives)
    BY <2>2
  <2>7. /\ drives' \in Seq(DriveRecords) /\ Len(drives') = n + 1 /\ DOMAIN drives' = 1..(n + 1)
        /\ drives'[n + 1] = record /\ DOMAIN drives = 1..n
        /\ \A i \in 1..n : drives'[i] = drives[i]
    BY <2>1, <2>2, <2>4, <2>6
  <2>8. \A i \in 1..(n + 1) : i \in 1..n \/ i = n + 1
    BY <2>6
  <2>9. /\ \A i \in 1..n : drives[i].root \notin Range(cursor)
        /\ \A i, j \in 1..n : drives[i].root = drives[j].root => i = j
    BY <2>7 DEF IInv, DrivesInv
  <2>10. \A i, j \in DOMAIN drives' : drives'[i].root = drives'[j].root => i = j
    BY <2>3, <2>4, <2>7, <2>8, <2>9
  <2>11. \A i \in DOMAIN drives' : drives'[i].root \notin Range(cursor')
    BY <2>3, <2>4, <2>7, <2>8, <2>9
  <2>12. Len(cursor') + Len(drives') <= required
    BY <2>2, <2>3, <2>6, <2>7, DrivesFinite DEF IInv, DrivesInv
  <2>13. Range(drives') = Range(drives) \cup {record}
    BY <2>7, <2>8 DEF Range
  <2>14. ASSUME "drives" \notin arguments, lost = "not", NEW e \in stayed
         PROVE  e \in Range(cursor') \/ Real(e) \in Range(drives')
    <3>1. e \in Range(cursor) \/ Real(e) \in Range(drives)
      BY <2>1, <2>14 DEF IInv, DrivesInv
    <3> QED
      BY <3>1, <2>3, <2>5, <2>13
  <2>15. "drives" \notin arguments
    BY <2>1 DEF IInv, ControlInv
  <2> QED
    BY <2>1, <2>2, <2>3, <2>7, <2>10, <2>11, <2>12, <2>14, <2>15 DEF IInv, DrivesInv
<1>14. CASE EndDrives
  BY <1>14 DEF EndDrives, IInv, ControlInv, DrivesInv
<1>15. CASE Compose
  BY <1>15 DEF Compose, IInv, ControlInv, DrivesInv
<1>16. CASE DriveComes
  BY <1>16 DEF DriveComes, IInv, ControlInv, DrivesInv
<1>17. CASE DriveGoes
  BY <1>17 DEF DriveGoes, IInv, ControlInv, DrivesInv
<1>18. CASE UNCHANGED planVars
  BY <1>18 DEF IInv, ControlInv, DrivesInv
<1> QED
  BY <1>1, <1>2, <1>3, <1>4, <1>5, <1>6, <1>7, <1>8, <1>9,
     <1>10, <1>11, <1>12, <1>13, <1>14, <1>15, <1>16, <1>17, <1>18 DEF PlanNext, Build

\* The plan is composed once, of what nothing changes any more.
LEMMA PlanStep == IInv /\ [PlanNext]_planVars => PlanInv'
<1> SUFFICES ASSUME IInv, [PlanNext]_planVars PROVE PlanInv'
  OBVIOUS
<1>1. ASSUME UNCHANGED <<folders, others, drives>> PROVE Composed' = Composed
  BY <1>1 DEF Composed, OfType, InPhase, Picked
<1>2. CASE Compose
  BY <1>1, <1>2 DEF Compose, PlanInv, folderVars, driveVars
<1>3. CASE UNCHANGED planVars \/ DriveComes \/ DriveGoes
  <2>1. UNCHANGED <<folders, others, drives, plan, planPc>>
    BY <1>3 DEF planVars, DriveComes, DriveGoes, folderVars, driveVars
  <2> QED
    BY <2>1, <1>1 DEF IInv, PlanInv
<1>4. CASE Build /\ ~Compose
  <2>1. planPc # "done" /\ planPc' # "done" /\ plan' = plan
    BY <1>4 DEF Build, FindProfile, Throw, BeginArgument, ResolveFolder, OpenProfiles,
       OpenProfilesFails, LookAtEntry, NextEntryThrows, EndProfiles, SizeDrives, DrivesRefused,
       FillDrives, AskKind, EndDrives, IInv, ControlInv
  <2> QED
    BY <2>1 DEF IInv, PlanInv
<1> QED
  BY <1>2, <1>3, <1>4 DEF PlanNext

\* PlanInit establishes the invariant.
LEMMA InvInit == PlanInit => IInv
<1> SUFFICES ASSUME PlanInit PROVE IInv
  OBVIOUS
<1>1. Len(<<>>) = 0 /\ DOMAIN <<>> = {} /\ <<>> \in Seq(Drive) /\ <<>> \in Seq(DriveRecords)
      /\ <<>> \in Seq(Beside)
  OBVIOUS
<1>2. ControlInv /\ FoldersInv /\ PlanInv
  BY DEF PlanInit, ControlInv, FoldersInv, PlanInv, KnownFolders
<1>3. ProfilesInv
  BY <1>1 DEF PlanInit, ProfilesInv, IsInjective
<1>4. DrivesInv
  BY <1>1, DrivesFinite DEF PlanInit, DrivesInv, IsInjective
<1> QED
  BY <1>2, <1>3, <1>4 DEF IInv

\* The invariant holds throughout.
LEMMA Invariant == PlanSpec => []IInv
<1>1. IInv /\ [PlanNext]_planVars => IInv'
  BY ControlStep, FoldersStep, ProfilesStep, DrivesStep, PlanStep DEF IInv
<1> QED
  BY InvInit, <1>1, PTL DEF PlanSpec

-----------------------------------------------------------------------------
(* The composition. *)

Paths == Range(KnownFolders) \cup {CurrentProfile} \cup Beside \cup Drive

PlanRecords == [path : Paths, phase : Range(Phases)]

OfPhase(r, p) == r.phase = Phases[p]

\* A part of a plan, of the phases m to n in their order.
Block(s, m, n) ==
    /\ s \in Seq(PlanRecords) /\ IsInjective(s)
    /\ \A i \in DOMAIN s : \E p \in m..n : OfPhase(s[i], p)
    /\ \A i, j \in DOMAIN s : i <= j =>
          \E p, q \in m..n : p <= q /\ OfPhase(s[i], p) /\ OfPhase(s[j], q)

\* The phases have different names.
LEMMA PhasesDiffer ==
    /\ DOMAIN Phases = 1..5 /\ \A p \in 1..5 : Phases[p] \in Range(Phases)
    /\ \A p, q \in 1..5 : Phases[p] = Phases[q] => p = q
<1>1. /\ DOMAIN Phases = 1..5 /\ Phases[1] = "priority" /\ Phases[2] = "current_profile"
      /\ Phases[3] = "other_profiles" /\ Phases[4] = "fixed_drives"
      /\ Phases[5] = "removable_drives"
  BY DEF Phases
<1>2. \A p \in 1..5 : p \in {1, 2, 3, 4, 5}
  OBVIOUS
<1> QED
  BY <1>1, <1>2 DEF Range

\* Paths that differ make a part of one phase.
LEMMA OnePhase ==
    ASSUME NEW S \in SUBSET Paths, NEW paths \in Seq(S), IsInjective(paths), NEW p \in 1..5
    PROVE  /\ Block(InPhase(paths, Phases[p]), p, p)
           /\ Range(InPhase(paths, Phases[p])) = {[path |-> x, phase |-> Phases[p]] : x \in Range(paths)}
<1> DEFINE s == InPhase(paths, Phases[p])
<1>0. PICK n \in Nat : n = Len(paths)
  OBVIOUS
<1>1. DOMAIN paths = 1..n /\ \A i \in 1..n : paths[i] \in Paths
  BY <1>0
<1>2. DOMAIN s = 1..n /\ \A i \in 1..n : s[i] = [path |-> paths[i], phase |-> Phases[p]]
  BY <1>1 DEF InPhase
<1>3. \A i \in 1..n : s[i] \in PlanRecords /\ OfPhase(s[i], p) /\ s[i].path = paths[i]
  <2> SUFFICES ASSUME NEW i \in 1..n
               PROVE  s[i] \in PlanRecords /\ OfPhase(s[i], p) /\ s[i].path = paths[i]
    OBVIOUS
  <2>1. s[i] = [path |-> paths[i], phase |-> Phases[p]]
    BY <1>2
  <2>2. paths[i] \in Paths /\ Phases[p] \in Range(Phases)
    BY <1>1, PhasesDiffer
  <2> HIDE DEF s
  <2> QED
    BY <2>1, <2>2 DEF PlanRecords, OfPhase
<1>4. s \in Seq(PlanRecords)
  <2> DEFINE r(i) == [path |-> paths[i], phase |-> Phases[p]]
  <2>1. s = [i \in 1..n |-> r(i)]
    BY <1>1 DEF InPhase
  <2>2. \A i \in 1..n : r(i) \in PlanRecords
    BY <1>2, <1>3
  <2> HIDE DEF s, r
  <2> QED
    BY <2>1, <2>2
<1>5. IsInjective(s)
  BY <1>1, <1>2, <1>3 DEF IsInjective
<1>6. Range(s) = {[path |-> x, phase |-> Phases[p]] : x \in Range(paths)}
  BY <1>1, <1>2 DEF Range
<1>7. p \in p..p /\ p <= p
  OBVIOUS
<1> HIDE DEF s
<1>8. Block(s, p, p)
  BY <1>2, <1>3, <1>4, <1>5, <1>7 DEF Block
<1> QED
  BY <1>6, <1>8 DEF s

\* The places of two sequences in their concatenation.
LEMMA JoinedPlaces ==
    ASSUME NEW a \in Nat, NEW b \in Nat, NEW i \in 1..(a + b)
    PROVE  /\ i \in 1..a \/ (i \in (a + 1)..(a + b) /\ i - a \in 1..b)
           /\ i \in 1..a <=> i <= a
           /\ i \in (a + 1)..(a + b) => \A j \in 1..(a + b) : i <= j => j \in (a + 1)..(a + b)
  OBVIOUS

\* The phases of two parts are phases of the whole.
LEMMA JoinedPhases ==
    ASSUME NEW m \in 1..5, NEW n \in 1..5, NEW k \in 1..5, NEW l \in 1..5,
           m <= n, n < k, k <= l
    PROVE  /\ \A p \in m..n : p \in m..l /\ p \in 1..5
           /\ \A q \in k..l : q \in m..l /\ q \in 1..5
           /\ \A p \in m..n, q \in k..l : p < q /\ p <= q /\ p # q
  OBVIOUS

\* A part followed by one of later phases is a part.
LEMMA JoinBlocks ==
    ASSUME NEW m \in 1..5, NEW n \in 1..5, NEW k \in 1..5, NEW l \in 1..5,
           m <= n, n < k, k <= l, NEW s, NEW t, Block(s, m, n), Block(t, k, l)
    PROVE  Block(s \o t, m, l) /\ Range(s \o t) = Range(s) \cup Range(t)
<1>1. s \in Seq(PlanRecords) /\ t \in Seq(PlanRecords) /\ IsInjective(s) /\ IsInjective(t)
  BY DEF Block
<1>2. PICK a \in Nat : a = Len(s)
  BY <1>1
<1>3. PICK b \in Nat : b = Len(t)
  BY <1>1
<1> DEFINE u == s \o t
<1>4. /\ u \in Seq(PlanRecords) /\ DOMAIN u = 1..(a + b) /\ DOMAIN s = 1..a /\ DOMAIN t = 1..b
      /\ \A i \in 1..a : u[i] = s[i]
      /\ \A i \in (a + 1)..(a + b) : u[i] = t[i - a]
  <2>1. /\ u \in Seq(PlanRecords) /\ Len(u) = a + b
        /\ \A i \in 1..(a + b) : u[i] = IF i <= a THEN s[i] ELSE t[i - a]
    BY <1>1, <1>2, <1>3, ConcatProperties
  <2>2. \A i \in 1..a : i \in 1..(a + b) /\ i <= a
    OBVIOUS
  <2>3. \A i \in (a + 1)..(a + b) : i \in 1..(a + b) /\ ~(i <= a)
    OBVIOUS
  <2> HIDE DEF u
  <2>4. DOMAIN u = 1..(a + b) /\ DOMAIN s = 1..a /\ DOMAIN t = 1..b
    BY <1>1, <1>2, <1>3, <2>1
  <2> QED
    BY <2>1, <2>2, <2>3, <2>4
<1>5. \A i \in 1..(a + b) : i \in 1..a \/ (i \in (a + 1)..(a + b) /\ i - a \in 1..b)
  BY JoinedPlaces
<1>7. Range(u) = Range(s) \cup Range(t)
  BY <1>1, RangeConcatenation
<1> HIDE DEF u
<1>14. /\ \A i \in 1..a : \E p \in m..n : OfPhase(s[i], p)
       /\ \A i, j \in 1..a : i <= j =>
             \E p, q \in m..n : p <= q /\ OfPhase(s[i], p) /\ OfPhase(s[j], q)
  <2>1. Block(s, m, n)
    OBVIOUS
  <2> QED
    BY <2>1, <1>4 DEF Block
<1>15. /\ \A i \in 1..b : \E p \in k..l : OfPhase(t[i], p)
       /\ \A i, j \in 1..b : i <= j =>
             \E p, q \in k..l : p <= q /\ OfPhase(t[i], p) /\ OfPhase(t[j], q)
  <2>1. Block(t, k, l)
    OBVIOUS
  <2> QED
    BY <2>1, <1>4 DEF Block
<1>8. \A i \in 1..a : \E p \in m..n : OfPhase(u[i], p)
  BY <1>4, <1>14
<1>16. \A i \in (a + 1)..(a + b) : i \in 1..(a + b) /\ i - a \in 1..b
  OBVIOUS
<1>9. \A i \in (a + 1)..(a + b) : \E p \in k..l : OfPhase(u[i], p)
  BY <1>4, <1>15, <1>16
<1>10. \A i \in 1..(a + b) : \E p \in m..l : OfPhase(u[i], p)
  BY <1>5, <1>8, <1>9, JoinedPhases
<1>11. ASSUME NEW i \in 1..(a + b), NEW j \in 1..(a + b), i <= j
       PROVE  \E p, q \in m..l : p <= q /\ OfPhase(u[i], p) /\ OfPhase(u[j], q)
  <2>1. CASE i \in 1..a /\ j \in 1..a
    <3>1. PICK p \in m..n, q \in m..n : p <= q /\ OfPhase(s[i], p) /\ OfPhase(s[j], q)
      BY <1>11, <1>14, <2>1
    <3> QED
      BY <1>4, <2>1, <3>1, JoinedPhases
  <2>2. CASE i \in 1..a /\ j \in (a + 1)..(a + b)
    <3>1. PICK p \in m..n : OfPhase(u[i], p)
      BY <1>8, <2>2
    <3>2. PICK q \in k..l : OfPhase(u[j], q)
      BY <1>9, <2>2
    <3>3. p <= q /\ p \in m..l /\ q \in m..l
      BY JoinedPhases
    <3> QED
      BY <3>1, <3>2, <3>3
  <2>3. CASE i \in (a + 1)..(a + b) /\ j \in (a + 1)..(a + b)
    <3>1. i - a \in 1..b /\ j - a \in 1..b /\ i - a <= j - a
      BY <1>2, <1>3, <1>11, <2>3
    <3>2. PICK p \in k..l, q \in k..l :
             p <= q /\ OfPhase(t[i - a], p) /\ OfPhase(t[j - a], q)
      BY <1>15, <3>1
    <3> QED
      BY <1>4, <2>3, <3>2, JoinedPhases
  <2>4. i \in (a + 1)..(a + b) => j \in (a + 1)..(a + b)
    BY <1>11, JoinedPlaces
  <2> QED
    BY <1>5, <2>1, <2>2, <2>3, <2>4
<1>12. ASSUME NEW i \in 1..a, NEW j \in (a + 1)..(a + b) PROVE u[i] # u[j]
  <2>1. PICK p \in m..n : OfPhase(u[i], p)
    BY <1>8
  <2>2. PICK q \in k..l : OfPhase(u[j], q)
    BY <1>9
  <2>3. p \in 1..5 /\ q \in 1..5 /\ p # q
    BY JoinedPhases
  <2> QED
    BY <2>1, <2>2, <2>3, PhasesDiffer DEF OfPhase
<1>13. IsInjective(u)
  <2> SUFFICES ASSUME NEW i \in 1..(a + b), NEW j \in 1..(a + b), u[i] = u[j] PROVE i = j
    BY <1>4 DEF IsInjective
  <2>1. CASE i \in 1..a /\ j \in 1..a
    BY <1>1, <1>4, <2>1 DEF IsInjective
  <2>2. CASE i \in (a + 1)..(a + b) /\ j \in (a + 1)..(a + b)
    <3>1. i - a \in 1..b /\ j - a \in 1..b /\ t[i - a] = t[j - a]
      BY <1>4, <1>5, <2>2, <1>2, <1>3
    <3>2. i - a = j - a
      BY <1>1, <1>4, <3>1 DEF IsInjective
    <3> QED
      BY <3>2, <1>2
  <2> QED
    BY <1>5, <1>12, <2>1, <2>2
<1> QED
  BY <1>4, <1>7, <1>10, <1>11, <1>13 DEF Block, u

\* The drives of one type, each once.
LEMMA TypedDrives ==
    ASSUME DrivesInv, NEW type
    PROVE  /\ OfType(type) \in Seq(Drive) /\ IsInjective(OfType(type))
           /\ Range(OfType(type)) = {r.root : r \in {x \in Range(drives) : x.type = type}}
<1> DEFINE P == {i \in DOMAIN drives : drives[i].type = type}
<1> DEFINE those == Picked(drives, P)
<1>1. /\ drives \in Seq(DriveRecords)
      /\ \A i, j \in DOMAIN drives : drives[i].root = drives[j].root => i = j
  BY DEF DrivesInv
<1>2. \A i \in DOMAIN drives : drives[i] \in DriveRecords
  BY <1>1
<1>3. \A i, j \in P : drives[i] = drives[j] => i = j
  BY <1>1
<1>4. /\ those \in Seq(DriveRecords) /\ DOMAIN those = 1..Len(those)
      /\ Range(those) = {drives[i] : i \in P} /\ IsInjective(those)
  BY <1>1, <1>3, PickedElements
<1> HIDE DEF those
<1>5. PICK n \in Nat : n = Len(those)
  <2>1. those \in Seq(DriveRecords)
    BY <1>4
  <2> QED
    BY <2>1
<1>6. \A k \in 1..n : \E i \in P : those[k] = drives[i]
  BY <1>4, <1>5 DEF Range
<1>7. OfType(type) = [k \in 1..n |-> those[k].root]
  BY <1>4, <1>5 DEF OfType, those
<1>8. Range(those) = {x \in Range(drives) : x.type = type}
  BY <1>4 DEF Range
<1>9. \A r \in DriveRecords : r.root \in Drive
  BY DEF DriveRecords
<1>10. \A k \in 1..n : those[k].root \in Drive
  BY <1>2, <1>6, <1>9
<1>11. OfType(type) \in Seq(Drive)
  <2> DEFINE root(k) == those[k].root
  <2>1. OfType(type) = [k \in 1..n |-> root(k)]
    BY <1>7
  <2>2. \A k \in 1..n : root(k) \in Drive
    BY <1>10
  <2> HIDE DEF root
  <2> QED
    BY <2>1, <2>2
<1>12. IsInjective(OfType(type))
  <2> SUFFICES ASSUME NEW k \in 1..n, NEW l \in 1..n, those[k].root = those[l].root
               PROVE  k = l
    BY <1>7 DEF IsInjective
  <2>1. PICK i \in P : those[k] = drives[i]
    BY <1>6
  <2>2. PICK j \in P : those[l] = drives[j]
    BY <1>6
  <2>3. i = j
    BY <1>1, <2>1, <2>2
  <2> QED
    BY <1>4, <1>5, <2>1, <2>2, <2>3 DEF IsInjective
<1>13. Range(OfType(type)) = {r.root : r \in Range(those)}
  BY <1>4, <1>5, <1>7 DEF Range
<1> QED
  BY <1>8, <1>11, <1>12, <1>13

\* However many known folders are resolved, each is there once.
LEMMA KnownFoldersOnce ==
    \A s \in {<<>>, <<"downloads">>, <<"downloads", "desktop">>, KnownFolders} :
        s \in Seq(Range(KnownFolders)) /\ IsInjective(s)
<1> DEFINE S == Range(KnownFolders)
<1>1. "downloads" \in S /\ "desktop" \in S /\ "documents" \in S
  BY DEF KnownFolders, Range
<1> HIDE DEF S
<1>2. <<>> \in Seq(S) /\ IsInjective(<<>>)
  BY DEF IsInjective
<1>3. <<"downloads">> \in Seq(S) /\ IsInjective(<<"downloads">>)
  BY <1>1 DEF IsInjective
<1>4. <<"downloads", "desktop">> \in Seq(S) /\ IsInjective(<<"downloads", "desktop">>)
  BY <1>1 DEF IsInjective
<1>5. KnownFolders \in Seq(S) /\ IsInjective(KnownFolders)
  BY <1>1 DEF IsInjective, KnownFolders
<1> QED
  BY <1>2, <1>3, <1>4, <1>5 DEF S

In(S, p) == {[path |-> x, phase |-> Phases[p]] : x \in S}

\* The plan has the five phases in their order, each path of a phase once.
LEMMA ComposedPhases ==
    ASSUME FoldersInv, ProfilesInv, DrivesInv
    PROVE  /\ Block(Composed, 1, 5)
           /\ Range(Composed) = In(Range(folders), 1) \cup In({CurrentProfile}, 2)
                  \cup In(Range(others), 3) \cup In(Range(OfType("fixed")), 4)
                  \cup In(Range(OfType("removable")), 5)
<1> DEFINE b1 == InPhase(folders, Phases[1])
           b2 == InPhase(<<CurrentProfile>>, Phases[2])
           b3 == InPhase(others, Phases[3])
           b4 == InPhase(OfType("fixed"), Phases[4])
           b5 == InPhase(OfType("removable"), Phases[5])
<1>1. Block(b1, 1, 1) /\ Range(b1) = In(Range(folders), 1)
  <2>1. folders \in Seq(Range(KnownFolders)) /\ IsInjective(folders)
    BY KnownFoldersOnce DEF FoldersInv
  <2>2. Range(KnownFolders) \in SUBSET Paths /\ 1 \in 1..5
    BY DEF Paths
  <2> QED
    BY <2>1, <2>2, OnePhase DEF In
<1>2. Block(b2, 2, 2) /\ Range(b2) = In({CurrentProfile}, 2)
  <2>1. <<CurrentProfile>> \in Seq({CurrentProfile}) /\ IsInjective(<<CurrentProfile>>)
        /\ Range(<<CurrentProfile>>) = {CurrentProfile}
    BY DEF Range, IsInjective
  <2>2. {CurrentProfile} \in SUBSET Paths /\ 2 \in 1..5
    BY DEF Paths
  <2> QED
    BY <2>1, <2>2, OnePhase DEF In
<1>3. Block(b3, 3, 3) /\ Range(b3) = In(Range(others), 3)
  <2>1. others \in Seq(Beside) /\ IsInjective(others)
    BY DEF ProfilesInv
  <2>2. Beside \in SUBSET Paths /\ 3 \in 1..5
    BY DEF Paths
  <2> QED
    BY <2>1, <2>2, OnePhase DEF In
<1>4. /\ Block(b4, 4, 4) /\ Range(b4) = In(Range(OfType("fixed")), 4)
      /\ Block(b5, 5, 5) /\ Range(b5) = In(Range(OfType("removable")), 5)
  <2>1. /\ OfType("fixed") \in Seq(Drive) /\ IsInjective(OfType("fixed"))
        /\ OfType("removable") \in Seq(Drive) /\ IsInjective(OfType("removable"))
    BY TypedDrives
  <2>2. Drive \in SUBSET Paths /\ 4 \in 1..5 /\ 5 \in 1..5
    BY DEF Paths
  <2> QED
    BY <2>1, <2>2, OnePhase DEF In
<1>5. Composed = (((b1 \o b2) \o b3) \o b4) \o b5
  BY DEF Composed, Phases
<1> HIDE DEF b1, b2, b3, b4, b5
<1>6. /\ 1 \in 1..5 /\ 2 \in 1..5 /\ 3 \in 1..5 /\ 4 \in 1..5 /\ 5 \in 1..5
      /\ 1 <= 1 /\ 1 < 2 /\ 2 <= 2 /\ 1 <= 2 /\ 2 < 3 /\ 3 <= 3 /\ 1 <= 3 /\ 3 < 4
      /\ 4 <= 4 /\ 1 <= 4 /\ 4 < 5 /\ 5 <= 5
  OBVIOUS
<1>7. Block(b1 \o b2, 1, 2) /\ Range(b1 \o b2) = Range(b1) \cup Range(b2)
  BY <1>1, <1>2, <1>6, JoinBlocks
<1>8. /\ Block((b1 \o b2) \o b3, 1, 3)
      /\ Range((b1 \o b2) \o b3) = Range(b1 \o b2) \cup Range(b3)
  BY <1>7, <1>3, <1>6, JoinBlocks
<1>9. /\ Block(((b1 \o b2) \o b3) \o b4, 1, 4)
      /\ Range(((b1 \o b2) \o b3) \o b4) = Range((b1 \o b2) \o b3) \cup Range(b4)
  BY <1>8, <1>4, <1>6, JoinBlocks
<1>10. /\ Block((((b1 \o b2) \o b3) \o b4) \o b5, 1, 5)
       /\ Range((((b1 \o b2) \o b3) \o b4) \o b5) = Range(((b1 \o b2) \o b3) \o b4) \cup Range(b5)
  BY <1>9, <1>4, <1>6, JoinBlocks
<1> QED
  BY <1>1, <1>2, <1>3, <1>4, <1>5, <1>7, <1>8, <1>9, <1>10

\* What is planned for a phase is what was given for it.
LEMMA PlannedPaths ==
    ASSUME IInv, planPc = "done"
    PROVE  /\ Planned("other_profiles") = Range(others)
           /\ Planned("fixed_drives") = Range(OfType("fixed"))
           /\ Planned("removable_drives") = Range(OfType("removable"))
<1>1. Range(plan) = In(Range(folders), 1) \cup In({CurrentProfile}, 2)
          \cup In(Range(others), 3) \cup In(Range(OfType("fixed")), 4)
          \cup In(Range(OfType("removable")), 5)
  BY ComposedPhases DEF IInv, PlanInv
<1> DEFINE Given(p) == {r.path : r \in {x \in Range(plan) : OfPhase(x, p)}}
<1>2. \A p \in 1..5 : Planned(Phases[p]) = Given(p)
  BY DEF Planned, OfPhase, Range
<1>3. ASSUME NEW S, NEW p \in 1..5, NEW q \in 1..5
      PROVE  \A r \in In(S, p) : (OfPhase(r, q) <=> p = q) /\ r.path \in S
  <2> SUFFICES ASSUME NEW r \in In(S, p) PROVE (OfPhase(r, q) <=> p = q) /\ r.path \in S
    OBVIOUS
  <2>1. PICK x \in S : r = [path |-> x, phase |-> Phases[p]]
    BY DEF In
  <2>2. r.path = x /\ r.phase = Phases[p]
    BY <2>1
  <2> QED
    BY <2>2, PhasesDiffer DEF OfPhase
<1>4. ASSUME NEW S, NEW p \in 1..5, NEW x \in S
      PROVE  \E r \in In(S, p) : r.path = x
  <2>1. [path |-> x, phase |-> Phases[p]] \in In(S, p)
    BY DEF In
  <2>2. [path |-> x, phase |-> Phases[p]].path = x
    OBVIOUS
  <2> QED
    BY <2>1, <2>2
<1>5. ASSUME NEW S1, NEW S2, NEW S3, NEW S4, NEW S5,
             Range(plan) = In(S1, 1) \cup In(S2, 2) \cup In(S3, 3) \cup In(S4, 4) \cup In(S5, 5)
      PROVE  Given(3) = S3 /\ Given(4) = S4 /\ Given(5) = S5
  <2>1. 1 \in 1..5 /\ 2 \in 1..5 /\ 3 \in 1..5 /\ 4 \in 1..5 /\ 5 \in 1..5
    OBVIOUS
  <2>2. {x \in Range(plan) : OfPhase(x, 3)} = In(S3, 3)
    BY <1>3, <1>5, <2>1
  <2>3. {x \in Range(plan) : OfPhase(x, 4)} = In(S4, 4)
    BY <1>3, <1>5, <2>1
  <2>4. {x \in Range(plan) : OfPhase(x, 5)} = In(S5, 5)
    BY <1>3, <1>5, <2>1
  <2>5. ASSUME NEW S, NEW p \in 1..5 PROVE {r.path : r \in In(S, p)} = S
    <3>1. \A x \in S : \E r \in In(S, p) : r.path = x
      BY <1>4
    <3>2. \A r \in In(S, p) : r.path \in S
      BY <1>3
    <3> QED
      BY <3>1, <3>2
  <2> QED
    BY <2>1, <2>2, <2>3, <2>4, <2>5
<1>6. Given(3) = Range(others) /\ Given(4) = Range(OfType("fixed"))
      /\ Given(5) = Range(OfType("removable"))
  BY <1>1, <1>5
<1>7. Phases[3] = "other_profiles" /\ Phases[4] = "fixed_drives" /\ Phases[5] = "removable_drives"
  BY DEF Phases
<1>8. 3 \in 1..5 /\ 4 \in 1..5 /\ 5 \in 1..5
  OBVIOUS
<1> HIDE DEF Given
<1> QED
  BY <1>2, <1>6, <1>7, <1>8

\* In the end all entries were looked at.
LEMMA OthersPlanned ==
    ASSUME IInv, planPc = "done"
    PROVE  Planned("other_profiles") = Others \ missed
<1>1. arguments = {} /\ entries = {}
  BY DEF IInv, ControlInv, ProfilesInv
<1>2. Range(others) = Others \ missed
  BY <1>1 DEF IInv, ProfilesInv
<1> QED
  BY <1>2, PlannedPaths

-----------------------------------------------------------------------------
(* The theorems. *)

\* Whatever comes and goes, the locals keep their types, and no list of drives
\* is longer than its buffer.
THEOREM TypeCorrect == PlanSpec => []PlanTypeOK
<1>1. IInv => PlanTypeOK
  <2> SUFFICES ASSUME IInv PROVE PlanTypeOK
    OBVIOUS
  <2>1. folders \in {SubSeq(KnownFolders, 1, n) : n \in 0..Len(KnownFolders)}
    <3> DEFINE S == Range(KnownFolders)
    <3>1. /\ KnownFolders \in Seq(S) /\ Len(KnownFolders) = 3
          /\ KnownFolders[1] = "downloads" /\ KnownFolders[2] = "desktop"
          /\ "downloads" \in S /\ "desktop" \in S
      BY DEF KnownFolders, Range
    <3> HIDE DEF S
    <3>2. SubSeq(KnownFolders, 1, 0) = <<>>
      BY SubSeqEmpty
    <3>3. SubSeq(KnownFolders, 1, 1) = <<"downloads">>
      <4>1. /\ SubSeq(KnownFolders, 1, 1) \in Seq(S) /\ Len(SubSeq(KnownFolders, 1, 1)) = 1
            /\ SubSeq(KnownFolders, 1, 1)[1] = "downloads"
        BY <3>1
      <4>2. <<"downloads">> \in Seq(S) /\ Len(<<"downloads">>) = 1 /\ <<"downloads">>[1] = "downloads"
        BY <3>1
      <4>3. \A i \in 1..1 : i = 1
        OBVIOUS
      <4> QED
        BY <4>1, <4>2, <4>3, SeqEqual
    <3>4. SubSeq(KnownFolders, 1, 2) = <<"downloads", "desktop">>
      <4> DEFINE t == <<"downloads", "desktop">>
      <4>1. /\ SubSeq(KnownFolders, 1, 2) \in Seq(S) /\ Len(SubSeq(KnownFolders, 1, 2)) = 2
            /\ SubSeq(KnownFolders, 1, 2)[1] = "downloads" /\ SubSeq(KnownFolders, 1, 2)[2] = "desktop"
        BY <3>1
      <4>2. t \in Seq(S) /\ Len(t) = 2 /\ t[1] = "downloads" /\ t[2] = "desktop"
        BY <3>1
      <4>3. \A i \in 1..2 : i = 1 \/ i = 2
        OBVIOUS
      <4> HIDE DEF t
      <4>4. SubSeq(KnownFolders, 1, 2) = t
        BY <4>1, <4>2, <4>3, SeqEqual
      <4> QED
        BY <4>4 DEF t
    <3>5. SubSeq(KnownFolders, 1, 3) = KnownFolders
      BY <3>1, SubSeqFull
    <3>6. folders \in {<<>>, <<"downloads">>, <<"downloads", "desktop">>, KnownFolders}
      BY DEF IInv, FoldersInv
    <3>7. \E n \in 0..3 : folders = SubSeq(KnownFolders, 1, n)
      <4>1. 0 \in 0..3 /\ 1 \in 0..3 /\ 2 \in 0..3 /\ 3 \in 0..3
        OBVIOUS
      <4> QED
        BY <3>2, <3>3, <3>4, <3>5, <3>6, <4>1
    <3> QED
      BY <3>1, <3>7
  <2>2. Range(others) \subseteq Beside
    BY DEF IInv, ProfilesInv, Range
  <2>3. Range(cursor) \subseteq Drive /\ {d.root : d \in Range(drives)} \subseteq Drive
    <3>1. \A d \in DriveRecords : d.root \in Drive
      BY DEF DriveRecords
    <3> QED
      BY <3>1 DEF IInv, DrivesInv, Range
  <2> QED
    BY <2>1, <2>2, <2>3 DEF IInv, ControlInv, ProfilesInv, DrivesInv, PlanTypeOK
<1> QED
  BY Invariant, <1>1, PTL

\* The plan of any computer lists its roots phase by phase, each once in its
\* phase, and the current profile in its own only.
THEOREM PhaseByPhase == PlanSpec => []PhaseOrder
<1>1. IInv => PhaseOrder
  <2> SUFFICES ASSUME IInv PROVE PhaseOrder
    OBVIOUS
  <2>1. CASE plan = <<>>
    BY <2>1 DEF PhaseOrder, Planned, IsInjective
  <2>2. CASE plan # <<>>
    <3>1. plan = Composed /\ planPc = "done"
      BY <2>2 DEF IInv, PlanInv
    <3>2. Block(plan, 1, 5)
      BY <3>1, ComposedPhases DEF IInv
    <3>3. DOMAIN Phases = 1..5
      BY PhasesDiffer
    <3>4. Planned("other_profiles") = Others \ missed
      BY <3>1, OthersPlanned
    <3> QED
      BY <3>2, <3>3, <3>4 DEF Block, OfPhase, PhaseOrder, Others, IsOther
  <2> QED
    BY <2>1, <2>2
<1> QED
  BY Invariant, <1>1, PTL

\* Every other profile whose entry could be read is in the plan, and nothing
\* else is in its phase.
THEOREM EveryProfile == PlanSpec => []ProfilesPlanned
<1>1. IInv => ProfilesPlanned
  BY OthersPlanned DEF ProfilesPlanned, Others, IsOther
<1> QED
  BY Invariant, <1>1, PTL

\* However the drives come and go, one that stayed is planned in its phase,
\* once there is a list.
THEOREM EveryDrive == PlanSpec => []DrivesPlanned
<1>1. IInv => DrivesPlanned
  <2> SUFFICES ASSUME IInv, planPc = "done", lost = "not", NEW d \in stayed
               PROVE  /\ Kind[d] = "fixed" => d \in Planned("fixed_drives")
                      /\ Kind[d] = "removable" => d \in Planned("removable_drives")
    BY DEF DrivesPlanned
  <2>1. arguments = {} /\ cursor = <<>>
    BY DEF IInv, ControlInv, DrivesInv
  <2>2. Real(d) \in Range(drives)
    BY <2>1 DEF IInv, DrivesInv, Range
  <2>3. Real(d).root = d /\ Real(d).type = Kind[d]
    BY DEF Real
  <2>4. d \in Range(OfType(Kind[d]))
    BY <2>2, <2>3, TypedDrives DEF IInv
  <2> QED
    BY <2>4, PlannedPaths
<1> QED
  BY Invariant, <1>1, PTL

=============================================================================
