---------------------------- MODULE ChatPage_proofs ----------------------------
(***************************************************************************)
(* What one user's chat page shows, for any conversations, page size and   *)
(* number of messages.                                                     *)
(***************************************************************************)
EXTENDS ChatPageOrderly, FiniteSetTheorems, SequenceTheorems, TLAPS

-------------------------------------------------------------------------------
(* Finite sets of numbers, in order.                                       *)

LEMMA Subset ==
  ASSUME NEW S, IsFiniteSet(S), NEW T, T \subseteq S
  PROVE  IsFiniteSet(T) /\ Cardinality(T) \in Nat /\ Cardinality(S) \in Nat /\ Cardinality(T) <= Cardinality(S)
BY FS_Subset, FS_CardinalityType

\* A set of numbers that is not empty and has a bound has a least and a greatest one.
LEMMA LeastExists ==
  ASSUME NEW S, S \subseteq Nat, S # {}, IsFiniteSet(S)
  PROVE  \E i \in S : \A j \in S : i <= j
<1> DEFINE Upto(i) == {j \in S : j <= i}
<1>1. PICK R : R = StrictSubsetOrdering(S)
  OBVIOUS
<1>2. IsWellFoundedOn(R, FiniteSubsetsOf(S))
  BY <1>1, FS_StrictSubsetOrderingWellFounded
<1>3. PICK T : T = {Upto(i) : i \in S}
  OBVIOUS
<1>4. T \subseteq FiniteSubsetsOf(S) /\ T # {}
  <2>1. \A i \in S : Upto(i) \in SUBSET S /\ IsFiniteSet(Upto(i))
    BY FS_Subset
  <2> HIDE DEF Upto
  <2> QED
    BY <1>3, <2>1 DEF FiniteSubsetsOf
<1>5. PICK x \in T : \A y \in T : ~(<<y, x>> \in R)
  BY <1>2, <1>4, WFMin
<1>6. PICK i \in S : x = Upto(i)
  BY <1>3, <1>5
<1>7. ASSUME NEW k \in S, k < i
      PROVE  FALSE
  <2>0. \A j \in S : j \in Nat
    OBVIOUS
  <2>1. Upto(k) \subseteq Upto(i) /\ Upto(i) \subseteq S /\ i \in Upto(i) /\ i \notin Upto(k)
    <3>1. i \in Nat /\ k \in Nat
      BY <2>0
    <3>2. ASSUME NEW j \in S, j <= k
          PROVE  j <= i
      <4>1. j \in Nat
        BY <2>0
      <4> QED
        BY <1>7, <3>1, <3>2, <4>1
    <3>3. ~(i <= k) /\ i <= i
      BY <1>7, <3>1
    <3> QED
      BY <3>2, <3>3
  <2>2. <<Upto(k), Upto(i)>> \in StrictSubsetOrdering(S)
    <3> HIDE DEF Upto
    <3> QED
      BY <2>1 DEF StrictSubsetOrdering
  <2> QED
    BY <1>1, <1>3, <1>5, <1>6, <2>2
<1> QED
  BY <1>7

LEMMA GreatestExists ==
  ASSUME NEW S, S \subseteq Nat, S # {}, IsFiniteSet(S), NEW n \in Nat, \A i \in S : i <= n
  PROVE  \E i \in S : \A j \in S : j <= i
<1>1. PICK T : T = {i \in 0..n : \A j \in S : j <= i}
  OBVIOUS
<1>2. T \subseteq Nat /\ n \in T /\ IsFiniteSet(T)
  <2>1. IsFiniteSet(0..n) /\ T \subseteq 0..n
    BY <1>1, FS_Interval
  <2>2. n \in T
    BY <1>1
  <2> QED
    BY <1>1, <2>1, <2>2, FS_Subset
<1>3. PICK i \in T : \A k \in T : i <= k
  BY <1>2, LeastExists
<1>4. i \in S
  <2>0. i \in Nat /\ (\A j \in S : j \in Nat /\ j <= i) /\ (\A k \in T : i <= k)
    BY <1>1, <1>3
  <2>1. CASE i = 0
    <3>1. PICK j : j \in S
      OBVIOUS
    <3> QED
      BY <2>0, <2>1, <3>1
  <2>2. CASE i # 0 /\ i \notin S
    <3>1. i - 1 \in T
      <4>1. \A j \in S : j <= i - 1
        BY <2>0, <2>2
      <4> QED
        BY <1>1, <1>3, <2>0, <2>2, <4>1
    <3> QED
      BY <2>0, <3>1
  <2> QED
    BY <2>1, <2>2
<1> QED
  BY <1>1, <1>3, <1>4

\* The numbers of a set can be listed upwards, and Ascending lists all of them.
LEMMA AscendingExists ==
  ASSUME NEW S, S \subseteq Nat, IsFiniteSet(S), NEW n \in Nat, \A i \in S : i <= n
  PROVE  \E ids \in [1..Cardinality(S) -> S] : \A j, k \in DOMAIN ids : j < k => ids[j] < ids[k]
<1> DEFINE Rise(i) == Cardinality({j \in S : j <= i})
           rank == [i \in S |-> Rise(i)]
<1>0. \A i \in S : i \in Nat
  OBVIOUS
<1>1. Cardinality(S) \in Nat /\ IsFiniteSet(1..Cardinality(S)) /\ Cardinality(1..Cardinality(S)) = Cardinality(S)
  <2>1. Cardinality(S) \in Nat
    BY FS_CardinalityType
  <2> QED
    BY <2>1, FS_Interval
<1>2. \A i \in S : Rise(i) \in 1..Cardinality(S)
  <2>1. ASSUME NEW i \in S
        PROVE  Rise(i) \in 1..Cardinality(S)
    <3>1. {j \in S : j <= i} \subseteq S /\ i \in {j \in S : j <= i}
      OBVIOUS
    <3>2. IsFiniteSet({j \in S : j <= i}) /\ Rise(i) \in Nat /\ Rise(i) <= Cardinality(S)
      BY <3>1, Subset
    <3>3. Rise(i) # 0
      BY <3>1, <3>2, FS_EmptySet
    <3> QED
      BY <1>1, <3>2, <3>3
  <2> QED
    BY <2>1
<1>3. ASSUME NEW i \in S, NEW k \in S, i < k
      PROVE  Rise(i) < Rise(k)
  <2>1. /\ {j \in S : j <= i} \subseteq {j \in S : j <= k} /\ {j \in S : j <= k} \subseteq S
        /\ {j \in S : j <= i} # {j \in S : j <= k}
    <3>1. k \in {j \in S : j <= k} /\ k \notin {j \in S : j <= i}
      BY <1>0, <1>3
    <3>2. i \in Nat /\ k \in Nat
      BY <1>0
    <3>3. \A j \in S : j <= i => j <= k
      <4>1. ASSUME NEW j \in S, j <= i
            PROVE  j <= k
        <5>1. j \in Nat
          BY <1>0
        <5> QED
          BY <1>3, <3>2, <4>1, <5>1
      <4> QED
        BY <4>1
    <3> QED
      BY <3>1, <3>3
  <2>2. IsFiniteSet({j \in S : j <= k})
    BY <2>1, FS_Subset
  <2>3. Rise(i) <= Rise(k) /\ Rise(i) # Rise(k)
    BY <2>1, <2>2, FS_Subset
  <2> QED
    BY <1>2, <2>3
<1> HIDE DEF Rise
<1>4. rank \in Injection(S, 1..Cardinality(S))
  <2>1. rank \in [S -> 1..Cardinality(S)]
    BY <1>2
  <2>2. ASSUME NEW i \in S, NEW k \in S, rank[i] = rank[k]
        PROVE  i = k
    <3>1. ~(i < k) /\ ~(k < i)
      BY <1>2, <1>3, <2>2
    <3> QED
      BY <3>1
  <2> QED
    BY <2>1, <2>2 DEF Injection, IsInjective
<1>5. rank \in Surjection(S, 1..Cardinality(S))
  <2>1. /\ IsFiniteSet(1..Cardinality(S)) /\ Cardinality(S) = Cardinality(1..Cardinality(S))
    BY <1>1
  <2> QED
    BY <1>4, <2>1, FS_Injection
<1>6. PICK ids : ids = [k \in 1..Cardinality(S) |-> CHOOSE i \in S : Rise(i) = k]
  OBVIOUS
<1>7. \A k \in 1..Cardinality(S) : ids[k] \in S /\ Rise(ids[k]) = k
  BY <1>5, <1>6 DEF Surjection
<1>8. ids \in [1..Cardinality(S) -> S]
  BY <1>6, <1>7
<1>9. ASSUME NEW j \in DOMAIN ids, NEW k \in DOMAIN ids, j < k
      PROVE  ids[j] < ids[k]
  <2>1. ids[j] \in S /\ ids[k] \in S /\ Rise(ids[j]) = j /\ Rise(ids[k]) = k
    BY <1>7, <1>8
  <2>2. j \in Nat /\ k \in Nat /\ ids[j] \in Nat /\ ids[k] \in Nat
    <3>1. j \in 1..Cardinality(S) /\ k \in 1..Cardinality(S)
      BY <1>8
    <3>2. j \in Nat /\ k \in Nat
      BY <1>1, <3>1
    <3> QED
      BY <1>0, <2>1, <3>2
  <2>3. ids[k] < ids[j] => Rise(ids[k]) < Rise(ids[j])
    BY <1>3, <2>1
  <2>4. ids[j] # ids[k] /\ ~(ids[k] < ids[j])
    BY <1>9, <2>1, <2>2, <2>3
  <2> QED
    BY <2>2, <2>4
<1> QED
  BY <1>8, <1>9

LEMMA AscendingLists ==
  ASSUME NEW S, S \subseteq Nat, IsFiniteSet(S), NEW n \in Nat, \A i \in S : i <= n
  PROVE  LET ids == Ascending(S)
         IN  /\ Cardinality(S) \in Nat /\ ids \in [1..Cardinality(S) -> S]
             /\ \A j, k \in 1..Cardinality(S) : j < k => ids[j] < ids[k]
             /\ \A i \in S : \E k \in 1..Cardinality(S) : ids[k] = i
<1>0. \A i \in S : i \in Nat
  OBVIOUS
<1>1. PICK m : m = Cardinality(S)
  OBVIOUS
<1>2. m \in Nat /\ IsFiniteSet(1..m) /\ Cardinality(1..m) = m
  BY <1>1, FS_CardinalityType, FS_Interval
<1>3. \E ids \in [1..m -> S] : \A j, k \in DOMAIN ids : j < k => ids[j] < ids[k]
  BY <1>1, AscendingExists
<1>4. PICK ids : ids = Ascending(S)
  OBVIOUS
<1>5. ids \in [1..m -> S] /\ \A j, k \in DOMAIN ids : j < k => ids[j] < ids[k]
  BY <1>1, <1>3, <1>4 DEF Ascending
<1>6. ASSUME NEW j \in 1..m, NEW k \in 1..m, ids[j] = ids[k]
      PROVE  j = k
  <2>1. j \in Nat /\ k \in Nat /\ ids[j] \in S /\ ids[k] \in S
    BY <1>2, <1>5
  <2>2. ids[j] \in Nat /\ ids[k] \in Nat
    BY <1>0, <2>1
  <2>3. ~(j < k) /\ ~(k < j)
    BY <1>5, <1>6, <2>2
  <2> QED
    BY <2>1, <2>3
<1>7. ids \in Injection(1..m, S)
  BY <1>5, <1>6 DEF Injection, IsInjective
<1>8. ids \in Surjection(1..m, S)
  BY <1>1, <1>2, <1>7, FS_Injection
<1> QED
  BY <1>1, <1>2, <1>4, <1>5, <1>8 DEF Surjection

-------------------------------------------------------------------------------
(* getChatMessages.                                                        *)

LEMMA RowsOfChat ==
  ASSUME TypeOK, NEW c
  PROVE  /\ Len(rows) \in Nat /\ In(c) \subseteq Nat /\ IsFiniteSet(In(c))
         /\ \A i \in In(c) : i \in DOMAIN rows /\ i <= Len(rows) /\ i # Temp /\ i \in Ids /\ i <= MaxMessages
         /\ \A i \in DOMAIN rows : rows[i] \in Row /\ i # Temp /\ i \in Nat
<1>1. rows \in Seq(Row) /\ Len(rows) \in Nat /\ DOMAIN rows = 1..Len(rows) /\ Len(rows) <= MaxMessages /\ MaxMessages \in Nat
  BY ChatPageAssumption DEF TypeOK
<1>2. IsFiniteSet(1..Len(rows)) /\ In(c) \subseteq 1..Len(rows)
  BY <1>1, FS_Interval DEF In
<1> QED
  BY <1>1, <1>2, FS_Subset DEF In, Ids, Temp

\* The latest rows are at most a page of them, and exactly a page if there are earlier ones.
LEMMA LatestRows ==
  ASSUME ChatPageAssumption, TypeOK, NEW c, NEW before \in Nat
  PROVE  LET earlier == {i \in In(c) : i < before}
             latest == Latest(c, before)
         IN  /\ latest \subseteq earlier /\ IsFiniteSet(latest) /\ Cardinality(latest) \in Nat
             /\ Cardinality(latest) <= PageSize
             /\ latest # earlier => Cardinality(latest) = PageSize
             /\ \A i \in latest, j \in earlier : i <= j => j \in latest
<1> DEFINE earlier == {i \in In(c) : i < before}
           latest == Latest(c, before)
           Later(i) == {j \in earlier : j > i}
<1>1. /\ earlier \subseteq Nat /\ IsFiniteSet(earlier) /\ PageSize \in Nat /\ PageSize # 0
      /\ latest = {i \in earlier : Cardinality(Later(i)) < PageSize}
  BY RowsOfChat, FS_Subset, ChatPageAssumption DEF Latest
<1>2. latest \subseteq earlier /\ IsFiniteSet(latest) /\ Cardinality(latest) \in Nat
  BY <1>1, Subset
<1>3. \A i \in earlier : i \in Nat /\ i < before
  BY <1>1
<1>4. \A i \in earlier : IsFiniteSet(Later(i)) /\ Cardinality(Later(i)) \in Nat
  BY <1>1, Subset
<1>5. ASSUME NEW i \in earlier, NEW j \in earlier, i <= j
      PROVE  Later(j) \subseteq Later(i)
  <2>1. ASSUME NEW k \in earlier, k > j
        PROVE  k > i
    <3>1. i \in Nat /\ j \in Nat /\ k \in Nat
      BY <1>3
    <3> QED
      BY <1>5, <2>1, <3>1
  <2> QED
    BY <2>1
<1> HIDE DEF earlier, latest, Later
<1>6. ASSUME NEW i \in latest, NEW j \in earlier, i <= j
      PROVE  j \in latest
  <2>1. i \in earlier /\ Cardinality(Later(i)) < PageSize
    BY <1>1
  <2>2. Cardinality(Later(j)) <= Cardinality(Later(i))
    BY <1>4, <1>5, <1>6, <2>1, Subset
  <2> QED
    BY <1>1, <1>4, <2>1, <2>2
<1>7. Cardinality(latest) <= PageSize
  <2>1. CASE latest = {}
    BY <1>1, <2>1, FS_EmptySet
  <2>2. CASE latest # {}
    <3>1. PICK i \in latest : \A j \in latest : i <= j
      BY <1>1, <1>2, <2>2, LeastExists
    <3>2. i \in earlier /\ Cardinality(Later(i)) < PageSize
      BY <1>1
    <3>3. latest \ {i} \subseteq Later(i)
      <4>1. ASSUME NEW j \in latest, j # i
            PROVE  j \in Later(i)
        <5>1. j \in earlier /\ i \in Nat /\ j \in Nat /\ i <= j
          BY <1>2, <1>3, <3>1, <3>2
        <5> QED
          BY <4>1, <5>1 DEF Later
      <4> QED
        BY <4>1
    <3>4. Cardinality(latest \ {i}) <= Cardinality(Later(i)) /\ Cardinality(latest \ {i}) = Cardinality(latest) - 1
      BY <1>2, <1>4, <3>2, <3>3, Subset, FS_RemoveElement
    <3> QED
      BY <1>1, <1>2, <1>4, <3>2, <3>4
  <2> QED
    BY <2>1, <2>2
<1>8. latest # earlier => Cardinality(latest) = PageSize
  <2>1. SUFFICES ASSUME latest # earlier PROVE Cardinality(latest) >= PageSize
    BY <1>1, <1>2, <1>7
  <2>2. PICK rest : rest = earlier \ latest
    OBVIOUS
  <2>3. rest \subseteq Nat /\ IsFiniteSet(rest) /\ rest # {} /\ \A i \in rest : i <= before
    <3>1. \A i \in rest : i \in Nat /\ i <= before
      <4>1. ASSUME NEW i \in rest
            PROVE  i \in Nat /\ i <= before
        <5>1. i \in Nat /\ i < before
          BY <1>3, <2>2
        <5> QED
          BY <5>1
      <4> QED
        BY <4>1
    <3> QED
      BY <1>1, <1>2, <2>1, <2>2, <3>1, Subset
  <2>4. PICK i \in rest : \A j \in rest : j <= i
    BY <2>3, GreatestExists
  <2>5. i \in earlier /\ ~(Cardinality(Later(i)) < PageSize)
    BY <1>1, <2>2
  <2>6. Later(i) \subseteq latest
    <3>1. ASSUME NEW j \in earlier, j > i
          PROVE  j \in latest
      <4>1. i \in Nat /\ j \in Nat
        BY <1>3, <2>5
      <4>2. ~(j <= i)
        BY <3>1, <4>1
      <4> QED
        BY <2>2, <2>4, <4>2
    <3> QED
      BY <3>1 DEF Later
  <2>7. Cardinality(Later(i)) <= Cardinality(latest)
    BY <1>2, <2>6, Subset
  <2> QED
    BY <1>1, <1>2, <1>4, <2>5, <2>7
<1> QED
  BY <1>2, <1>6, <1>7, <1>8 DEF earlier, latest

\* What getChatMessages answers: rows of the chat in order, with their status, and
\* all of them from its first row on, or from the beginning if it is not a full page.
LEMMA PageRows ==
  ASSUME ChatPageAssumption, TypeOK, NEW c \in Chats, NEW before \in Nat
  PROVE  LET page == PageOf(c, before)
         IN  /\ page \in Seq(Entry)
             /\ \A k \in DOMAIN page :
                  page[k].id \in In(c) /\ page[k].id < before /\ page[k].status = rows[page[k].id].status
             /\ \A j, k \in DOMAIN page : j < k => page[j].id < page[k].id
             /\ \A i \in In(c) : i < before /\ (Full(page) => page[1].id <= i) => Shows(page, i)
             /\ \A i \in In(c) :
                  i < before /\ Cardinality({j \in In(c) : j < before /\ j > i}) < PageSize => Shows(page, i)
<1> DEFINE earlier == {i \in In(c) : i < before}
           latest == Latest(c, before)
           ids == Ascending(latest)
           page == PageOf(c, before)
<1>1. /\ earlier \subseteq Nat /\ latest \subseteq earlier /\ IsFiniteSet(latest)
      /\ Cardinality(latest) \in Nat
      /\ latest # earlier => Cardinality(latest) = PageSize
      /\ \A i \in latest, j \in earlier : i <= j => j \in latest
  BY LatestRows, RowsOfChat
<1>2. \A i \in earlier : i \in Nat /\ i \in In(c) /\ i < before /\ i \in DOMAIN rows /\ i \in Ids
  BY <1>1, RowsOfChat
<1>3. /\ ids \in [1..Cardinality(latest) -> latest]
      /\ \A j, k \in 1..Cardinality(latest) : j < k => ids[j] < ids[k]
      /\ \A i \in latest : \E k \in 1..Cardinality(latest) : ids[k] = i
  <2>1. \A i \in latest : i <= before
    <3>1. ASSUME NEW i \in latest
          PROVE  i <= before
      <4>1. i \in Nat /\ i < before
        BY <1>1, <1>2
      <4> QED
        BY <4>1
    <3> QED
      BY <3>1
  <2>2. latest \subseteq Nat
    BY <1>1
  <2> HIDE DEF latest
  <2> QED
    BY <1>1, <2>1, <2>2, AscendingLists
<1>4. PICK m : m = Cardinality(latest)
  OBVIOUS
<1>5. page = [k \in 1..m |-> [id |-> ids[k], status |-> rows[ids[k]].status]]
  BY <1>3, <1>4 DEF PageOf
<1> HIDE DEF earlier, latest, ids, page
<1>6. ASSUME NEW k \in 1..m
      PROVE  /\ ids[k] \in latest /\ ids[k] \in earlier /\ page[k].id = ids[k]
             /\ page[k].status = rows[ids[k]].status /\ page[k] \in Entry
  <2>1. ids[k] \in latest /\ ids[k] \in earlier
    BY <1>1, <1>3, <1>4
  <2>2. ids[k] \in Ids /\ rows[ids[k]].status \in DOMAIN Rank
    BY <1>2, <2>1, RowsOfChat DEF Row
  <2>3. page[k] = [id |-> ids[k], status |-> rows[ids[k]].status]
    BY <1>5
  <2> QED
    BY <2>1, <2>2, <2>3 DEF Entry
<1>7. page \in Seq(Entry) /\ DOMAIN page = 1..m /\ Len(page) = m /\ m \in Nat
  <2>1. m \in Nat
    BY <1>1, <1>4
  <2>2. page \in [1..m -> Entry]
    BY <1>5, <1>6
  <2> QED
    BY <2>1, <2>2
<1>8. \A k \in DOMAIN page :
        page[k].id \in In(c) /\ page[k].id < before /\ page[k].status = rows[page[k].id].status
  BY <1>2, <1>6, <1>7
<1>9. \A j, k \in DOMAIN page : j < k => page[j].id < page[k].id
  BY <1>3, <1>4, <1>6, <1>7
<1>10. \A i \in latest : Shows(page, i)
  BY <1>3, <1>4, <1>6, <1>7 DEF Shows
<1>11. ASSUME NEW i \in In(c), i < before, Full(page) => page[1].id <= i
       PROVE  Shows(page, i)
  <2>1. CASE latest = earlier
    BY <1>10, <1>11, <2>1 DEF earlier
  <2>2. CASE latest # earlier
    <3>1. m = PageSize /\ PageSize \in Nat \ {0}
      BY <1>1, <1>4, <2>2, ChatPageAssumption
    <3>2. 1 \in 1..m /\ Full(page)
      BY <1>7, <3>1 DEF Full
    <3>3. page[1].id \in latest /\ page[1].id <= i /\ i \in earlier
      BY <1>6, <1>11, <3>2 DEF earlier
    <3> QED
      BY <1>1, <1>10, <3>3
  <2> QED
    BY <2>1, <2>2
<1>12. ASSUME NEW i \in In(c), i < before, Cardinality({j \in In(c) : j < before /\ j > i}) < PageSize
       PROVE  Shows(page, i)
  <2>1. {j \in earlier : j > i} = {j \in In(c) : j < before /\ j > i} /\ i \in earlier
    BY <1>12 DEF earlier
  <2>2. i \in latest
    BY <1>12, <2>1 DEF latest, Latest, earlier
  <2> QED
    BY <1>10, <2>2
<1> QED
  BY <1>7, <1>8, <1>9, <1>11, <1>12 DEF page

-------------------------------------------------------------------------------
(* What changes the table, and what the channel then brings.               *)

LEMMA Ranks ==
  /\ DOMAIN Rank = {"sent", "delivered", "seen"}
  /\ Rank["sent"] = 1 /\ Rank["delivered"] = 2 /\ Rank["seen"] = 3
  /\ \A s \in DOMAIN Rank : Rank[s] \in Nat /\ Rank["sent"] <= Rank[s]
BY DEF Rank

\* A finite set as a sequence has each element once.
LEMMA Listed ==
  ASSUME NEW S, IsFiniteSet(S)
  PROVE  /\ SetToSeq(S) \in Seq(S)
         /\ \A e \in S : \E k \in DOMAIN SetToSeq(S) : SetToSeq(S)[k] = e
         /\ \A j, k \in DOMAIN SetToSeq(S) : SetToSeq(S)[j] = SetToSeq(S)[k] => j = k
<1>1. PICK n, elements : n = Cardinality(S) /\ elements = SetToSeq(S)
  OBVIOUS
<1>2. n \in Nat /\ \E f : f \in Bijection(1..n, S)
  BY <1>1, FS_CardinalityType DEF ExistsBijection
<1>3. elements \in [1..n -> S] /\ IsInjective(elements)
  BY <1>1, <1>2 DEF SetToSeq, Bijection, Injection
<1>4. elements \in Surjection(1..n, S)
  <2>1. IsFiniteSet(1..n) /\ Cardinality(1..n) = n
    BY <1>2, FS_Interval
  <2>2. elements \in Injection(1..n, S)
    BY <1>3 DEF Injection
  <2> QED
    BY <1>1, <2>1, <2>2, FS_Injection
<1>5. elements \in Seq(S) /\ DOMAIN elements = 1..n
  BY <1>2, <1>3
<1> QED
  BY <1>1, <1>3, <1>4, <1>5 DEF Surjection, IsInjective

LEMMA FiniteEvents ==
  ASSUME NEW ids, IsFiniteSet(ids), NEW kind, NEW s
  PROVE  IsFiniteSet({[kind |-> kind, id |-> i, status |-> s] : i \in ids})
<1> DEFINE Of(i) == [kind |-> kind, id |-> i, status |-> s]
<1>1. PICK S, f : S = {Of(i) : i \in ids} /\ f = [i \in ids |-> Of(i)]
  OBVIOUS
<1>2. f \in Surjection(ids, S)
  <2> HIDE DEF Of
  <2> QED
    BY <1>1 DEF Surjection
<1> QED
  BY <1>1, <1>2, FS_Surjection

\* The channel of the open chat brings the events of a statement after the others.
Brings(c, kind, ids, s) ==
  IF joined /\ active = c
  THEN /\ Len(feed') \in Nat /\ Len(feed) <= Len(feed')
       /\ \A k \in DOMAIN feed : k \in DOMAIN feed' /\ feed'[k] = feed[k]
       /\ \A k \in DOMAIN feed' : k \notin DOMAIN feed =>
            k > Len(feed) /\ feed'[k].kind = kind /\ feed'[k].id \in ids /\ feed'[k].status = s
       /\ \A i \in ids : \E k \in DOMAIN feed' : k \notin DOMAIN feed /\ feed'[k].id = i
       /\ \A j, k \in DOMAIN feed' :
            j \notin DOMAIN feed /\ k \notin DOMAIN feed /\ feed'[j].id = feed'[k].id => j = k
  ELSE feed' = feed

LEMMA Published ==
  ASSUME TypeOK, NEW c, NEW kind \in {"INSERT", "UPDATE"}, NEW ids, ids \subseteq Ids, IsFiniteSet(ids),
         NEW s \in DOMAIN Rank, Publish(c, kind, ids, s)
  PROVE  feed' \in Seq(Event) /\ Brings(c, kind, ids, s)
<1>1. feed \in Seq(Event) /\ Len(feed) \in Nat /\ DOMAIN feed = 1..Len(feed)
  BY DEF TypeOK
<1>2. CASE ~(joined /\ active = c)
  BY <1>1, <1>2 DEF Publish, Brings
<1>3. CASE joined /\ active = c
  <2>1. PICK S : S = {[kind |-> kind, id |-> i, status |-> s] : i \in ids}
    OBVIOUS
  <2>2. PICK events : events = SetToSeq(S)
    OBVIOUS
  <2>3. /\ events \in Seq(S)
        /\ \A i \in ids : \E k \in DOMAIN events : events[k].id = i
        /\ \A j, k \in DOMAIN events : events[j].id = events[k].id => j = k
    <3>1. /\ events \in Seq(S)
          /\ \A e \in S : \E k \in DOMAIN events : events[k] = e
          /\ \A j, k \in DOMAIN events : events[j] = events[k] => j = k
      <4>1. IsFiniteSet(S)
        BY <2>1, FiniteEvents
      <4> QED
        BY <2>2, <4>1, Listed
    <3>2. \A i \in ids : \E e \in S : e.id = i
      <4>1. ASSUME NEW i \in ids
            PROVE  \E e \in S : e.id = i
        <5>1. PICK e : e = [kind |-> kind, id |-> i, status |-> s]
          OBVIOUS
        <5>2. e \in S /\ e.id = i
          BY <2>1, <5>1
        <5> QED
          BY <5>2
      <4> QED
        BY <4>1
    <3>3. \A e, d \in S : e.id = d.id => e = d
      BY <2>1
    <3>4. \A k \in DOMAIN events : events[k] \in S
      BY <3>1
    <3> QED
      BY <3>1, <3>2, <3>3, <3>4
  <2>4. feed' = feed \o events
    BY <1>3, <2>1, <2>2 DEF Publish
  <2>5. \A e \in S : e \in Event /\ e.kind = kind /\ e.id \in ids /\ e.status = s
    BY <2>1 DEF Event
  <2>6. events \in Seq(Event) /\ Len(events) \in Nat /\ DOMAIN events = 1..Len(events)
    <3>1. S \subseteq Event
      BY <2>5
    <3> QED
      BY <2>3, <3>1, SeqMonotonic
  <2>7. /\ feed' \in Seq(Event) /\ Len(feed') = Len(feed) + Len(events) /\ DOMAIN feed' = 1..(Len(feed) + Len(events))
        /\ \A k \in 1..(Len(feed) + Len(events)) :
             feed'[k] = IF k <= Len(feed) THEN feed[k] ELSE events[k - Len(feed)]
    BY <1>1, <2>4, <2>6, ConcatProperties
  <2>8. \A k \in DOMAIN feed : k \in DOMAIN feed' /\ feed'[k] = feed[k]
    BY <1>1, <2>6, <2>7
  <2>9. \A k \in DOMAIN feed' : k \notin DOMAIN feed =>
          k > Len(feed) /\ k - Len(feed) \in DOMAIN events /\ feed'[k] = events[k - Len(feed)]
    BY <1>1, <2>6, <2>7
  <2>10. \A k \in DOMAIN events : k + Len(feed) \in DOMAIN feed' /\ k + Len(feed) \notin DOMAIN feed
                                  /\ feed'[k + Len(feed)] = events[k]
    BY <1>1, <2>6, <2>7
  <2>11. \A k \in DOMAIN events : events[k] \in S
    BY <2>3
  <2>12. \A k \in DOMAIN feed' : k \notin DOMAIN feed =>
           k > Len(feed) /\ feed'[k].kind = kind /\ feed'[k].id \in ids /\ feed'[k].status = s
    BY <2>5, <2>9, <2>11
  <2>13. \A i \in ids : \E k \in DOMAIN feed' : k \notin DOMAIN feed /\ feed'[k].id = i
    BY <2>3, <2>10
  <2>14. ASSUME NEW j \in DOMAIN feed', NEW k \in DOMAIN feed', j \notin DOMAIN feed, k \notin DOMAIN feed,
                feed'[j].id = feed'[k].id
         PROVE  j = k
    <3>1. j - Len(feed) = k - Len(feed)
      BY <2>3, <2>9, <2>14
    <3>2. j \in Int /\ k \in Int
      BY <2>7
    <3> QED
      BY <1>1, <3>1, <3>2
  <2> QED
    BY <1>1, <1>3, <2>6, <2>7, <2>8, <2>12, <2>13, <2>14 DEF Brings
<1> QED
  BY <1>2, <1>3

\* Rows stay, in their chats, and their status only advances.
Grown ==
  \A i \in DOMAIN rows :
    /\ i \in DOMAIN rows' /\ rows'[i].chat = rows[i].chat
    /\ Rank[rows[i].status] <= Rank[rows'[i].status] /\ Rank[rows'[i].status] \in Nat

LEMMA Marked ==
  ASSUME TypeOK, NEW c \in Chats, NEW s \in DOMAIN Rank, NEW ids, ids \subseteq In(c),
         \A i \in ids : Rank[rows[i].status] < Rank[s], SetStatus(c, ids, s)
  PROVE  /\ rows' \in Seq(Row) /\ Len(rows') = Len(rows) /\ DOMAIN rows' = DOMAIN rows
         /\ Grown /\ feed' \in Seq(Event) /\ Brings(c, "UPDATE", ids, s)
         /\ \A d : In(d)' = In(d)
         /\ \A i \in DOMAIN rows : rows'[i].status = IF i \in ids THEN s ELSE rows[i].status
<1>1. /\ rows \in Seq(Row) /\ Len(rows) \in Nat /\ DOMAIN rows = 1..Len(rows)
      /\ rows' = [i \in DOMAIN rows |-> IF i \in ids THEN [rows[i] EXCEPT !.status = s] ELSE rows[i]]
  BY DEF TypeOK, SetStatus
<1>2. ASSUME NEW i \in DOMAIN rows
      PROVE  /\ rows'[i] \in Row /\ rows'[i].chat = rows[i].chat
             /\ rows'[i].status = IF i \in ids THEN s ELSE rows[i].status
             /\ Rank[rows[i].status] <= Rank[rows'[i].status] /\ Rank[rows'[i].status] \in Nat
  <2>1. rows[i] \in Row /\ rows[i].status \in DOMAIN Rank
    BY RowsOfChat DEF Row
  <2>2. CASE i \in ids
    <3>1. rows'[i] = [rows[i] EXCEPT !.status = s]
      BY <1>1, <2>2
    <3>2. rows'[i] \in Row /\ rows'[i].chat = rows[i].chat /\ rows'[i].status = s
      BY <2>1, <3>1 DEF Row
    <3> QED
      BY <2>1, <2>2, <3>2, Ranks
  <2>3. CASE i \notin ids
    <3>1. rows'[i] = rows[i]
      BY <1>1, <2>3
    <3> QED
      BY <2>1, <2>3, <3>1, Ranks
  <2> QED
    BY <2>2, <2>3
<1>3. rows' \in Seq(Row) /\ Len(rows') = Len(rows) /\ DOMAIN rows' = DOMAIN rows
  <2>1. rows' \in [1..Len(rows) -> Row]
    BY <1>1, <1>2
  <2> QED
    BY <1>1, <2>1
<1>4. \A d : In(d)' = In(d)
  BY <1>2, <1>3 DEF In
<1>5. feed' \in Seq(Event) /\ Brings(c, "UPDATE", ids, s)
  <2>1. ids \subseteq Ids /\ IsFiniteSet(ids)
    BY RowsOfChat, FS_Subset
  <2> QED
    BY <2>1, Published DEF SetStatus
<1> QED
  BY <1>2, <1>3, <1>4, <1>5 DEF Grown

LEMMA Inserted ==
  ASSUME ChatPageAssumption, TypeOK, NEW c \in Chats, NEW mine \in BOOLEAN, Insert(c, mine)
  PROVE  /\ rows' \in Seq(Row) /\ Len(rows') = Len(rows) + 1 /\ Len(rows') <= MaxMessages
         /\ Grown /\ feed' \in Seq(Event) /\ Brings(c, "INSERT", {Len(rows) + 1}, "sent")
         /\ Len(rows) + 1 \in Ids
         /\ \A d : In(d)' = IF d = c THEN In(d) \cup {Len(rows) + 1} ELSE In(d)
         /\ rows'[Len(rows) + 1].status = "sent"
         /\ \A i \in DOMAIN rows : rows'[i] = rows[i] /\ i < Len(rows) + 1
<1>1. PICK row : row = [chat |-> c, mine |-> mine, status |-> "sent"]
  OBVIOUS
<1>2. /\ rows \in Seq(Row) /\ Len(rows) \in Nat /\ DOMAIN rows = 1..Len(rows) /\ row \in Row /\ MaxMessages \in Nat
      /\ rows' = Append(rows, row) /\ Len(rows) < MaxMessages /\ row.chat = c /\ row.status = "sent"
  BY <1>1, Ranks, ChatPageAssumption DEF TypeOK, Insert, Row
<1>3. /\ rows' \in Seq(Row) /\ Len(rows') = Len(rows) + 1 /\ DOMAIN rows' = 1..(Len(rows) + 1)
      /\ rows'[Len(rows) + 1] = row
      /\ \A i \in DOMAIN rows : rows'[i] = rows[i] /\ i \in DOMAIN rows' /\ i < Len(rows) + 1
  BY <1>2, AppendProperties
<1>4. Len(rows) + 1 \in Ids /\ Len(rows') <= MaxMessages
  BY <1>2, <1>3 DEF Ids
<1>5. ASSUME NEW d
      PROVE  In(d)' = IF d = c THEN In(d) \cup {Len(rows) + 1} ELSE In(d)
  <2>1. DOMAIN rows' = DOMAIN rows \cup {Len(rows) + 1}
    BY <1>2, <1>3
  <2> QED
    BY <1>2, <1>3, <2>1 DEF In
<1>6. Grown
  <2>1. ASSUME NEW i \in DOMAIN rows
        PROVE  /\ i \in DOMAIN rows' /\ rows'[i].chat = rows[i].chat
               /\ Rank[rows[i].status] <= Rank[rows'[i].status] /\ Rank[rows'[i].status] \in Nat
    <3>1. rows'[i] = rows[i] /\ i \in DOMAIN rows' /\ rows[i].status \in DOMAIN Rank
      BY <1>3, RowsOfChat DEF Row
    <3> QED
      BY <3>1, Ranks
  <2> QED
    BY <2>1 DEF Grown
<1>7. feed' \in Seq(Event) /\ Brings(c, "INSERT", {Len(rows) + 1}, "sent")
  <2>1. {Len(rows) + 1} \subseteq Ids /\ IsFiniteSet({Len(rows) + 1})
    BY <1>4, FS_Singleton
  <2> QED
    BY <2>1, Published, Ranks DEF Insert
<1> QED
  BY <1>2, <1>3, <1>4, <1>5, <1>6, <1>7

-------------------------------------------------------------------------------
(* The invariant of any order, action by action.                           *)

LEMMA Entries ==
  ASSUME NEW page \in Seq(Entry), NEW k \in DOMAIN page
  PROVE  page[k] \in Entry /\ page[k].id \in {Temp} \cup Ids /\ page[k].id \in Nat /\ page[k].status \in DOMAIN Rank
<1>1. page[k] \in Entry
  OBVIOUS
<1> QED
  BY <1>1 DEF Entry, Ids, Temp

LEMMA Events ==
  ASSUME TypeOK, NEW k \in DOMAIN feed
  PROVE  feed[k].kind \in {"INSERT", "UPDATE"} /\ feed[k].id \in Ids /\ feed[k].id \in Nat /\ feed[k].id # Temp
         /\ feed[k].status \in DOMAIN Rank
<1>1. feed[k] \in Event
  BY DEF TypeOK
<1> QED
  BY <1>1 DEF Event, Ids, Temp

LEMMA Statuses ==
  ASSUME TypeOK, NEW i \in DOMAIN rows
  PROVE  rows[i].status \in DOMAIN Rank /\ rows[i].chat \in Chats /\ rows[i].mine \in BOOLEAN
<1>1. rows[i] \in Row
  BY RowsOfChat
<1> QED
  BY <1>1 DEF Row

LEMMA SameRows ==
  ASSUME TypeOK, UNCHANGED rows
  PROVE  Grown
<1>1. ASSUME NEW i \in DOMAIN rows
      PROVE  /\ i \in DOMAIN rows' /\ rows'[i].chat = rows[i].chat
             /\ Rank[rows[i].status] <= Rank[rows'[i].status] /\ Rank[rows'[i].status] \in Nat
  <2>1. rows'[i] = rows[i] /\ i \in DOMAIN rows' /\ rows[i].status \in DOMAIN Rank
    BY RowsOfChat DEF Row
  <2> QED
    BY <2>1, Ranks
<1> QED
  BY <1>1 DEF Grown

LEMMA FitsKept ==
  ASSUME TypeOK, Grown, NEW page \in Seq(Entry), NEW c, PageFits(page, c)
  PROVE  PageFits(page, c)'
<1>1. ASSUME NEW k \in DOMAIN page
      PROVE  page[k].id \in In(c)' /\ Rank[page[k].status] <= Rank[rows'[page[k].id].status]
  <2>1. page[k].id \in In(c) /\ Rank[page[k].status] <= Rank[rows[page[k].id].status] /\ page[k].status \in DOMAIN Rank
    BY Entries DEF PageFits
  <2>2. page[k].id \in DOMAIN rows /\ rows[page[k].id].chat = c
    BY <2>1 DEF In
  <2>5. rows[page[k].id].status \in DOMAIN Rank
    BY <2>2, Statuses
  <2>3. /\ page[k].id \in In(c)' /\ Rank[rows[page[k].id].status] <= Rank[rows'[page[k].id].status]
        /\ Rank[rows'[page[k].id].status] \in Nat
    BY <2>2 DEF Grown, In
  <2>4. Rank[page[k].status] \in Nat /\ Rank[rows[page[k].id].status] \in Nat
    BY <2>1, <2>5, Ranks
  <2> QED
    BY <2>1, <2>3, <2>4
<1> QED
  BY <1>1 DEF PageFits

\* What has been read or sent stays true of rows that have grown.
LEMMA GrownKeeps ==
  ASSUME BaseInv, Grown
  PROVE  /\ \A l \in loads : PageFits(l.page, l.chat)'
         /\ UNCHANGED older => (older # None => PageFits(older.page, older.chat))'
         /\ UNCHANGED send => (send.pc = "stored" => send.id \in In(send.chat))'
         /\ UNCHANGED list => NeverAhead'
<1>1. TypeOK
  BY DEF BaseInv
<1>2. ASSUME NEW l \in loads
      PROVE  PageFits(l.page, l.chat)'
  <2>1. PICK p, c : p = l.page /\ c = l.chat
    OBVIOUS
  <2>2. p \in Seq(Entry) /\ PageFits(p, c)
    BY <2>1 DEF BaseInv, TypeOK, Load, PageFits
  <2>3. PageFits(p, c)'
    BY <1>1, <2>2, FitsKept
  <2> QED
    BY <2>1, <2>3
<1>3. ASSUME UNCHANGED older, older # None
      PROVE  PageFits(older.page, older.chat)'
  <2>1. PICK p, c : p = older.page /\ c = older.chat
    OBVIOUS
  <2>2. p \in Seq(Entry) /\ PageFits(p, c)
    BY <1>3, <2>1 DEF BaseInv, TypeOK, Older, PageFits
  <2>3. PageFits(p, c)'
    BY <1>1, <2>2, FitsKept
  <2> QED
    BY <1>3, <2>1, <2>3 DEF PageFits
<1>4. ASSUME UNCHANGED send, send.pc = "stored"
      PROVE  send.id \in In(send.chat)'
  BY <1>4 DEF BaseInv, Grown, In
<1>5. ASSUME UNCHANGED list
      PROVE  NeverAhead'
  <2>1. ASSUME NEW k \in DOMAIN list, list[k].id # Temp
        PROVE  list[k].id \in DOMAIN rows' /\ Rank[list[k].status] <= Rank[rows'[list[k].id].status]
    <3>1. list[k].id \in DOMAIN rows /\ Rank[list[k].status] <= Rank[rows[list[k].id].status]
      BY <2>1 DEF BaseInv, NeverAhead
    <3>2. list[k].status \in DOMAIN Rank /\ rows[list[k].id].status \in DOMAIN Rank
      <4>1. list \in Seq(Entry)
        BY <1>1 DEF TypeOK
      <4> QED
        BY <1>1, <3>1, <4>1, Entries, Statuses
    <3>3. /\ list[k].id \in DOMAIN rows' /\ Rank[rows[list[k].id].status] <= Rank[rows'[list[k].id].status]
          /\ Rank[rows'[list[k].id].status] \in Nat
      BY <3>1 DEF Grown
    <3> QED
      BY <3>1, <3>2, <3>3, Ranks
  <2> QED
    BY <1>5, <2>1 DEF NeverAhead
<1> QED
  BY <1>2, <1>3, <1>4, <1>5

\* The events of a statement fit the rows it has written.
LEMMA BroughtFits ==
  ASSUME BaseInv, Grown, UNCHANGED active, NEW c, NEW kind, NEW ids, NEW s, Brings(c, kind, ids, s),
         \A i \in ids : i \in In(c)' /\ rows'[i].status = s /\ Rank[s] \in Nat, kind = "INSERT" => s = "sent"
  PROVE  FeedFits'
<1>1. TypeOK /\ DOMAIN feed = 1..Len(feed)
  BY DEF BaseInv, TypeOK
<1>2. ASSUME NEW k \in DOMAIN feed', k \in DOMAIN feed, feed'[k] = feed[k]
      PROVE  /\ feed'[k].id \in In(active)' /\ Rank[feed'[k].status] <= Rank[rows'[feed'[k].id].status]
             /\ feed'[k].kind = "INSERT" => feed'[k].status = "sent"
  <2>1. /\ feed[k].id \in In(active) /\ Rank[feed[k].status] <= Rank[rows[feed[k].id].status]
        /\ feed[k].kind = "INSERT" => feed[k].status = "sent"
    BY <1>2 DEF BaseInv, FeedFits
  <2>2. feed[k].status \in DOMAIN Rank /\ feed[k].id \in DOMAIN rows /\ rows[feed[k].id].status \in DOMAIN Rank
    <3>1. feed[k].id \in DOMAIN rows
      BY <2>1 DEF In
    <3> QED
      BY <1>1, <1>2, <3>1, Events, Statuses
  <2>3. /\ feed[k].id \in In(active)' /\ Rank[rows[feed[k].id].status] <= Rank[rows'[feed[k].id].status]
        /\ Rank[rows'[feed[k].id].status] \in Nat
    BY <2>1, <2>2 DEF Grown, In
  <2>4. Rank[feed[k].status] <= Rank[rows'[feed[k].id].status]
    BY <2>1, <2>2, <2>3, Ranks
  <2> QED
    BY <1>2, <2>1, <2>3, <2>4
<1>3. CASE ~(joined /\ active = c)
  <2>1. feed' = feed
    BY <1>3 DEF Brings
  <2> QED
    BY <1>2, <2>1 DEF FeedFits
<1>4. CASE joined /\ active = c
  <2>1. /\ \A k \in DOMAIN feed : k \in DOMAIN feed' /\ feed'[k] = feed[k]
        /\ \A k \in DOMAIN feed' : k \notin DOMAIN feed =>
             k > Len(feed) /\ feed'[k].kind = kind /\ feed'[k].id \in ids /\ feed'[k].status = s
    BY <1>4 DEF Brings
  <2>2. ASSUME NEW k \in DOMAIN feed', k \notin DOMAIN feed
        PROVE  /\ feed'[k].id \in In(active)' /\ Rank[feed'[k].status] <= Rank[rows'[feed'[k].id].status]
               /\ feed'[k].kind = "INSERT" => feed'[k].status = "sent"
    <3>1. feed'[k].kind = kind /\ feed'[k].id \in ids /\ feed'[k].status = s
      BY <2>1, <2>2
    <3>2. feed'[k].id \in In(c)' /\ rows'[feed'[k].id].status = s /\ Rank[s] <= Rank[s]
      BY <3>1
    <3> QED
      BY <1>4, <3>1, <3>2 DEF In
  <2> QED
    BY <1>2, <2>1, <2>2 DEF FeedFits
<1> QED
  BY <1>3, <1>4

\* The table changes and the channel tells: nothing else.
LEMMA TableTypes ==
  ASSUME ChatPageAssumption, TypeOK, rows' \in Seq(Row), Len(rows') <= MaxMessages, feed' \in Seq(Event),
         NEW c \in Chats, NEW kind, NEW ids, NEW s, Brings(c, kind, ids, s),
         UNCHANGED <<active, list, more, older, joined>>, loads' \subseteq loads, send' \in Sending, asks' \subseteq asks
  PROVE  TypeOK'
<1>1. active = NoChat => feed' = <<>>
  BY ChatPageAssumption DEF TypeOK, Brings
<1>2. loads' \subseteq Load /\ asks' \subseteq [chat : Chats, status : {"delivered", "seen"}]
  BY DEF TypeOK
<1> QED
  BY <1>1, <1>2 DEF TypeOK

LEMMA MarkKeeps ==
  ASSUME ChatPageAssumption, BaseInv, NEW c \in Chats, NEW s \in DOMAIN Rank, NEW ids, ids \subseteq In(c),
         \A i \in ids : Rank[rows[i].status] < Rank[s], SetStatus(c, ids, s),
         UNCHANGED <<active, list, more, older, send, joined>>, loads' \subseteq loads, asks' \subseteq asks
  PROVE  BaseInv'
<1>1. TypeOK /\ send \in Sending
  BY DEF BaseInv, TypeOK
<1>2. /\ rows' \in Seq(Row) /\ Len(rows') = Len(rows) /\ DOMAIN rows' = DOMAIN rows
      /\ Grown /\ feed' \in Seq(Event) /\ Brings(c, "UPDATE", ids, s)
      /\ \A d : In(d)' = In(d)
      /\ \A i \in DOMAIN rows : rows'[i].status = IF i \in ids THEN s ELSE rows[i].status
  BY <1>1, Marked
<1>3. TypeOK'
  <2>1. Len(rows') <= MaxMessages
    BY <1>2 DEF BaseInv, TypeOK
  <2> QED
    BY <1>1, <1>2, <2>1, TableTypes
<1>4. FeedFits'
  <2>1. \A i \in ids : i \in In(c)' /\ rows'[i].status = s /\ Rank[s] \in Nat
    BY <1>2, Ranks DEF In
  <2> QED
    BY <1>2, <2>1, BroughtFits
<1>5. /\ \A l \in loads : PageFits(l.page, l.chat)'
      /\ (older # None => PageFits(older.page, older.chat))'
      /\ (send.pc = "stored" => send.id \in In(send.chat))'
      /\ NeverAhead'
  BY <1>2, GrownKeeps
<1>6. OneOptimistic'
  BY DEF BaseInv, OneOptimistic
<1> QED
  BY <1>3, <1>4, <1>5, <1>6 DEF BaseInv

LEMMA BelowRows ==
  ASSUME NEW c, NEW s
  PROVE  /\ Below(Incoming(c), s) \subseteq In(c) /\ Below(Outgoing(c), s) \subseteq In(c)
         /\ \A i \in Below(Incoming(c), s) \cup Below(Outgoing(c), s) : Rank[rows[i].status] < Rank[s]
BY DEF Below, Incoming, Outgoing

LEMMA BasePeerMarks ==
  ASSUME ChatPageAssumption, BaseInv, NEW c \in Chats, NEW s \in DOMAIN Rank, PeerMarks(c, s)
  PROVE  BaseInv'
BY MarkKeeps, BelowRows DEF PeerMarks, requests

LEMMA BaseLoadMark ==
  ASSUME ChatPageAssumption, BaseInv, NEW l \in loads, LoadMark(l)
  PROVE  BaseInv'
<1>1. l.chat \in Chats /\ "seen" \in DOMAIN Rank
  BY Ranks DEF BaseInv, TypeOK, Load
<1>2. PICK c : c = l.chat
  OBVIOUS
<1>3. /\ SetStatus(c, Below(Incoming(c), "seen"), "seen") /\ loads' \subseteq loads
      /\ UNCHANGED <<active, list, more, older, send, joined, asks>>
  BY <1>2 DEF LoadMark
<1> QED
  BY <1>1, <1>2, <1>3, MarkKeeps, BelowRows

LEMMA BaseServe ==
  ASSUME ChatPageAssumption, BaseInv, NEW a \in asks, Serve(a)
  PROVE  BaseInv'
<1>1. a.chat \in Chats /\ a.status \in DOMAIN Rank
  BY Ranks DEF BaseInv, TypeOK
<1>2. PICK c, s : c = a.chat /\ s = a.status
  OBVIOUS
<1>3. /\ SetStatus(c, Below(Incoming(c), s), s) /\ asks' \subseteq asks
      /\ UNCHANGED <<active, list, more, loads, older, send, joined>>
  BY <1>2 DEF Serve, requests
<1> QED
  BY <1>1, <1>2, <1>3, MarkKeeps, BelowRows

LEMMA InsertKeeps ==
  ASSUME ChatPageAssumption, BaseInv, NEW c \in Chats, NEW mine \in BOOLEAN, Insert(c, mine),
         UNCHANGED <<active, list, more, loads, older, joined, asks>>, send' \in Sending, send' = None => send = None,
         (send.pc = "stored" => send.id \in In(send.chat))'
  PROVE  BaseInv'
<1>1. TypeOK
  BY DEF BaseInv
<1>2. /\ rows' \in Seq(Row) /\ Len(rows') = Len(rows) + 1 /\ Len(rows') <= MaxMessages
      /\ Grown /\ feed' \in Seq(Event) /\ Brings(c, "INSERT", {Len(rows) + 1}, "sent")
      /\ Len(rows) + 1 \in Ids
      /\ \A d : In(d)' = IF d = c THEN In(d) \cup {Len(rows) + 1} ELSE In(d)
      /\ rows'[Len(rows) + 1].status = "sent"
  BY <1>1, Inserted
<1>3. TypeOK'
  BY <1>1, <1>2, TableTypes
<1>4. FeedFits'
  <2>1. \A i \in {Len(rows) + 1} : i \in In(c)' /\ rows'[i].status = "sent" /\ Rank["sent"] \in Nat
    BY <1>2, Ranks
  <2> QED
    BY <1>2, <2>1, BroughtFits
<1>5. /\ \A l \in loads : PageFits(l.page, l.chat)'
      /\ (older # None => PageFits(older.page, older.chat))'
      /\ NeverAhead'
  BY <1>2, GrownKeeps
<1>6. OneOptimistic'
  BY DEF BaseInv, OneOptimistic
<1> QED
  BY <1>3, <1>4, <1>5, <1>6 DEF BaseInv

LEMMA BasePeerSends ==
  ASSUME ChatPageAssumption, BaseInv, NEW c \in Chats, PeerSends(c)
  PROVE  BaseInv'
<1>1. /\ Insert(c, FALSE) /\ UNCHANGED <<active, list, more, loads, older, send, joined, asks>>
      /\ TypeOK /\ send \in Sending
  BY DEF PeerSends, requests, BaseInv, TypeOK
<1>2. Grown
  BY <1>1, Inserted
<1>3. (send.pc = "stored" => send.id \in In(send.chat))'
  BY <1>1, <1>2, GrownKeeps
<1>4. send' \in Sending /\ (send' = None => send = None)
  BY <1>1
<1> QED
  BY <1>1, <1>3, <1>4, InsertKeeps

LEMMA SendingIs ==
  ASSUME TypeOK, send # None
  PROVE  /\ send.pc \in {"asked", "stored"} /\ send.chat \in Chats /\ send.id \in {Temp} \cup Ids
         /\ send = [pc |-> send.pc, chat |-> send.chat, id |-> send.id]
<1>1. send \in [pc : {"asked", "stored"}, chat : Chats, id : {Temp} \cup Ids]
  BY DEF TypeOK, Sending
<1> QED
  BY <1>1

LEMMA BaseSendStore ==
  ASSUME ChatPageAssumption, BaseInv, SendStore
  PROVE  BaseInv'
<1>1. /\ TypeOK /\ send.pc = "asked" /\ Insert(send.chat, TRUE)
      /\ send' = [send EXCEPT !.pc = "stored", !.id = Len(rows) + 1]
      /\ UNCHANGED <<active, list, more, loads, older, joined, asks>>
  BY DEF SendStore, BaseInv
<1>2. send # None
  BY <1>1 DEF None
<1>3. PICK c : c = send.chat
  OBVIOUS
<1>4. c \in Chats /\ send = [pc |-> send.pc, chat |-> c, id |-> send.id]
  BY <1>1, <1>2, <1>3, SendingIs
<1>5. send' = [pc |-> "stored", chat |-> c, id |-> Len(rows) + 1]
  <2>1. send = [f \in {"pc", "chat", "id"} |-> send[f]] /\ send["chat"] = c
    BY <1>4
  <2>2. send' = [f \in {"pc", "chat", "id"} |->
                   IF f = "pc" THEN "stored" ELSE IF f = "id" THEN Len(rows) + 1 ELSE send[f]]
    BY <1>1, <2>1
  <2> QED
    BY <2>1, <2>2
<1>6. Len(rows) + 1 \in Ids /\ Len(rows) + 1 \in In(c)'
  BY <1>1, <1>3, <1>4, Inserted
<1>7. send'.pc = "stored" /\ send'.chat = c /\ send'.id = Len(rows) + 1
  BY <1>5
<1>8. send' \in Sending
  BY <1>4, <1>5, <1>6 DEF Sending
<1>9. send' # None
  BY <1>7 DEF None
<1>10. (send.pc = "stored" => send.id \in In(send.chat))'
  BY <1>6, <1>7 DEF In
<1> QED
  BY <1>1, <1>3, <1>4, <1>8, <1>9, <1>10, InsertKeeps

\* Steps that leave the table alone.
LEMMA StillBase ==
  ASSUME BaseInv, UNCHANGED rows, TypeOK', FeedFits', NeverAhead', OneOptimistic',
         \A l \in loads' :
           (\E m \in loads : l.page = m.page /\ l.chat = m.chat) \/ l.page = <<>> \/ PageFits(l.page, l.chat),
         UNCHANGED older \/ (older # None => PageFits(older.page, older.chat))',
         UNCHANGED send \/ (send.pc = "stored" => send.id \in In(send.chat))'
  PROVE  BaseInv'
<1>1. Grown
  BY SameRows DEF BaseInv
<1>2. ASSUME NEW l \in loads'
      PROVE  PageFits(l.page, l.chat)'
  <2>1. PICK p, c : p = l.page /\ c = l.chat
    OBVIOUS
  <2>2. PageFits(p, c)
    <3>1. CASE \E m \in loads : l.page = m.page /\ l.chat = m.chat
      <4>1. PICK m \in loads : p = m.page /\ c = m.chat
        BY <2>1, <3>1
      <4> QED
        BY <4>1 DEF BaseInv, PageFits
    <3>2. CASE l.page = <<>>
      BY <2>1, <3>2 DEF PageFits
    <3>3. CASE PageFits(l.page, l.chat)
      BY <2>1, <3>3 DEF PageFits
    <3> QED
      BY <3>1, <3>2, <3>3
  <2>3. PageFits(p, c)'
    BY <2>2 DEF PageFits, In
  <2> QED
    BY <2>1, <2>3
<1>3. (older # None => PageFits(older.page, older.chat))' /\ (send.pc = "stored" => send.id \in In(send.chat))'
  BY <1>1, GrownKeeps
<1> QED
  BY <1>2, <1>3 DEF BaseInv

LEMMA SameFeed ==
  ASSUME BaseInv, UNCHANGED <<rows, active, feed>>
  PROVE  FeedFits'
BY DEF BaseInv, FeedFits, In

LEMMA SameList ==
  ASSUME BaseInv, UNCHANGED <<rows, list>>
  PROVE  NeverAhead' /\ (UNCHANGED send => OneOptimistic')
BY DEF BaseInv, NeverAhead, OneOptimistic

LEMMA LoadIs ==
  ASSUME TypeOK, NEW l \in loads
  PROVE  /\ l.chat \in Chats /\ l.mounted \in BOOLEAN /\ l.pc \in {"asked", "answered", "marking"}
         /\ l.page \in Seq(Entry)
         /\ l = [chat |-> l.chat, mounted |-> l.mounted, pc |-> l.pc, page |-> l.page]
<1>1. l \in Load
  BY DEF TypeOK
<1> QED
  BY <1>1 DEF Load

LEMMA UnmountedIs ==
  ASSUME TypeOK, NEW k \in Unmounted
  PROVE  \E l \in loads : k = [chat |-> l.chat, mounted |-> FALSE, pc |-> l.pc, page |-> l.page]
<1>1. PICK l \in loads : k = [l EXCEPT !.mounted = FALSE]
  BY DEF Unmounted
<1>2. l = [chat |-> l.chat, mounted |-> l.mounted, pc |-> l.pc, page |-> l.page]
  BY LoadIs
<1> QED
  BY <1>1, <1>2

LEMMA BaseOpen ==
  ASSUME ChatPageAssumption, BaseInv, NEW c \in Chats, Open(c)
  PROVE  BaseInv'
<1>1. PICK new : new = [chat |-> c, mounted |-> TRUE, pc |-> "asked", page |-> <<>>]
  OBVIOUS
<1>2. /\ TypeOK /\ active' = c /\ loads' = Unmounted \cup {new} /\ joined' = FALSE /\ feed' = <<>>
      /\ asks' = asks \cup {[chat |-> c, status |-> "delivered"]}
      /\ UNCHANGED <<rows, list, more, older, send>>
  BY <1>1 DEF Open, Ask, BaseInv
<1>3. new \in Load /\ new.page = <<>>
  BY <1>1 DEF Load
<1>4. \A l \in loads' : l = new \/ \E m \in loads : l.page = m.page /\ l.chat = m.chat /\ l \in Load
  <2>1. ASSUME NEW l \in Unmounted
        PROVE  \E m \in loads : l.page = m.page /\ l.chat = m.chat /\ l \in Load
    <3>1. PICK m \in loads : l = [chat |-> m.chat, mounted |-> FALSE, pc |-> m.pc, page |-> m.page]
      BY <1>2, <2>1, UnmountedIs
    <3>2. l \in Load
      BY <1>2, <3>1, LoadIs DEF Load
    <3> QED
      BY <3>1, <3>2
  <2> QED
    BY <1>2, <2>1
<1>5. TypeOK'
  <2>1. loads' \subseteq Load
    BY <1>3, <1>4
  <2>2. c # NoChat /\ feed' \in Seq(Event) /\ joined' \in BOOLEAN /\ active' \in Chats \cup {NoChat}
    <3>1. <<>> \in Seq(Event) /\ FALSE \in BOOLEAN
      OBVIOUS
    <3> QED
      BY <1>2, <3>1, ChatPageAssumption
  <2>3. asks' \subseteq [chat : Chats, status : {"delivered", "seen"}]
    BY <1>2 DEF TypeOK
  <2> QED
    BY <1>2, <2>1, <2>2, <2>3 DEF TypeOK
<1>6. FeedFits'
  BY <1>2 DEF FeedFits
<1>7. NeverAhead' /\ OneOptimistic'
  BY <1>2, SameList
<1> QED
  BY <1>2, <1>3, <1>4, <1>5, <1>6, <1>7, StillBase

LEMMA BaseClose ==
  ASSUME ChatPageAssumption, BaseInv, Close
  PROVE  BaseInv'
<1>1. /\ TypeOK /\ active' = NoChat /\ loads' = Unmounted /\ joined' = FALSE /\ feed' = <<>> /\ list' = <<>>
      /\ UNCHANGED <<rows, more, older, send, asks>>
  BY DEF Close, BaseInv
<1>2. \A l \in loads' : l \in Load /\ \E m \in loads : l.page = m.page /\ l.chat = m.chat
  <2>1. ASSUME NEW l \in Unmounted
        PROVE  l \in Load /\ \E m \in loads : l.page = m.page /\ l.chat = m.chat
    <3>1. PICK m \in loads : l = [chat |-> m.chat, mounted |-> FALSE, pc |-> m.pc, page |-> m.page]
      BY <1>1, <2>1, UnmountedIs
    <3>2. l \in Load
      BY <1>1, <3>1, LoadIs DEF Load
    <3> QED
      BY <3>1, <3>2
  <2> QED
    BY <1>1, <2>1
<1>3. TypeOK'
  <2>1. loads' \subseteq Load
    BY <1>2
  <2>2. feed' \in Seq(Event) /\ list' \in Seq(Entry) /\ joined' \in BOOLEAN /\ active' \in Chats \cup {NoChat}
    <3>1. <<>> \in Seq(Event) /\ <<>> \in Seq(Entry) /\ FALSE \in BOOLEAN
      OBVIOUS
    <3> QED
      BY <1>1, <3>1
  <2> QED
    BY <1>1, <2>1, <2>2 DEF TypeOK
<1>4. FeedFits' /\ NeverAhead' /\ OneOptimistic'
  BY <1>1 DEF FeedFits, NeverAhead, OneOptimistic
<1> QED
  BY <1>1, <1>2, <1>3, <1>4, StillBase

LEMMA BaseLoadRead ==
  ASSUME ChatPageAssumption, BaseInv, NEW l \in loads, LoadRead(l)
  PROVE  BaseInv'
<1>1. PICK page, c : page = PageOf(l.chat, MaxMessages + 1) /\ c = l.chat
  OBVIOUS
<1>2. TypeOK /\ c \in Chats /\ l = [chat |-> c, mounted |-> l.mounted, pc |-> l.pc, page |-> l.page]
  BY <1>1, LoadIs DEF BaseInv
<1>3. PICK k : k = [chat |-> c, mounted |-> l.mounted, pc |-> "answered", page |-> page]
  OBVIOUS
<1>4. k = [l EXCEPT !.pc = "answered", !.page = page]
  <2>1. l = [f \in {"chat", "mounted", "pc", "page"} |-> l[f]] /\ l["chat"] = c
    BY <1>2
  <2>2. [l EXCEPT !.pc = "answered", !.page = page] =
          [f \in {"chat", "mounted", "pc", "page"} |-> IF f = "pc" THEN "answered" ELSE IF f = "page" THEN page ELSE l[f]]
    BY <2>1
  <2> QED
    BY <1>3, <2>1, <2>2
<1>5. loads' = (loads \ {l}) \cup {k} /\ UNCHANGED <<rows, active, list, more, older, send, joined, feed, asks>>
  BY <1>1, <1>4 DEF LoadRead, Replace, channel
<1>6. /\ page \in Seq(Entry)
      /\ \A j \in DOMAIN page : page[j].id \in In(c) /\ page[j].status = rows[page[j].id].status
  <2>1. MaxMessages + 1 \in Nat
    BY ChatPageAssumption
  <2> QED
    BY <1>1, <1>2, <2>1, PageRows
<1>7. k \in Load /\ PageFits(k.page, k.chat)
  <2>1. k \in Load
    BY <1>2, <1>3, <1>6, LoadIs DEF Load
  <2>2. PageFits(page, c)
    <3>1. ASSUME NEW j \in DOMAIN page
          PROVE  page[j].id \in In(c) /\ Rank[page[j].status] <= Rank[rows[page[j].id].status]
      <4>1. page[j].id \in In(c) /\ page[j].status = rows[page[j].id].status /\ page[j].status \in DOMAIN Rank
        BY <1>6, Entries
      <4>2. Rank[page[j].status] \in Nat
        BY <4>1, Ranks
      <4> QED
        BY <4>1, <4>2
    <3> QED
      BY <3>1 DEF PageFits
  <2>3. k.page = page /\ k.chat = c
    BY <1>3
  <2> QED
    BY <2>1, <2>2, <2>3
<1>8. TypeOK'
  <2>1. loads' \subseteq Load
    BY <1>2, <1>5, <1>7 DEF TypeOK
  <2> QED
    BY <1>2, <1>5, <2>1 DEF TypeOK
<1>9. FeedFits' /\ NeverAhead' /\ OneOptimistic'
  BY <1>5, SameFeed, SameList
<1> QED
  BY <1>5, <1>7, <1>8, <1>9, StillBase

LEMMA BaseLoadAnswer ==
  ASSUME ChatPageAssumption, BaseInv, NEW l \in loads, LoadAnswer(l)
  PROVE  BaseInv'
<1>1. PICK page, c : page = l.page /\ c = l.chat
  OBVIOUS
<1>2. /\ TypeOK /\ c \in Chats /\ l = [chat |-> c, mounted |-> l.mounted, pc |-> l.pc, page |-> page]
      /\ page \in Seq(Entry)
  BY <1>1, LoadIs DEF BaseInv
<1>3. PICK k : k = [chat |-> c, mounted |-> l.mounted, pc |-> "marking", page |-> <<>>]
  OBVIOUS
<1>4. k = [l EXCEPT !.pc = "marking", !.page = <<>>]
  <2>1. l = [f \in {"chat", "mounted", "pc", "page"} |-> l[f]] /\ l["chat"] = c
    BY <1>2
  <2>2. [l EXCEPT !.pc = "marking", !.page = <<>>] =
          [f \in {"chat", "mounted", "pc", "page"} |-> IF f = "pc" THEN "marking" ELSE IF f = "page" THEN <<>> ELSE l[f]]
    BY <2>1
  <2> QED
    BY <1>3, <2>1, <2>2
<1>5. /\ loads' = (loads \ {l}) \cup {k} /\ list' = page /\ more' = (Len(page) = PageSize)
      /\ UNCHANGED <<rows, active, older, send, joined, feed, asks>>
  BY <1>1, <1>4 DEF LoadAnswer, Replace, channel
<1>6. k \in Load /\ k.page = <<>>
  BY <1>2, <1>3, LoadIs DEF Load
<1>7. TypeOK'
  <2>1. loads' \subseteq Load
    BY <1>2, <1>5, <1>6 DEF TypeOK
  <2> QED
    BY <1>2, <1>5, <2>1 DEF TypeOK
<1>8. \A j \in DOMAIN page :
        page[j].id \in DOMAIN rows /\ page[j].id # Temp /\ Rank[page[j].status] <= Rank[rows[page[j].id].status]
  BY <1>1, <1>2, RowsOfChat DEF BaseInv, PageFits
<1>9. NeverAhead' /\ OneOptimistic'
  BY <1>5, <1>8 DEF NeverAhead, OneOptimistic
<1>10. FeedFits'
  BY <1>5, SameFeed
<1> QED
  BY <1>5, <1>6, <1>7, <1>9, <1>10, StillBase

LEMMA BaseLoadGone ==
  ASSUME ChatPageAssumption, BaseInv, NEW l \in loads, LoadIgnored(l) \/ LoadFail(l)
  PROVE  BaseInv'
<1>1. loads' = loads \ {l} /\ UNCHANGED <<rows, active, list, more, older, send, joined, feed, asks>>
  BY DEF LoadIgnored, LoadFail, channel
<1>2. TypeOK'
  BY <1>1 DEF BaseInv, TypeOK
<1>3. FeedFits' /\ NeverAhead' /\ OneOptimistic'
  BY <1>1, SameFeed, SameList
<1> QED
  BY <1>1, <1>2, <1>3, StillBase

LEMMA BaseJoin ==
  ASSUME ChatPageAssumption, BaseInv, Join \/ Disconnect
  PROVE  BaseInv'
<1>1. /\ joined' \in BOOLEAN /\ (active = NoChat => joined' = FALSE)
      /\ UNCHANGED <<rows, active, list, more, loads, older, send, feed, asks>>
  BY DEF Join, Disconnect, requests
<1>2. TypeOK'
  BY <1>1 DEF BaseInv, TypeOK
<1>3. FeedFits' /\ NeverAhead' /\ OneOptimistic'
  BY <1>1, SameFeed, SameList
<1> QED
  BY <1>1, <1>2, <1>3, StillBase

LEMMA BaseAskLost ==
  ASSUME ChatPageAssumption, BaseInv, NEW a \in asks, AskLost(a)
  PROVE  BaseInv'
<1>1. asks' = asks \ {a} /\ UNCHANGED <<rows, active, list, more, loads, older, send, joined, feed>>
  BY DEF AskLost, requests, channel
<1>2. TypeOK'
  BY <1>1 DEF BaseInv, TypeOK
<1>3. FeedFits' /\ NeverAhead' /\ OneOptimistic'
  BY <1>1, SameFeed, SameList
<1> QED
  BY <1>1, <1>2, <1>3, StillBase

LEMMA FirstEvent ==
  ASSUME TypeOK, feed # <<>>, feed' = Tail(feed)
  PROVE  /\ 1 \in DOMAIN feed /\ Head(feed) = feed[1] /\ feed' \in Seq(Event) /\ Len(feed') = Len(feed) - 1
         /\ Len(feed) \in Nat /\ Len(feed') \in Nat
         /\ \A k \in DOMAIN feed' : k + 1 \in DOMAIN feed /\ k + 1 # 1 /\ feed'[k] = feed[k + 1] /\ k \in Nat
         /\ \A k \in DOMAIN feed : k # 1 => k - 1 \in DOMAIN feed' /\ feed'[k - 1] = feed[k]
<1>1. feed \in Seq(Event) /\ Len(feed) \in Nat /\ DOMAIN feed = 1..Len(feed) /\ Len(feed) # 0
  BY DEF TypeOK
<1>2. /\ feed' \in Seq(Event) /\ Len(feed') = Len(feed) - 1 /\ DOMAIN feed' = 1..(Len(feed) - 1)
      /\ \A k \in 1..(Len(feed) - 1) : feed'[k] = feed[k + 1]
  BY <1>1, HeadTailProperties
<1>3. Head(feed) = feed[1]
  BY <1>1
<1> QED
  BY <1>1, <1>2, <1>3

LEMMA BaseNewMessage ==
  ASSUME ChatPageAssumption, BaseInv, NewMessage
  PROVE  BaseInv'
<1>1. PICK e : e = Head(feed)
  OBVIOUS
<1>2. /\ TypeOK /\ feed # <<>> /\ e.kind = "INSERT" /\ feed' = Tail(feed)
      /\ list' = IF \E k \in DOMAIN list : list[k].id = e.id THEN list
                 ELSE Append(list, [id |-> e.id, status |-> e.status])
      /\ IF rows[e.id].mine THEN UNCHANGED asks ELSE Ask(active, "seen")
      /\ UNCHANGED <<rows, active, more, loads, older, send, joined>>
  BY <1>1 DEF NewMessage, Handled, requests, BaseInv
<1>3. /\ 1 \in DOMAIN feed /\ e = feed[1] /\ feed' \in Seq(Event)
      /\ \A k \in DOMAIN feed' : k + 1 \in DOMAIN feed /\ feed'[k] = feed[k + 1]
  BY <1>1, <1>2, FirstEvent
<1>4. /\ e.id \in In(active) /\ e.id \in Ids /\ e.id # Temp /\ e.id \in DOMAIN rows /\ e.status \in DOMAIN Rank
      /\ Rank[e.status] <= Rank[rows[e.id].status]
  BY <1>2, <1>3, Events DEF BaseInv, FeedFits, In
<1>5. PICK m : m = [id |-> e.id, status |-> e.status]
  OBVIOUS
<1>6. m \in Entry /\ m.id = e.id /\ m.status = e.status
  BY <1>4, <1>5 DEF Entry
<1>7. /\ list \in Seq(Entry) /\ Len(list) \in Nat /\ DOMAIN list = 1..Len(list)
      /\ \/ list' = list
         \/ /\ Append(list, m) \in Seq(Entry) /\ list' = Append(list, m) /\ DOMAIN list' = 1..(Len(list) + 1)
            /\ list'[Len(list) + 1] = m /\ \A k \in 1..Len(list) : list'[k] = list[k]
  BY <1>2, <1>5, <1>6, AppendProperties DEF TypeOK
<1>8. TypeOK'
  <2>1. active # NoChat
    BY <1>2 DEF TypeOK
  <2>2. asks' \subseteq [chat : Chats, status : {"delivered", "seen"}]
    BY <1>2, <2>1 DEF TypeOK, Ask
  <2> QED
    BY <1>2, <1>3, <1>7, <2>1, <2>2 DEF TypeOK
<1>9. FeedFits'
  BY <1>2, <1>3 DEF BaseInv, FeedFits, In
<1>10. NeverAhead' /\ OneOptimistic'
  <2>1. CASE list' = list
    BY <1>2, <2>1, SameList
  <2>2. CASE list' # list
    <3>1. \A k \in DOMAIN list' : (k \in DOMAIN list /\ list'[k] = list[k]) \/ list'[k] = m
      BY <1>7, <2>2
    <3>2. NeverAhead'
      BY <1>2, <1>4, <1>6, <3>1 DEF BaseInv, NeverAhead
    <3>3. OneOptimistic'
      BY <1>2, <1>4, <1>6, <3>1 DEF BaseInv, OneOptimistic
    <3> QED
      BY <3>2, <3>3
  <2> QED
    BY <2>1, <2>2
<1> QED
  BY <1>2, <1>8, <1>9, <1>10, StillBase

LEMMA EntryOf ==
  ASSUME NEW m \in Entry, NEW s
  PROVE  [m EXCEPT !.status = s] = [id |-> m.id, status |-> s]
<1>1. m = [f \in {"id", "status"} |-> m[f]]
  BY DEF Entry
<1>2. [m EXCEPT !.status = s] = [f \in {"id", "status"} |-> IF f = "status" THEN s ELSE m[f]]
  BY <1>1
<1> QED
  BY <1>2

LEMMA UpdatedList ==
  ASSUME TypeOK, NEW e, MessageUpdated, e = Head(feed)
  PROVE  /\ DOMAIN list' = DOMAIN list /\ Len(list') = Len(list)
         /\ list' \in Seq(Entry)
         /\ \A k \in DOMAIN list :
              list'[k].id = list[k].id /\ list'[k].status = IF list[k].id = e.id THEN e.status ELSE list[k].status
<1>1. /\ feed # <<>> /\ feed' = Tail(feed)
      /\ list' = [k \in DOMAIN list |->
                    IF list[k].id = e.id THEN [list[k] EXCEPT !.status = e.status] ELSE list[k]]
  BY DEF MessageUpdated, Handled
<1>2. list \in Seq(Entry) /\ Len(list) \in Nat /\ DOMAIN list = 1..Len(list)
  BY DEF TypeOK
<1>3. e.status \in DOMAIN Rank
  <2>1. e = feed[1] /\ 1 \in DOMAIN feed
    BY <1>1, FirstEvent
  <2> QED
    BY <2>1, Events
<1>4. ASSUME NEW k \in DOMAIN list
      PROVE  /\ list'[k] \in Entry /\ list'[k].id = list[k].id
             /\ list'[k].status = IF list[k].id = e.id THEN e.status ELSE list[k].status
  <2>1. list[k] \in Entry /\ list[k].id \in {Temp} \cup Ids
    BY <1>2, Entries
  <2>2. CASE list[k].id = e.id
    <3>1. list'[k] = [id |-> list[k].id, status |-> e.status]
      BY <1>1, <2>1, <2>2, EntryOf
    <3> QED
      BY <1>3, <2>1, <2>2, <3>1 DEF Entry
  <2>3. CASE list[k].id # e.id
    BY <1>1, <2>1, <2>3
  <2> QED
    BY <2>2, <2>3
<1>5. list' \in [1..Len(list) -> Entry]
  BY <1>1, <1>2, <1>4
<1> QED
  BY <1>2, <1>4, <1>5

LEMMA BaseMessageUpdated ==
  ASSUME ChatPageAssumption, BaseInv, MessageUpdated
  PROVE  BaseInv'
<1>1. PICK e : e = Head(feed)
  OBVIOUS
<1>2. /\ TypeOK /\ feed # <<>> /\ feed' = Tail(feed)
      /\ UNCHANGED <<rows, active, more, loads, older, send, joined, asks>>
  BY <1>1 DEF MessageUpdated, Handled, requests, BaseInv
<1>3. /\ 1 \in DOMAIN feed /\ e = feed[1] /\ feed' \in Seq(Event)
      /\ \A k \in DOMAIN feed' : k + 1 \in DOMAIN feed /\ feed'[k] = feed[k + 1]
  BY <1>1, <1>2, FirstEvent
<1>4. e.id # Temp /\ Rank[e.status] <= Rank[rows[e.id].status]
  BY <1>2, <1>3, Events DEF BaseInv, FeedFits
<1>5. /\ DOMAIN list' = DOMAIN list /\ list' \in Seq(Entry)
      /\ \A k \in DOMAIN list :
           list'[k].id = list[k].id /\ list'[k].status = IF list[k].id = e.id THEN e.status ELSE list[k].status
  BY <1>1, <1>2, UpdatedList
<1>6. TypeOK'
  BY <1>2, <1>3, <1>5 DEF TypeOK
<1>7. FeedFits'
  BY <1>2, <1>3 DEF BaseInv, FeedFits, In
<1>8. NeverAhead' /\ OneOptimistic'
  BY <1>2, <1>4, <1>5 DEF BaseInv, NeverAhead, OneOptimistic
<1> QED
  BY <1>2, <1>6, <1>7, <1>8, StillBase

LEMMA OlderIs ==
  ASSUME TypeOK, older # None
  PROVE  /\ older.pc \in {"asked", "answered"} /\ older.chat \in Chats /\ older.before \in Ids \cup {MaxMessages + 1}
         /\ older.page \in Seq(Entry)
         /\ older = [pc |-> older.pc, chat |-> older.chat, before |-> older.before, page |-> older.page]
<1>1. older \in [pc : {"asked", "answered"}, chat : Chats, before : Ids \cup {MaxMessages + 1}, page : Seq(Entry)]
  BY DEF TypeOK, Older
<1> QED
  BY <1>1

LEMMA BaseOlderAsk ==
  ASSUME ChatPageAssumption, BaseInv, OlderAsk
  PROVE  BaseInv'
<1>1. PICK before : before = IF list[1].id = Temp THEN MaxMessages + 1 ELSE list[1].id
  OBVIOUS
<1>2. /\ TypeOK /\ active # NoChat /\ list # <<>>
      /\ older' = [pc |-> "asked", chat |-> active, page |-> <<>>, before |-> before]
      /\ UNCHANGED <<rows, active, list, more, loads, send, joined, feed, asks>>
  BY <1>1 DEF OlderAsk, channel, BaseInv
<1>3. before \in Ids \cup {MaxMessages + 1}
  <2>1. list \in Seq(Entry) /\ 1 \in DOMAIN list
    BY <1>2 DEF TypeOK
  <2>2. list[1].id \in {Temp} \cup Ids
    BY <2>1, Entries
  <2> QED
    BY <1>1, <2>2
<1>4. older' \in Older
  <2>1. active \in Chats /\ <<>> \in Seq(Entry)
    BY <1>2 DEF TypeOK
  <2> QED
    BY <1>2, <1>3, <2>1 DEF Older
<1>5. TypeOK'
  BY <1>2, <1>4 DEF TypeOK
<1>6. FeedFits' /\ NeverAhead' /\ OneOptimistic'
  BY <1>2, SameFeed, SameList
<1>7. (older # None => PageFits(older.page, older.chat))'
  BY <1>2 DEF PageFits
<1> QED
  BY <1>2, <1>5, <1>6, <1>7, StillBase

LEMMA OlderReads ==
  ASSUME ChatPageAssumption, TypeOK, OlderRead, NEW page, page = PageOf(older.chat, older.before)
  PROVE  /\ older # None
         /\ older' = [pc |-> "answered", chat |-> older.chat, before |-> older.before, page |-> page]
<1>1. older # None
  BY DEF OlderRead, None
<1>2. older = [f \in {"pc", "chat", "before", "page"} |-> older[f]]
  BY <1>1, OlderIs
<1>3. older' = [f \in {"pc", "chat", "before", "page"} |->
                  IF f = "pc" THEN "answered" ELSE IF f = "page" THEN page ELSE older[f]]
  BY <1>2 DEF OlderRead
<1> QED
  BY <1>1, <1>3

LEMMA BaseOlderRead ==
  ASSUME ChatPageAssumption, BaseInv, OlderRead
  PROVE  BaseInv'
<1>1. PICK page, c, before : page = PageOf(older.chat, older.before) /\ c = older.chat /\ before = older.before
  OBVIOUS
<1>2. /\ TypeOK /\ older # None /\ older' = [pc |-> "answered", chat |-> c, before |-> before, page |-> page]
      /\ c \in Chats /\ before \in Ids \cup {MaxMessages + 1} /\ before \in Nat
      /\ UNCHANGED <<rows, active, list, more, loads, send, joined, feed, asks>>
  <2>1. TypeOK /\ UNCHANGED <<rows, active, list, more, loads, send, joined, feed, asks>>
    BY DEF OlderRead, channel, BaseInv
  <2>2. older # None /\ older' = [pc |-> "answered", chat |-> c, before |-> before, page |-> page]
    BY <1>1, <2>1, OlderReads
  <2>3. c \in Chats /\ before \in Ids \cup {MaxMessages + 1}
    BY <1>1, <2>1, <2>2, OlderIs
  <2>4. before \in Nat
    BY <2>3, ChatPageAssumption DEF Ids
  <2> QED
    BY <2>1, <2>2, <2>3, <2>4
<1>3. /\ page \in Seq(Entry)
      /\ \A j \in DOMAIN page : page[j].id \in In(c) /\ page[j].status = rows[page[j].id].status
  <2>1. page = PageOf(c, before)
    BY <1>1
  <2> QED
    BY <1>2, <2>1, PageRows
<1>4. PageFits(page, c)
  <2>1. ASSUME NEW j \in DOMAIN page
        PROVE  page[j].id \in In(c) /\ Rank[page[j].status] <= Rank[rows[page[j].id].status]
    <3>1. page[j].id \in In(c) /\ page[j].status = rows[page[j].id].status /\ page[j].status \in DOMAIN Rank
      BY <1>3, Entries
    <3>2. Rank[page[j].status] \in Nat
      BY <3>1, Ranks
    <3> QED
      BY <3>1, <3>2
  <2> QED
    BY <2>1 DEF PageFits
<1>5. older'.page = page /\ older'.chat = c /\ older' \in Older
  BY <1>2, <1>3 DEF Older
<1>6. TypeOK'
  BY <1>2, <1>5 DEF TypeOK
<1>7. FeedFits' /\ NeverAhead' /\ OneOptimistic'
  BY <1>2, SameFeed, SameList
<1>8. (older # None => PageFits(older.page, older.chat))'
  BY <1>2, <1>4, <1>5 DEF PageFits, In
<1> QED
  BY <1>2, <1>6, <1>7, <1>8, StillBase

LEMMA Joined ==
  ASSUME TypeOK, older # None, OlderAnswer, NEW page, page = older.page
  PROVE  /\ page \in Seq(Entry) /\ list' \in Seq(Entry) /\ Len(list') = Len(page) + Len(list)
         /\ DOMAIN page = 1..Len(page) /\ DOMAIN list = 1..Len(list) /\ DOMAIN list' = 1..(Len(page) + Len(list))
         /\ Len(page) \in Nat /\ Len(list) \in Nat
         /\ \A k \in DOMAIN page : k \in DOMAIN list' /\ list'[k] = page[k]
         /\ \A k \in DOMAIN list' : k \notin DOMAIN page =>
              k > Len(page) /\ k - Len(page) \in DOMAIN list /\ list'[k] = list[k - Len(page)]
         /\ \A k \in DOMAIN list : k + Len(page) \in DOMAIN list' /\ list'[k + Len(page)] = list[k]
<1>1. page \in Seq(Entry) /\ list \in Seq(Entry) /\ list' = page \o list
  BY OlderIs DEF TypeOK, OlderAnswer
<1>2. /\ Len(page) \in Nat /\ Len(list) \in Nat /\ DOMAIN page = 1..Len(page) /\ DOMAIN list = 1..Len(list)
  BY <1>1
<1>3. /\ list' \in Seq(Entry) /\ Len(list') = Len(page) + Len(list)
      /\ \A k \in 1..(Len(page) + Len(list)) :
           list'[k] = IF k <= Len(page) THEN page[k] ELSE list[k - Len(page)]
  BY <1>1, ConcatProperties
<1>4. DOMAIN list' = 1..(Len(page) + Len(list))
  BY <1>3
<1> QED
  BY <1>1, <1>2, <1>3, <1>4

LEMMA BaseOlderAnswer ==
  ASSUME ChatPageAssumption, BaseInv, OlderAnswer
  PROVE  BaseInv'
<1>1. PICK page : page = older.page
  OBVIOUS
<1>2. /\ TypeOK /\ older # None /\ older' = None /\ more' = (Len(page) = PageSize) /\ older.pc = "answered"
      /\ UNCHANGED <<rows, active, loads, send, joined, feed, asks>>
  BY <1>1 DEF OlderAnswer, channel, BaseInv, None
<1>3. /\ page \in Seq(Entry) /\ list' \in Seq(Entry) /\ Len(page) \in Nat /\ Len(list) \in Nat
      /\ DOMAIN list = 1..Len(list)
      /\ \A k \in DOMAIN list' : k \notin DOMAIN page =>
           k > Len(page) /\ k - Len(page) \in DOMAIN list /\ list'[k] = list[k - Len(page)]
      /\ \A k \in DOMAIN page : list'[k] = page[k]
      /\ \A k \in DOMAIN list' : k \in Nat
  BY <1>1, <1>2, Joined
<1>4. \A j \in DOMAIN page :
        page[j].id \in DOMAIN rows /\ page[j].id # Temp /\ Rank[page[j].status] <= Rank[rows[page[j].id].status]
  BY <1>1, <1>2, RowsOfChat DEF BaseInv, PageFits
<1>5. TypeOK'
  BY <1>2, <1>3 DEF TypeOK, Older
<1>6. NeverAhead'
  BY <1>2, <1>3, <1>4 DEF BaseInv, NeverAhead
<1>7. OneOptimistic'
  <2>1. send = None => \A k \in DOMAIN list' : list'[k].id # Temp
    BY <1>3, <1>4 DEF BaseInv, OneOptimistic
  <2>2. ASSUME NEW j \in DOMAIN list', NEW k \in DOMAIN list', list'[j].id = Temp, list'[k].id = Temp
        PROVE  j = k
    <3>1. j \notin DOMAIN page /\ k \notin DOMAIN page
      BY <1>3, <1>4, <2>2
    <3>2. j - Len(page) = k - Len(page)
      BY <1>3, <2>2, <3>1 DEF BaseInv, OneOptimistic
    <3>3. j \in Nat /\ k \in Nat
      BY <1>3
    <3> QED
      BY <1>3, <3>2, <3>3
  <2> QED
    BY <1>2, <2>1, <2>2 DEF OneOptimistic
<1>8. FeedFits' /\ (older # None => PageFits(older.page, older.chat))'
  BY <1>2, SameFeed
<1> QED
  BY <1>2, <1>5, <1>6, <1>7, <1>8, StillBase

LEMMA BaseOlderFail ==
  ASSUME ChatPageAssumption, BaseInv, OlderFail
  PROVE  BaseInv'
<1>1. older' = None /\ UNCHANGED <<rows, active, list, more, loads, send, joined, feed, asks>>
  BY DEF OlderFail, channel
<1>2. TypeOK'
  BY <1>1 DEF BaseInv, TypeOK, Older
<1>3. FeedFits' /\ NeverAhead' /\ OneOptimistic'
  BY <1>1, SameFeed, SameList
<1> QED
  BY <1>1, <1>2, <1>3, StillBase

LEMMA BaseSendAsk ==
  ASSUME ChatPageAssumption, BaseInv, SendAsk
  PROVE  BaseInv'
<1>1. PICK m : m = [id |-> Temp, status |-> "sent"]
  OBVIOUS
<1>2. m \in Entry /\ m.id = Temp
  BY <1>1, Ranks DEF Entry
<1>3. /\ TypeOK /\ active # NoChat /\ send = None /\ list' = Append(list, m)
      /\ send' = [pc |-> "asked", chat |-> active, id |-> Temp]
      /\ UNCHANGED <<rows, active, more, loads, older, joined, feed, asks>>
  BY <1>1 DEF SendAsk, channel, BaseInv
<1>4. /\ list \in Seq(Entry) /\ Len(list) \in Nat /\ DOMAIN list = 1..Len(list)
      /\ list' \in Seq(Entry) /\ DOMAIN list' = 1..(Len(list) + 1) /\ list'[Len(list) + 1] = m
      /\ \A k \in 1..Len(list) : list'[k] = list[k]
  BY <1>2, <1>3, AppendProperties DEF TypeOK
<1>5. send' \in Sending /\ send' # None /\ send'.pc # "stored"
  BY <1>3 DEF TypeOK, Sending, None
<1>6. TypeOK'
  BY <1>3, <1>4, <1>5 DEF TypeOK
<1>7. FeedFits'
  BY <1>3, SameFeed
<1>8. \A k \in DOMAIN list' : (k \in DOMAIN list /\ list'[k] = list[k]) \/ (k = Len(list) + 1 /\ list'[k] = m)
  BY <1>4
<1>9. NeverAhead'
  BY <1>2, <1>3, <1>8 DEF BaseInv, NeverAhead
<1>10. OneOptimistic'
  BY <1>2, <1>3, <1>5, <1>8 DEF BaseInv, OneOptimistic
<1> QED
  BY <1>3, <1>5, <1>6, <1>7, <1>9, <1>10, StillBase

LEMMA AnsweredList ==
  ASSUME TypeOK, SendAnswer, NEW sent, sent = [id |-> send.id, status |-> "sent"]
  PROVE  /\ send # None /\ sent \in Entry /\ list' \in Seq(Entry) /\ DOMAIN list' = DOMAIN list /\ Len(list') = Len(list)
         /\ \A k \in DOMAIN list : list'[k] = IF list[k].id = Temp THEN sent ELSE list[k]
<1>1. /\ send # None
      /\ list' = [k \in DOMAIN list |-> IF list[k].id = Temp THEN sent ELSE list[k]]
  BY DEF SendAnswer, None
<1>2. sent \in Entry
  BY <1>1, SendingIs, Ranks DEF Entry
<1>3. list \in Seq(Entry) /\ Len(list) \in Nat /\ DOMAIN list = 1..Len(list)
  BY DEF TypeOK
<1>4. list' \in [1..Len(list) -> Entry]
  BY <1>1, <1>2, <1>3
<1> QED
  BY <1>1, <1>2, <1>3, <1>4

LEMMA BaseSendAnswer ==
  ASSUME ChatPageAssumption, BaseInv, SendAnswer
  PROVE  BaseInv'
<1>1. PICK sent : sent = [id |-> send.id, status |-> "sent"]
  OBVIOUS
<1>2. /\ TypeOK /\ send.pc = "stored" /\ send' = None
      /\ UNCHANGED <<rows, active, more, loads, older, joined, feed, asks>>
  BY DEF SendAnswer, channel, BaseInv
<1>3. /\ list' \in Seq(Entry) /\ DOMAIN list' = DOMAIN list
      /\ \A k \in DOMAIN list : list'[k] = IF list[k].id = Temp THEN sent ELSE list[k]
  BY <1>1, <1>2, AnsweredList
<1>4. /\ sent.id \in DOMAIN rows /\ sent.id # Temp /\ Rank[sent.status] <= Rank[rows[sent.id].status]
  <2>1. sent.id = send.id /\ sent.status = "sent" /\ send.id \in In(send.chat)
    BY <1>1, <1>2 DEF BaseInv
  <2>2. sent.id \in DOMAIN rows /\ sent.id # Temp
    BY <1>2, <2>1, RowsOfChat
  <2> QED
    BY <1>2, <2>1, <2>2, Statuses, Ranks
<1>5. TypeOK'
  BY <1>2, <1>3 DEF TypeOK, Sending
<1>6. FeedFits'
  BY <1>2, SameFeed
<1>7. NeverAhead'
  BY <1>2, <1>3, <1>4 DEF BaseInv, NeverAhead
<1>8. OneOptimistic'
  BY <1>3, <1>4 DEF OneOptimistic
<1> QED
  BY <1>2, <1>5, <1>6, <1>7, <1>8, StillBase DEF None

\* A sequence without one of its elements.
LEMMA Removed ==
  ASSUME NEW S, NEW seq \in Seq(S), NEW n \in DOMAIN seq, NEW short, short = RemoveAt(seq, n)
  PROVE  /\ short \in Seq(S) /\ Len(short) = Len(seq) - 1 /\ Len(seq) \in Nat /\ DOMAIN seq = 1..Len(seq)
         /\ \A k \in DOMAIN short : k \in Nat /\ short[k] = IF k < n THEN seq[k] ELSE seq[k + 1]
         /\ \A k \in DOMAIN short : k \in DOMAIN seq /\ k + 1 \in DOMAIN seq
         /\ \A k \in DOMAIN seq : k \in Nat
         /\ \A k \in DOMAIN seq : k < n => k \in DOMAIN short
         /\ \A k \in DOMAIN seq : k > n => k - 1 \in DOMAIN short
<1>1. Len(seq) \in Nat /\ DOMAIN seq = 1..Len(seq) /\ n \in 1..Len(seq)
  OBVIOUS
<1>2. PICK before, after : before = SubSeq(seq, 1, n - 1) /\ after = SubSeq(seq, n + 1, Len(seq))
  OBVIOUS
<1>3. before \in Seq(S) /\ Len(before) = n - 1 /\ \A k \in 1..(n - 1) : before[k] = seq[k]
  <2>1. 1 \in Int /\ n - 1 \in Int /\ \A k \in 1..(n - 1) : seq[k] \in S
    BY <1>1
  <2>2. /\ SubSeq(seq, 1, n - 1) \in Seq(S)
        /\ Len(SubSeq(seq, 1, n - 1)) = IF 1 <= n - 1 THEN (n - 1) - 1 + 1 ELSE 0
        /\ \A k \in 1..((n - 1) - 1 + 1) : SubSeq(seq, 1, n - 1)[k] = seq[1 + k - 1]
    BY <2>1, SubSeqProperties
  <2> QED
    BY <1>1, <1>2, <2>2
<1>4. after \in Seq(S) /\ Len(after) = Len(seq) - n /\ \A k \in 1..(Len(seq) - n) : after[k] = seq[n + k]
  <2>1. n + 1 \in Int /\ Len(seq) \in Int /\ \A k \in (n + 1)..Len(seq) : seq[k] \in S
    BY <1>1
  <2>2. /\ SubSeq(seq, n + 1, Len(seq)) \in Seq(S)
        /\ Len(SubSeq(seq, n + 1, Len(seq))) = IF n + 1 <= Len(seq) THEN Len(seq) - (n + 1) + 1 ELSE 0
        /\ \A k \in 1..(Len(seq) - (n + 1) + 1) : SubSeq(seq, n + 1, Len(seq))[k] = seq[(n + 1) + k - 1]
    BY <2>1, SubSeqProperties
  <2> QED
    BY <1>1, <1>2, <2>2
<1>5. short = before \o after
  BY <1>2 DEF RemoveAt
<1>6. /\ short \in Seq(S) /\ Len(short) = Len(before) + Len(after)
      /\ \A k \in 1..(Len(before) + Len(after)) :
           short[k] = IF k <= Len(before) THEN before[k] ELSE after[k - Len(before)]
  <2>1. before \in Seq(S) /\ after \in Seq(S)
    BY <1>3, <1>4
  <2>2. /\ before \o after \in Seq(S) /\ Len(before \o after) = Len(before) + Len(after)
        /\ \A k \in 1..(Len(before) + Len(after)) :
             (before \o after)[k] = IF k <= Len(before) THEN before[k] ELSE after[k - Len(before)]
    BY <2>1, ConcatProperties
  <2> QED
    BY <1>5, <2>2
<1>7. Len(short) = Len(seq) - 1 /\ DOMAIN short = 1..(Len(seq) - 1)
  BY <1>1, <1>3, <1>4, <1>6
<1>8. ASSUME NEW k \in 1..(Len(seq) - 1)
      PROVE  short[k] = IF k < n THEN seq[k] ELSE seq[k + 1]
  <2>1. k \in Nat /\ n \in Nat /\ short[k] = IF k <= n - 1 THEN before[k] ELSE after[k - (n - 1)]
    BY <1>1, <1>3, <1>4, <1>6, <1>7
  <2>2. CASE k < n
    BY <1>3, <2>1, <2>2
  <2>3. CASE ~(k < n)
    <3>1. k - (n - 1) \in 1..(Len(seq) - n) /\ n + (k - (n - 1)) = k + 1
      BY <1>1, <2>1, <2>3
    <3>2. after[k - (n - 1)] = seq[k + 1]
      BY <1>4, <3>1
    <3> QED
      BY <2>1, <2>3, <3>2
  <2> QED
    BY <2>2, <2>3
<1>9. \A k \in 1..Len(seq) : k \in Nat
  BY <1>1
<1>10. \A k \in 1..(Len(seq) - 1) : k \in Nat /\ k \in 1..Len(seq) /\ k + 1 \in 1..Len(seq)
  BY <1>1
<1>11. \A k \in 1..Len(seq) : k < n => k \in 1..(Len(seq) - 1)
  BY <1>1
<1>12. \A k \in 1..Len(seq) : k > n => k - 1 \in 1..(Len(seq) - 1)
  BY <1>1
<1> QED
  BY <1>1, <1>6, <1>7, <1>8, <1>9, <1>10, <1>11, <1>12, Zenon

\* What is left when a send has failed: everything but its optimistic message.
LEMMA FailedList ==
  ASSUME TypeOK, OneOptimistic, SendFail
  PROVE  /\ list' \in Seq(Entry)
         /\ \/ list' = list /\ \A k \in DOMAIN list : list[k].id # Temp
            \/ \E n \in DOMAIN list :
                 /\ list[n].id = Temp /\ list' = RemoveAt(list, n) /\ Len(list') = Len(list) - 1
                 /\ \A k \in DOMAIN list' : k \in Nat /\ list'[k] = IF k < n THEN list[k] ELSE list[k + 1]
                 /\ \A k \in DOMAIN list' : k \in DOMAIN list /\ k + 1 \in DOMAIN list
                 /\ \A k \in DOMAIN list : k \in Nat
                 /\ \A k \in DOMAIN list : k < n => k \in DOMAIN list'
                 /\ \A k \in DOMAIN list : k > n => k - 1 \in DOMAIN list'
         /\ \A k \in DOMAIN list' : list'[k].id # Temp
<1>1. list \in Seq(Entry)
  BY DEF TypeOK
<1>2. CASE \E k \in DOMAIN list : list[k].id = Temp
  <2>1. PICK n \in DOMAIN list : list[n].id = Temp /\ list' = RemoveAt(list, n)
    BY <1>2 DEF SendFail
  <2>2. /\ list' \in Seq(Entry) /\ Len(list') = Len(list) - 1
        /\ \A k \in DOMAIN list' : k \in Nat /\ list'[k] = IF k < n THEN list[k] ELSE list[k + 1]
        /\ \A k \in DOMAIN list' : k \in DOMAIN list /\ k + 1 \in DOMAIN list
        /\ \A k \in DOMAIN list : k \in Nat
        /\ \A k \in DOMAIN list : k < n => k \in DOMAIN list'
        /\ \A k \in DOMAIN list : k > n => k - 1 \in DOMAIN list'
    <3>1. PICK seq, short : seq = list /\ short = RemoveAt(list, n)
      OBVIOUS
    <3>2. seq \in Seq(Entry) /\ n \in DOMAIN seq /\ short = RemoveAt(seq, n)
      BY <1>1, <3>1
    <3>3. short \in Seq(Entry) /\ Len(short) = Len(seq) - 1
      BY <3>2, Removed, Zenon
    <3>4. \A k \in DOMAIN short : k \in Nat
      BY <3>2, Removed
    <3>5. ASSUME NEW k \in DOMAIN short
          PROVE  short[k] = IF k < n THEN seq[k] ELSE seq[k + 1]
      <4>1. k < n => short[k] = seq[k]
        BY <3>2, Removed
      <4>2. ~(k < n) => short[k] = seq[k + 1]
        BY <3>2, Removed
      <4> QED
        BY <4>1, <4>2
    <3>6. \A k \in DOMAIN short : k \in DOMAIN seq /\ k + 1 \in DOMAIN seq
      BY <3>2, Removed
    <3>7. \A k \in DOMAIN seq : k \in Nat
      BY <3>2, Removed
    <3>8. \A k \in DOMAIN seq : k < n => k \in DOMAIN short
      BY <3>2, Removed
    <3>9. \A k \in DOMAIN seq : k > n => k - 1 \in DOMAIN short
      BY <3>2, Removed
    <3> QED
      BY <2>1, <3>1, <3>3, <3>4, <3>5, <3>6, <3>7, <3>8, <3>9
  <2>3. \A k \in DOMAIN list : list[k].id = Temp => k = n
    BY <2>1 DEF OneOptimistic
  <2>4. ASSUME NEW k \in DOMAIN list'
        PROVE  list'[k].id # Temp
    <3>1. k \in Nat /\ n \in Nat /\ k \in DOMAIN list /\ k + 1 \in DOMAIN list
      BY <2>1, <2>2
    <3>2. CASE k < n
      BY <2>2, <2>3, <3>1, <3>2
    <3>3. CASE ~(k < n)
      <4>1. k + 1 # n
        BY <3>1, <3>3
      <4> QED
        BY <2>2, <2>3, <3>1, <3>3, <4>1
    <3> QED
      BY <3>2, <3>3
  <2> QED
    BY <2>1, <2>2, <2>4
<1>3. CASE ~\E k \in DOMAIN list : list[k].id = Temp
  <2>1. list' = list
    BY <1>3 DEF SendFail
  <2> QED
    BY <1>1, <1>3, <2>1
<1> QED
  BY <1>2, <1>3

LEMMA BaseSendFail ==
  ASSUME ChatPageAssumption, BaseInv, SendFail
  PROVE  BaseInv'
<1>1. /\ TypeOK /\ OneOptimistic /\ send' = None
      /\ UNCHANGED <<rows, active, more, loads, older, joined, feed, asks>>
  BY DEF SendFail, channel, BaseInv
<1>2. /\ list' \in Seq(Entry) /\ \A k \in DOMAIN list' : list'[k].id # Temp
      /\ \A k \in DOMAIN list' : \E j \in DOMAIN list : list'[k] = list[j]
  BY <1>1, FailedList
<1>3. TypeOK'
  BY <1>1, <1>2 DEF TypeOK, Sending
<1>4. FeedFits'
  BY <1>1, SameFeed
<1>5. NeverAhead'
  BY <1>1, <1>2 DEF BaseInv, NeverAhead
<1>6. OneOptimistic'
  BY <1>2 DEF OneOptimistic
<1> QED
  BY <1>1, <1>3, <1>4, <1>5, <1>6, StillBase DEF None

LEMMA BaseStep ==
  ASSUME ChatPageAssumption, BaseInv, [Next]_vars
  PROVE  BaseInv'
<1>1. CASE UNCHANGED vars
  <2>1. UNCHANGED <<rows, active, list, more, loads, older, send, joined, feed, asks>>
    BY <1>1 DEF vars, requests, channel
  <2>2. TypeOK'
    BY <2>1 DEF BaseInv, TypeOK
  <2>3. FeedFits' /\ NeverAhead' /\ OneOptimistic'
    BY <2>1, SameFeed, SameList
  <2> QED
    BY <2>1, <2>2, <2>3, StillBase
<1>2. CASE Steps
  <2>1. {"delivered", "seen"} \subseteq DOMAIN Rank
    BY Ranks
  <2> QED
    BY <1>2, <2>1, BaseOpen, BasePeerSends, BasePeerMarks, BaseClose, BaseLoadRead, BaseLoadAnswer, BaseLoadGone,
       BaseLoadMark, BaseJoin, BaseNewMessage, BaseMessageUpdated, BaseServe, BaseOlderAsk, BaseOlderRead,
       BaseOlderAnswer, BaseSendAsk, BaseSendStore, BaseSendAnswer, BaseSendFail DEF Steps, Loads, Serves
<1>3. CASE Faults
  BY <1>3, BaseLoadGone, BaseAskLost, BaseOlderFail, BaseJoin DEF Faults
<1> QED
  BY <1>1, <1>2, <1>3 DEF Next

LEMMA BaseStart ==
  ASSUME ChatPageAssumption, Init
  PROVE  BaseInv
<1>1. /\ rows = <<>> /\ list = <<>> /\ feed = <<>> /\ active = NoChat /\ more = FALSE /\ joined = FALSE
      /\ loads = {} /\ asks = {} /\ older = None /\ send = None
  BY DEF Init
<1>2. TypeOK
  <2>1. rows \in Seq(Row) /\ list \in Seq(Entry) /\ feed \in Seq(Event) /\ Len(rows) = 0
    BY <1>1
  <2>2. Len(rows) <= MaxMessages
    BY <2>1, ChatPageAssumption DEF ChatPageAssumption
  <2>3. older \in Older /\ send \in Sending
    BY <1>1 DEF Older, Sending
  <2>4. more \in BOOLEAN /\ joined \in BOOLEAN
    BY <1>1
  <2>5. loads \subseteq Load /\ asks \subseteq [chat : Chats, status : {"delivered", "seen"}]
    BY <1>1
  <2> QED
    BY <1>1, <2>1, <2>2, <2>3, <2>4, <2>5 DEF TypeOK
<1> QED
  BY <1>1, <1>2 DEF BaseInv, NeverAhead, FeedFits, OneOptimistic, None

\* In whatever order the network answers and the channel delivers, the page's
\* variables keep their types and no channel is subscribed without an open chat.
THEOREM TypeCorrect == Spec => []TypeOK
<1>1. Init => BaseInv
  BY BaseStart, ChatPageAssumption
<1>2. BaseInv /\ [Next]_vars => BaseInv'
  BY BaseStep, ChatPageAssumption
<1>3. BaseInv => TypeOK
  BY DEF BaseInv
<1> QED
  BY <1>1, <1>2, <1>3, PTL DEF Spec

\* In whatever order, no message is shown with a status that its row has not
\* reached (onNewMessage, onMessageUpdated and the answers of the page's requests).
THEOREM StatusNeverAhead == Spec => []NeverAhead
<1>1. Init => BaseInv
  BY BaseStart, ChatPageAssumption
<1>2. BaseInv /\ [Next]_vars => BaseInv'
  BY BaseStep, ChatPageAssumption
<1>3. BaseInv => NeverAhead
  BY DEF BaseInv
<1> QED
  BY <1>1, <1>2, <1>3, PTL DEF Spec

-------------------------------------------------------------------------------

\* The channel and the table of the open chat go on: new rows are announced, and changed ones.
GoesOn ==
  /\ active' = active /\ In(active) \subseteq In(active)' /\ In(active)' \subseteq Nat
  /\ \A i \in In(active)' : i \in In(active) \/ (Arriving(i)' /\ \A j \in In(active) : j < i)
  /\ \A i \in In(active) : Changing(i)' \/ rows'[i].status = rows[i].status
  /\ \A i \in In(active)' : Arriving(i) => Arriving(i)'
  /\ \A i \in In(active)' : Changing(i) => Changing(i)'
  /\ \A i \in In(active) : Arriving(i)' => Arriving(i)

\* What the statements that publish do to the open chat.
LEMMA BroughtGoesOn ==
  ASSUME TypeOK, rows' \in Seq(Row), joined, NEW c \in Chats, NEW kind, NEW ids, NEW s, Brings(c, kind, ids, s),
         UNCHANGED active,
         \/ /\ kind = "UPDATE" /\ ids \subseteq In(c) /\ \A d : In(d)' = In(d)
            /\ \A i \in DOMAIN rows : rows'[i].status = IF i \in ids THEN s ELSE rows[i].status
         \/ \E n : /\ kind = "INSERT" /\ ids = {n} /\ \A d : In(d)' = IF d = c THEN In(d) \cup {n} ELSE In(d)
                   /\ \A i \in DOMAIN rows : rows'[i] = rows[i] /\ i < n
  PROVE  GoesOn
<1>1. /\ \A k \in DOMAIN feed : k \in DOMAIN feed' /\ feed'[k] = feed[k]
      /\ active # c => feed' = feed
  BY DEF Brings
<1>2. \A i : Arriving(i) => Arriving(i)'
  BY <1>1 DEF Arriving
<1>3. \A i : Changing(i) => Changing(i)'
  BY <1>1 DEF Changing
<1>0. In(active)' \subseteq Nat
  BY DEF In
<1>4. CASE /\ kind = "UPDATE" /\ ids \subseteq In(c) /\ \A d : In(d)' = In(d)
           /\ \A i \in DOMAIN rows : rows'[i].status = IF i \in ids THEN s ELSE rows[i].status
  <2>1. In(active)' = In(active)
    <3>1. PICK d : d = active
      OBVIOUS
    <3>2. In(d)' = In(d)
      BY <1>4
    <3> QED
      BY <3>1, <3>2 DEF In
  <2>2. ASSUME NEW i \in In(active)
        PROVE  Changing(i)' \/ rows'[i].status = rows[i].status
    <3>1. i \in DOMAIN rows /\ rows[i].chat = active
      BY DEF In
    <3>2. CASE i \in ids
      <4>1. active = c
        BY <1>4, <3>1, <3>2 DEF In
      <4>2. \E k \in DOMAIN feed' : feed'[k].id = i /\ feed'[k].kind = "UPDATE"
        BY <1>4, <3>2, <4>1 DEF Brings
      <4> QED
        BY <4>2 DEF Changing
    <3>3. CASE i \notin ids
      BY <1>4, <3>1, <3>3
    <3> QED
      BY <3>2, <3>3
  <2>3. ASSUME NEW i, Arriving(i)'
        PROVE  Arriving(i)
    <3>1. PICK k \in DOMAIN feed' : feed'[k].kind = "INSERT" /\ feed'[k].id = i
      BY <2>3 DEF Arriving
    <3>2. k \in DOMAIN feed
      BY <1>1, <1>4, <3>1 DEF Brings
    <3> QED
      BY <1>1, <3>1, <3>2 DEF Arriving
  <2> QED
    BY <1>0, <1>2, <1>3, <2>1, <2>2, <2>3 DEF GoesOn
<1>5. ASSUME NEW n, kind = "INSERT", ids = {n}, \A d : In(d)' = IF d = c THEN In(d) \cup {n} ELSE In(d),
             \A i \in DOMAIN rows : rows'[i] = rows[i] /\ i < n
      PROVE  GoesOn
  <2>1. In(active)' = IF active = c THEN In(active) \cup {n} ELSE In(active)
    <3>1. PICK d : d = active
      OBVIOUS
    <3>2. In(d)' = IF d = c THEN In(d) \cup {n} ELSE In(d)
      BY <1>5
    <3> QED
      BY <3>1, <3>2 DEF In
  <2>2. \A i \in In(active) : i \in DOMAIN rows
    BY DEF In
  <2>3. active = c => Arriving(n)'
    <3>1. active = c => \E k \in DOMAIN feed' : feed'[k].id = n /\ feed'[k].kind = "INSERT"
      BY <1>5 DEF Brings
    <3> QED
      BY <3>1 DEF Arriving
  <2>4. \A i \in In(active)' : i \in In(active) \/ (Arriving(i)' /\ \A j \in In(active) : j < i)
    BY <1>5, <2>1, <2>2, <2>3
  <2>5. ASSUME NEW i \in In(active), Arriving(i)'
        PROVE  Arriving(i)
    <3>1. PICK k \in DOMAIN feed' : feed'[k].kind = "INSERT" /\ feed'[k].id = i
      BY <2>5 DEF Arriving
    <3>2. i # n
      <4>1. i < n /\ i \in Nat
        BY <1>5, <2>2, RowsOfChat
      <4> QED
        BY <4>1
    <3>3. k \in DOMAIN feed
      BY <1>1, <1>5, <3>1, <3>2 DEF Brings
    <3> QED
      BY <1>1, <3>1, <3>3 DEF Arriving
  <2> QED
    BY <1>0, <1>2, <1>3, <1>5, <2>1, <2>2, <2>4, <2>5 DEF GoesOn
<1> QED
  BY <1>4, <1>5

\* A page that covers the chat goes on covering it.
LEMMA CoversKept ==
  ASSUME GoesOn, NEW page \in Seq(Entry), NEW cut, Covers(page, cut)
  PROVE  Covers(page, cut)'
<1>1. ASSUME NEW k \in DOMAIN page, page[k].id # Temp
      PROVE  page[k].id \in In(active)' /\ Upcoming(page[k])'
  <2>1. PICK m : m = page[k]
    OBVIOUS
  <2>2. m.id \in In(active) /\ Upcoming(m)
    BY <1>1, <2>1 DEF Covers, Tells
  <2>3. m.id \in In(active)' /\ Upcoming(m)'
    BY <2>2 DEF GoesOn, Upcoming
  <2> QED
    BY <2>1, <2>3 DEF Upcoming
<1>2. Tells(page)'
  BY <1>1 DEF Tells
<1>3. ASSUME NEW i \in In(active)', Within(page, cut, i)
      PROVE  Shows(page, i) \/ Arriving(i)'
  BY <1>3 DEF Covers, GoesOn
<1>4. ASSUME NEW i \in In(active)', Arriving(i)'
      PROVE  Within(page, cut, i)
  <2>1. CASE i \in In(active)
    BY <1>4, <2>1 DEF Covers, GoesOn
  <2>2. CASE i \notin In(active) /\ cut
    <3>1. page # <<>> /\ page[1].id # Temp /\ Begins(page)
      BY <2>2 DEF Covers, Begins
    <3>2. \A j \in In(active) : j < i
      BY <1>4, <2>2 DEF GoesOn
    <3>3. 1 \in DOMAIN page /\ page[1].id \in In(active)
      <4>1. 1 \in DOMAIN page
        BY <3>1
      <4> QED
        BY <3>1, <4>1 DEF Covers, Tells
    <3>4. page[1].id \in Nat /\ i \in Nat /\ page[1].id < i
      BY <3>2, <3>3 DEF GoesOn
    <3> QED
      BY <3>4 DEF Within
  <2>3. CASE ~cut
    BY <2>3 DEF Within
  <2> QED
    BY <2>1, <2>2, <2>3
<1> QED
  BY <1>2, <1>3, <1>4 DEF Covers, Distinct, Begins, Within, Shows


\* The same for an older page, whose time is that of a row.
LEMMA CoversBeforeKept ==
  ASSUME GoesOn, NEW page \in Seq(Entry), NEW cut, NEW before \in In(active), CoversBefore(page, cut, before)
  PROVE  CoversBefore(page, cut, before)'
<1>1. ASSUME NEW k \in DOMAIN page, page[k].id # Temp
      PROVE  page[k].id \in In(active)' /\ Upcoming(page[k])'
  <2>1. PICK m : m = page[k]
    OBVIOUS
  <2>2. m.id \in In(active) /\ Upcoming(m)
    BY <1>1, <2>1 DEF CoversBefore, Tells
  <2>3. m.id \in In(active)' /\ Upcoming(m)'
    BY <2>2 DEF GoesOn, Upcoming
  <2> QED
    BY <2>1, <2>3 DEF Upcoming
<1>2. Tells(page)'
  BY <1>1 DEF Tells
<1>3. ASSUME NEW i \in In(active)', i < before, Within(page, cut, i)
      PROVE  Shows(page, i)
  <2>1. i \in In(active)
    <3>1. i \in Nat /\ before \in Nat /\ (i \in In(active) \/ before < i)
      BY DEF GoesOn
    <3> QED
      BY <1>3, <3>1
  <2> QED
    BY <1>3, <2>1 DEF CoversBefore
<1> QED
  BY <1>2, <1>3 DEF CoversBefore, Distinct, Begins, Within, Shows

\* The channel tells the rows of the open chat in their order still.
LEMMA TellsKept ==
  ASSUME TypeOK, FeedFits, FeedTells, rows' \in Seq(Row), NEW c \in Chats, NEW kind, NEW ids, NEW s,
         Brings(c, kind, ids, s), UNCHANGED <<active, joined>>, feed' \in Seq(Event),
         \/ /\ kind = "UPDATE" /\ ids \subseteq In(c) /\ \A d : In(d)' = In(d)
            /\ \A i \in DOMAIN rows : rows'[i].status = IF i \in ids THEN s ELSE rows[i].status
         \/ \E n : /\ kind = "INSERT" /\ ids = {n} /\ \A d : In(d)' = IF d = c THEN In(d) \cup {n} ELSE In(d)
                   /\ rows'[n].status = "sent" 
                   /\ \A i \in DOMAIN rows : rows'[i] = rows[i] /\ i < n
  PROVE  FeedTells'
<1>1. CASE ~joined
  <2>1. feed = <<>> /\ feed' = <<>> /\ ~joined'
    BY <1>1 DEF FeedTells, Brings
  <2> QED
    BY <2>1 DEF FeedTells, Arriving
<1>2. CASE joined
  <2>1. GoesOn
    BY <1>2, BroughtGoesOn
  <2>2. /\ DOMAIN feed = 1..Len(feed) /\ Len(feed) \in Nat /\ DOMAIN feed' = 1..Len(feed') /\ Len(feed') \in Nat
        /\ \A k \in DOMAIN feed : k \in DOMAIN feed' /\ feed'[k] = feed[k]
        /\ \A k \in DOMAIN feed' : k \notin DOMAIN feed =>
             active = c /\ k > Len(feed) /\ feed'[k].kind = kind /\ feed'[k].id \in ids /\ feed'[k].status = s
        /\ \A i \in ids : active = c => \E k \in DOMAIN feed' : k \notin DOMAIN feed /\ feed'[k].id = i
        /\ \A j, k \in DOMAIN feed' : j \notin DOMAIN feed /\ k \notin DOMAIN feed /\ feed'[j].id = feed'[k].id => j = k
    BY <1>2 DEF TypeOK, Brings
  <2>3. \A k \in DOMAIN feed : feed[k].id \in In(active) /\ feed[k].id \in Nat /\ feed[k].id \in DOMAIN rows
    BY RowsOfChat DEF FeedFits
  <2>4. \A j, k \in DOMAIN feed :
          /\ feed[j].kind = "INSERT" /\ feed[k].kind = "INSERT" /\ j < k => feed[j].id < feed[k].id
          /\ feed[j].kind = "UPDATE" /\ feed[k].kind = "INSERT" /\ feed[j].id = feed[k].id => k < j
    BY DEF FeedTells
  <2>5. \A j, k \in DOMAIN feed' : j \in DOMAIN feed /\ k \notin DOMAIN feed => j < k /\ ~(k < j)
    <3>1. ASSUME NEW j \in DOMAIN feed', NEW k \in DOMAIN feed', j \in DOMAIN feed, k \notin DOMAIN feed
          PROVE  j < k /\ ~(k < j)
      <4>1. j \in Nat /\ k \in Nat /\ j <= Len(feed) /\ k > Len(feed)
        BY <2>2, <3>1
      <4> QED
        BY <2>2, <4>1
    <3> QED
      BY <3>1
  <2>6. \A i, j \in In(active)' : Arriving(i)' /\ i < j => Arriving(j)'
    <3>1. ASSUME NEW i \in In(active)', NEW j \in In(active)', Arriving(i)', i < j
          PROVE  Arriving(j)'
      <4>1. CASE j \notin In(active)
        BY <2>1, <4>1 DEF GoesOn
      <4>2. CASE j \in In(active)
        <5>1. i \in In(active)
          <6>1. i \in Nat /\ j \in Nat /\ (i \in In(active) \/ j < i)
            BY <2>1, <4>2 DEF GoesOn
          <6> QED
            BY <3>1, <6>1
        <5>2. Arriving(i)
          BY <2>1, <3>1, <5>1 DEF GoesOn
        <5>3. Arriving(j)
          BY <3>1, <4>2, <5>1, <5>2 DEF FeedTells
        <5> QED
          BY <2>1, <5>3 DEF GoesOn
      <4> QED
        BY <4>1, <4>2
    <3> QED
      BY <3>1
  <2>7. \A i \in In(active) : Arriving(i)' => Changing(i)' \/ rows'[i].status = "sent"
    <3>1. ASSUME NEW i \in In(active), Arriving(i)'
          PROVE  Changing(i)' \/ rows'[i].status = "sent"
      <4>1. Arriving(i)
        BY <2>1, <3>1 DEF GoesOn
      <4>2. Changing(i) \/ rows[i].status = "sent"
        BY <4>1 DEF FeedTells
      <4> QED
        BY <2>1, <4>2 DEF GoesOn
    <3> QED
      BY <3>1
  <2>8. CASE /\ kind = "UPDATE" /\ ids \subseteq In(c) /\ \A d : In(d)' = In(d)
             /\ \A i \in DOMAIN rows : rows'[i].status = IF i \in ids THEN s ELSE rows[i].status
    <3>1. In(active)' = In(active)
      <4>1. PICK d : d = active
        OBVIOUS
      <4>2. In(d)' = In(d)
        BY <2>8
      <4> QED
        BY <4>1, <4>2 DEF In
    <3>2. ASSUME NEW j \in DOMAIN feed', NEW k \in DOMAIN feed', feed'[j].kind = "INSERT", feed'[k].kind = "INSERT", j < k
          PROVE  feed'[j].id < feed'[k].id
      <4>1. j \in DOMAIN feed /\ k \in DOMAIN feed
        BY <2>2, <2>8, <3>2
      <4> QED
        BY <2>2, <2>4, <3>2, <4>1
    <3>3. ASSUME NEW j \in DOMAIN feed', NEW k \in DOMAIN feed',
                 feed'[j].kind = "UPDATE", feed'[k].kind = "INSERT", feed'[j].id = feed'[k].id
          PROVE  k < j
      <4>1. k \in DOMAIN feed
        BY <2>2, <2>8, <3>3
      <4> QED
        BY <2>2, <2>4, <2>5, <3>3, <4>1
    <3>4. ASSUME NEW k \in DOMAIN feed', feed'[k].kind = "UPDATE",
                 \A j \in DOMAIN feed' : feed'[j].kind = "UPDATE" /\ feed'[j].id = feed'[k].id => j <= k
          PROVE  feed'[k].status = rows'[feed'[k].id].status
      <4>1. CASE k \notin DOMAIN feed
        <5>1. feed'[k].id \in ids /\ feed'[k].status = s /\ feed'[k].id \in DOMAIN rows
          BY <2>2, <2>8, <4>1 DEF In
        <5> QED
          BY <2>8, <5>1
      <4>2. CASE k \in DOMAIN feed
        <5>1. PICK i : i = feed[k].id
          OBVIOUS
        <5>2. feed'[k] = feed[k] /\ i \in In(active) /\ i \in DOMAIN rows /\ rows[i].chat = active
          BY <2>2, <2>3, <4>2, <5>1 DEF In
        <5>3. i \notin ids
          <6>1. SUFFICES ASSUME i \in ids PROVE FALSE
            OBVIOUS
          <6>2. active = c
            BY <2>8, <5>2, <6>1 DEF In
          <6>3. PICK j \in DOMAIN feed' : j \notin DOMAIN feed /\ feed'[j].id = i
            BY <2>2, <6>1, <6>2
          <6>4. feed'[j].kind = "UPDATE" /\ j <= k /\ k < j
            BY <2>2, <2>5, <2>8, <3>4, <4>2, <5>1, <5>2, <6>3
          <6>5. j \in Nat /\ k \in Nat
            BY <2>2
          <6> QED
            BY <6>4, <6>5
        <5>4. rows'[i].status = rows[i].status
          BY <2>8, <5>2, <5>3
        <5>5. \A j \in DOMAIN feed : feed[j].kind = "UPDATE" /\ feed[j].id = feed[k].id => j <= k
          BY <2>2, <3>4, <5>2
        <5>6. feed[k].status = rows[feed[k].id].status
          BY <3>4, <4>2, <5>2, <5>5 DEF FeedTells
        <5> QED
          BY <5>1, <5>2, <5>4, <5>6
      <4> QED
        BY <4>1, <4>2
    <3>5. \A i \in In(active)' : Arriving(i)' => Changing(i)' \/ rows'[i].status = "sent"
      BY <2>7, <3>1
    <3> QED
      BY <1>2, <2>6, <3>2, <3>3, <3>4, <3>5 DEF FeedTells
  <2>9. ASSUME NEW n, kind = "INSERT", ids = {n}, \A d : In(d)' = IF d = c THEN In(d) \cup {n} ELSE In(d),
               rows'[n].status = "sent", \A i \in DOMAIN rows : rows'[i] = rows[i] /\ i < n
        PROVE  FeedTells'
    <3>1. \A i \in In(active)' : i \in In(active) \/ i = n
      <4>1. PICK d : d = active
        OBVIOUS
      <4>2. In(d)' = IF d = c THEN In(d) \cup {n} ELSE In(d)
        BY <2>9
      <4> QED
        BY <4>1, <4>2 DEF In
    <3>2. \A k \in DOMAIN feed : feed[k].id < n /\ feed[k].id # n
      <4>1. ASSUME NEW k \in DOMAIN feed PROVE feed[k].id < n /\ feed[k].id # n
        <5>1. PICK i : i = feed[k].id
          OBVIOUS
        <5>2. i < n /\ i \in Nat
          BY <2>3, <2>9, <5>1
        <5> QED
          BY <5>1, <5>2
      <4> QED
        BY <4>1
    <3>3. ASSUME NEW j \in DOMAIN feed', NEW k \in DOMAIN feed', feed'[j].kind = "INSERT", feed'[k].kind = "INSERT", j < k
          PROVE  feed'[j].id < feed'[k].id
      <4>1. CASE k \in DOMAIN feed
        <5>1. j \in DOMAIN feed
          BY <2>5, <3>3, <4>1
        <5> QED
          BY <2>2, <2>4, <3>3, <4>1, <5>1
      <4>2. CASE k \notin DOMAIN feed
        <5>1. feed'[k].id = n
          BY <2>2, <2>9, <4>2
        <5>2. j \in DOMAIN feed
          <6>1. SUFFICES ASSUME j \notin DOMAIN feed PROVE FALSE
            OBVIOUS
          <6>2. feed'[j].id = n
            BY <2>2, <2>9, <6>1
          <6>3. j = k /\ j \in Nat
            BY <2>2, <4>2, <5>1, <6>1, <6>2
          <6> QED
            BY <3>3, <6>3
        <5> QED
          BY <2>2, <3>2, <5>1, <5>2
      <4> QED
        BY <4>1, <4>2
    <3>4. ASSUME NEW j \in DOMAIN feed', NEW k \in DOMAIN feed',
                 feed'[j].kind = "UPDATE", feed'[k].kind = "INSERT", feed'[j].id = feed'[k].id
          PROVE  k < j
      <4>1. j \in DOMAIN feed
        BY <2>2, <2>9, <3>4
      <4>2. k \in DOMAIN feed
        BY <2>2, <2>9, <3>2, <3>4, <4>1
      <4> QED
        BY <2>2, <2>4, <3>4, <4>1, <4>2
    <3>5. ASSUME NEW k \in DOMAIN feed', feed'[k].kind = "UPDATE",
                 \A j \in DOMAIN feed' : feed'[j].kind = "UPDATE" /\ feed'[j].id = feed'[k].id => j <= k
          PROVE  feed'[k].status = rows'[feed'[k].id].status
      <4>1. k \in DOMAIN feed /\ feed'[k] = feed[k]
        BY <2>2, <2>9, <3>5
      <4>2. rows'[feed[k].id] = rows[feed[k].id]
        BY <2>3, <2>9, <4>1
      <4>3. \A j \in DOMAIN feed : feed[j].kind = "UPDATE" /\ feed[j].id = feed[k].id => j <= k
        BY <2>2, <3>5, <4>1
      <4>4. feed[k].status = rows[feed[k].id].status
        BY <3>5, <4>1, <4>3 DEF FeedTells
      <4> QED
        BY <4>1, <4>2, <4>4
    <3>6. \A i \in In(active)' : Arriving(i)' => Changing(i)' \/ rows'[i].status = "sent"
      BY <2>7, <2>9, <3>1
    <3> QED
      BY <1>2, <2>6, <3>3, <3>4, <3>5, <3>6 DEF FeedTells
  <2> QED
    BY <2>8, <2>9
<1> QED
  BY <1>1, <1>2


\* The first event is handled: what is still to come, and what its event said.
LEMMA TailTells ==
  ASSUME TypeOK, FeedTells, feed # <<>>, feed' = Tail(feed), UNCHANGED <<rows, active, joined>>, NEW e, e = Head(feed)
  PROVE  /\ FeedTells'
         /\ \A i : (e.kind = "INSERT" /\ e.id = i) \/ (Arriving(i) <=> Arriving(i)')
         /\ \A i : Arriving(i)' => Arriving(i)
         /\ e.kind = "INSERT" => Arriving(e.id) /\ ~Arriving(e.id)'
         /\ \A i : (e.kind = "UPDATE" /\ e.id = i) \/ (Changing(i) <=> Changing(i)')
         /\ e.kind = "UPDATE" => Changing(e.id)' \/ e.status = rows[e.id].status
<1>1. /\ DOMAIN feed = 1..Len(feed) /\ Len(feed) \in Nat /\ e = feed[1] /\ 1 \in DOMAIN feed
      /\ DOMAIN feed' = 1..(Len(feed) - 1) /\ \A k \in DOMAIN feed' : feed'[k] = feed[k + 1]
  BY DEF TypeOK
<1>2. \A k \in DOMAIN feed' : k + 1 \in DOMAIN feed /\ feed'[k] = feed[k + 1] /\ k \in Nat
  BY <1>1
<1>3. \A k \in DOMAIN feed : k \in Nat /\ (k = 1 \/ (k - 1 \in DOMAIN feed' /\ feed'[k - 1] = feed[k] /\ k > 1))
  BY <1>1
<1>4. \A i : Arriving(i)' => Arriving(i)
  BY <1>2 DEF Arriving
<1>5. \A i : Changing(i)' => Changing(i)
  BY <1>2 DEF Changing
<1>6. \A i : Arriving(i) => Arriving(i)' \/ (e.kind = "INSERT" /\ e.id = i)
  BY <1>1, <1>3 DEF Arriving
<1>7. \A i : Changing(i) => Changing(i)' \/ (e.kind = "UPDATE" /\ e.id = i)
  BY <1>1, <1>3 DEF Changing
<1>8. \A k \in DOMAIN feed : feed[k].id \in Nat /\ feed[k].kind \in {"INSERT", "UPDATE"}
  BY Events
<1>9. \A j, k \in DOMAIN feed' : j \in Nat /\ k \in Nat /\ j + 1 \in Nat /\ k + 1 \in Nat /\ (j < k <=> j + 1 < k + 1)
  BY <1>2
<1>10. ASSUME e.kind = "INSERT"
       PROVE  Arriving(e.id) /\ ~Arriving(e.id)'
  <2>1. Arriving(e.id)
    BY <1>1, <1>10 DEF Arriving
  <2>2. SUFFICES ASSUME Arriving(e.id)' PROVE FALSE
    BY <2>1
  <2>3. PICK k \in DOMAIN feed' : feed'[k].kind = "INSERT" /\ feed'[k].id = e.id
    BY <2>2 DEF Arriving
  <2>4. k + 1 \in DOMAIN feed /\ feed[k + 1].kind = "INSERT" /\ feed[k + 1].id = e.id /\ 1 < k + 1
    BY <1>1, <1>2, <2>3
  <2>5. feed[1].id < feed[k + 1].id
    BY <1>1, <1>10, <2>4 DEF FeedTells
  <2> QED
    BY <1>1, <1>8, <2>4, <2>5
<1>11. ASSUME NEW i \in In(active), NEW j \in In(active), Arriving(i)', i < j
       PROVE  Arriving(j)'
  <2>1. Arriving(j)
    BY <1>4, <1>11 DEF FeedTells
  <2>2. SUFFICES ASSUME e.kind = "INSERT", e.id = j PROVE FALSE
    BY <1>6, <2>1
  <2>3. PICK k \in DOMAIN feed' : feed'[k].kind = "INSERT" /\ feed'[k].id = i
    BY <1>11 DEF Arriving
  <2>4. k + 1 \in DOMAIN feed /\ feed[k + 1].kind = "INSERT" /\ feed[k + 1].id = i /\ 1 < k + 1
    BY <1>1, <1>2, <2>3
  <2>5. j < i
    BY <1>1, <2>2, <2>4 DEF FeedTells
  <2>6. i \in Nat /\ j \in Nat
    BY RowsOfChat
  <2> QED
    BY <1>11, <2>5, <2>6
<1>12. ASSUME NEW k \in DOMAIN feed', feed'[k].kind = "UPDATE",
              \A j \in DOMAIN feed' : feed'[j].kind = "UPDATE" /\ feed'[j].id = feed'[k].id => j <= k
       PROVE  feed'[k].status = rows[feed'[k].id].status
  <2>1. PICK m : m = k + 1
    OBVIOUS
  <2>2. m \in DOMAIN feed /\ feed'[k] = feed[m] /\ k \in Nat
    BY <1>2, <2>1
  <2>3. ASSUME NEW j \in DOMAIN feed, feed[j].kind = "UPDATE", feed[j].id = feed[m].id
        PROVE  j <= m
    <3>1. j \in Nat /\ (j = 1 \/ (j - 1 \in DOMAIN feed' /\ feed'[j - 1] = feed[j]))
      BY <1>3
    <3>2. j = 1 \/ j - 1 <= k
      BY <1>12, <2>2, <2>3, <3>1
    <3> QED
      BY <2>1, <2>2, <3>1, <3>2
  <2>4. feed[m].status = rows[feed[m].id].status
    BY <1>12, <2>2, <2>3 DEF FeedTells
  <2> QED
    BY <2>2, <2>4
<1>13. ASSUME NEW i \in In(active), Arriving(i)'
       PROVE  Changing(i)' \/ rows[i].status = "sent"
  <2>1. PICK k \in DOMAIN feed' : feed'[k].kind = "INSERT" /\ feed'[k].id = i
    BY <1>13 DEF Arriving
  <2>2. k + 1 \in DOMAIN feed /\ feed[k + 1].kind = "INSERT" /\ feed[k + 1].id = i /\ 1 < k + 1
    BY <1>1, <1>2, <2>1
  <2>3. ~(e.kind = "UPDATE" /\ e.id = i)
    <3>1. SUFFICES ASSUME e.kind = "UPDATE", e.id = i PROVE FALSE
      OBVIOUS
    <3>2. k + 1 < 1
      BY <1>1, <2>2, <3>1 DEF FeedTells
    <3> QED
      BY <1>2, <3>2
  <2>4. Changing(i) \/ rows[i].status = "sent"
    BY <1>4, <1>13 DEF FeedTells
  <2> QED
    BY <1>7, <2>3, <2>4
<1>14. FeedTells'
  <2>1. In(active)' = In(active) /\ rows' = rows
    BY DEF In
  <2>2. ~joined' => feed' = <<>>
    BY DEF FeedTells
  <2>3. \A j, k \in DOMAIN feed' :
          /\ feed'[j].kind = "INSERT" /\ feed'[k].kind = "INSERT" /\ j < k => feed'[j].id < feed'[k].id
          /\ feed'[j].kind = "UPDATE" /\ feed'[k].kind = "INSERT" /\ feed'[j].id = feed'[k].id => k < j
    <3>1. \A j, k \in DOMAIN feed :
            /\ feed[j].kind = "INSERT" /\ feed[k].kind = "INSERT" /\ j < k => feed[j].id < feed[k].id
            /\ feed[j].kind = "UPDATE" /\ feed[k].kind = "INSERT" /\ feed[j].id = feed[k].id => k < j
      BY DEF FeedTells
    <3> QED
      BY <1>2, <1>9, <3>1
  <2> QED
    BY <1>11, <1>12, <1>13, <2>1, <2>2, <2>3 DEF FeedTells
<1>15. ASSUME e.kind = "UPDATE", ~Changing(e.id)'
       PROVE  e.status = rows[e.id].status
  <2>1. ASSUME NEW j \in DOMAIN feed, feed[j].kind = "UPDATE", feed[j].id = feed[1].id
        PROVE  j <= 1
    <3>1. j \in Nat /\ (j = 1 \/ (j - 1 \in DOMAIN feed' /\ feed'[j - 1] = feed[j]))
      BY <1>3
    <3>2. j = 1
      BY <1>1, <1>15, <2>1, <3>1 DEF Changing
    <3> QED
      BY <3>2
  <2> QED
    BY <1>1, <1>15, <2>1 DEF FeedTells
<1> QED
  BY <1>4, <1>5, <1>6, <1>7, <1>10, <1>14, <1>15


\* A list goes on covering the chat if what it shows or what is to come stays, its
\* first message stays, and what is new in it was to come.
LEMMA ListCovered ==
  ASSUME Covers(list, more), UNCHANGED <<rows, active, more>>, Distinct(list)', Tells(list)',
         more => list' # <<>> /\ list'[1].id = list[1].id,
         \A i \in In(active) : Shows(list, i) => Shows(list, i)',
         \A k \in DOMAIN list' : list'[k].id # Temp => Shows(list, list'[k].id) \/ Arriving(list'[k].id),
         \A i \in In(active) : Arriving(i)' => Arriving(i),
         \A i \in In(active) : Arriving(i) => Arriving(i)' \/ Shows(list, i)'
  PROVE  Covers(list, more)'
<1>1. In(active)' = In(active)
  BY DEF In
<1>2. /\ more => Begins(list)
      /\ \A i \in In(active) : Within(list, more, i) => Shows(list, i) \/ Arriving(i)
      /\ \A i \in In(active) : Arriving(i) => Within(list, more, i)
  BY DEF Covers
<1>3. \A i : Within(list, more, i)' <=> Within(list, more, i)
  BY DEF Within
<1>4. ASSUME more
      PROVE  Begins(list)'
  <2>1. list'[1].id # Temp
    BY <1>2, <1>4 DEF Begins
  <2>2. ASSUME NEW k \in DOMAIN list', list'[k].id # Temp
        PROVE  list[1].id <= list'[k].id
    <3>1. CASE Shows(list, list'[k].id)
      BY <1>2, <1>4, <2>2, <3>1 DEF Begins, Shows
    <3>2. CASE Arriving(list'[k].id)
      <4>1. PICK i : i = list'[k].id
        OBVIOUS
      <4>2. i \in In(active)
        BY <1>1, <2>2, <4>1 DEF Tells
      <4>3. Arriving(i)
        BY <3>2, <4>1 DEF Arriving
      <4> QED
        BY <1>2, <1>4, <4>1, <4>2, <4>3 DEF Within
    <3> QED
      BY <2>2, <3>1, <3>2
  <2> QED
    BY <1>4, <2>1, <2>2 DEF Begins
<1>5. \A i \in In(active)' : Within(list, more, i)' => Shows(list, i)' \/ Arriving(i)'
  BY <1>1, <1>2, <1>3
<1>6. \A i \in In(active)' : Arriving(i)' => Within(list, more, i)'
  BY <1>1, <1>2, <1>3
<1> QED
  BY <1>4, <1>5, <1>6 DEF Covers

\* A new message (onNewMessage): its event has been to come, and it is shown.
LEMMA ListOnNew ==
  ASSUME ChatPageAssumption, BaseInv, FeedTells, Covers(list, more), Optimistic, NewMessage,
         send.pc = "stored" => Head(feed).id # send.id
  PROVE  FeedTells' /\ Covers(list, more)' /\ Optimistic' /\ (more => list' # <<>> /\ list'[1] = list[1])
<1>1. PICK e : e = Head(feed)
  OBVIOUS
<1>2. PICK m : m = [id |-> e.id, status |-> e.status]
  OBVIOUS
<1>3. /\ TypeOK /\ list \in Seq(Entry) /\ feed # <<>> /\ e.kind = "INSERT" /\ feed' = Tail(feed)
      /\ UNCHANGED <<rows, active, more, send, joined>>
      /\ m.id = e.id /\ m.status = e.status /\ (send.pc = "stored" => e.id # send.id)
  BY <1>1, <1>2 DEF NewMessage, Handled, BaseInv, TypeOK, requests
<1>4. /\ e.id \in In(active) /\ e.status = "sent" /\ e.id # Temp /\ e.id \in Nat /\ e = feed[1] /\ 1 \in DOMAIN feed
      /\ m \in Entry
  <2>1. e = feed[1] /\ 1 \in DOMAIN feed
    BY <1>1, <1>3 DEF TypeOK
  <2>2. m \in Entry
    BY <1>2, <1>3, <2>1, Events DEF Entry
  <2> QED
    BY <1>3, <2>1, <2>2, Events DEF BaseInv, FeedFits
<1>5. /\ FeedTells'
      /\ \A i : e.id = i \/ (Arriving(i) <=> Arriving(i)')
      /\ \A i : Arriving(i)' => Arriving(i)
      /\ Arriving(e.id) /\ ~Arriving(e.id)'
      /\ \A i : Changing(i) <=> Changing(i)'
  <2>1. UNCHANGED <<rows, active, joined>> /\ e.kind # "UPDATE"
    BY <1>3
  <2> QED
    BY <1>1, <1>3, <2>1, TailTells, Zenon
<1>6. /\ \A k \in DOMAIN list : k \in DOMAIN list' /\ list'[k] = list[k]
      /\ \A k \in DOMAIN list' : k \in DOMAIN list \/ (~Shows(list, e.id) /\ k = Len(list) + 1 /\ list'[k] = m)
      /\ \E k \in DOMAIN list' : list'[k].id = e.id
  <2>1. CASE Shows(list, e.id)
    <3>1. list' = list
      BY <1>1, <2>1 DEF NewMessage, Shows
    <3> QED
      BY <2>1, <3>1 DEF Shows
  <2>2. CASE ~Shows(list, e.id)
    <3>1. list' = Append(list, m)
      BY <1>1, <1>2, <2>2 DEF NewMessage, Shows
    <3>2. /\ DOMAIN list = 1..Len(list) /\ Len(list) \in Nat /\ DOMAIN list' = 1..(Len(list) + 1)
          /\ list'[Len(list) + 1] = m /\ \A k \in 1..Len(list) : list'[k] = list[k]
      BY <1>3, <1>4, <3>1, AppendProperties
    <3> QED
      BY <1>3, <2>2, <3>2
  <2> QED
    BY <2>1, <2>2
<1>7. Distinct(list) /\ Tells(list) /\ (more => Begins(list))
  BY DEF Covers
<1>8. Distinct(list)'
  BY <1>3, <1>6, <1>7 DEF Distinct, Shows
<1>9. In(active)' = In(active)
  BY <1>3 DEF In
<1>10. Tells(list)'
  <2>1. ASSUME NEW k \in DOMAIN list', list'[k].id # Temp
        PROVE  /\ list'[k].id \in In(active)
               /\ \/ \E j \in DOMAIN feed' : feed'[j].kind = "UPDATE" /\ feed'[j].id = list'[k].id
                  \/ list'[k].status = rows[list'[k].id].status
    <3>1. PICK n : n = list'[k]
      OBVIOUS
    <3>2. n.id \in In(active) /\ (Changing(n.id) \/ n.status = rows[n.id].status)
      <4>1. CASE k \in DOMAIN list
        BY <1>6, <1>7, <2>1, <3>1, <4>1 DEF Tells, Upcoming
      <4>2. CASE k \notin DOMAIN list
        <5>1. n = m
          BY <1>6, <3>1, <4>2
        <5>2. Changing(e.id) \/ rows[e.id].status = "sent"
          BY <1>4, <1>5 DEF FeedTells
        <5> QED
          BY <1>3, <1>4, <5>1, <5>2
      <4> QED
        BY <4>1, <4>2
    <3>3. Changing(n.id)' \/ n.status = rows[n.id].status
      BY <1>5, <3>2
    <3> QED
      BY <3>1, <3>2, <3>3 DEF Changing
  <2> QED
    BY <1>3, <1>9, <2>1 DEF Tells, Upcoming, Changing
<1>11. more => list' # <<>> /\ list'[1] = list[1]
  <2>1. ASSUME more
        PROVE  list' # <<>> /\ list'[1] = list[1]
    <3>1. 1 \in DOMAIN list
      BY <1>3, <1>7, <2>1 DEF Begins
    <3> QED
      BY <1>6, <3>1
  <2> QED
    BY <2>1
<1>12. \A i : Shows(list, i) => Shows(list, i)'
  BY <1>6 DEF Shows
<1>13. Covers(list, more)'
  <2>1. \A k \in DOMAIN list' : list'[k].id # Temp => Shows(list, list'[k].id) \/ Arriving(list'[k].id)
    <3>1. ASSUME NEW k \in DOMAIN list'
          PROVE  Shows(list, list'[k].id) \/ Arriving(list'[k].id)
      <4>1. CASE k \in DOMAIN list
        BY <1>6, <4>1 DEF Shows
      <4>2. CASE k \notin DOMAIN list
        <5>1. list'[k].id = e.id
          BY <1>3, <1>6, <4>2
        <5> QED
          BY <1>5, <5>1
      <4> QED
        BY <4>1, <4>2
    <3> QED
      BY <3>1
  <2>2. \A i \in In(active) : Arriving(i) => Arriving(i)' \/ Shows(list, i)'
    BY <1>5, <1>6 DEF Shows
  <2>3. UNCHANGED <<rows, active, more>>
    BY <1>3
  <2> QED
    BY <1>5, <1>8, <1>10, <1>11, <1>12, <2>1, <2>2, <2>3, ListCovered
<1>14. Optimistic'
  <2>1. SUFFICES ASSUME Shows(list, Temp)'
                 PROVE  send # None /\ send.chat = active /\ (send.pc = "stored" => Arriving(send.id)' /\ ~Shows(list, send.id)')
    BY <1>3 DEF Optimistic, Arriving, Shows
  <2>2. Shows(list, Temp)
    BY <1>3, <1>4, <1>6, <2>1 DEF Shows
  <2>3. send # None /\ send.chat = active /\ (send.pc = "stored" => Arriving(send.id) /\ ~Shows(list, send.id))
    BY <2>2 DEF Optimistic
  <2>4. PICK i : i = send.id
    OBVIOUS
  <2>5. send.pc = "stored" => Arriving(i)' /\ ~Shows(list, i)'
    <3>1. ASSUME send.pc = "stored" PROVE Arriving(i)' /\ ~Shows(list, i)'
      <4>1. e.id # i /\ Arriving(i) /\ ~Shows(list, i)
        BY <1>3, <2>3, <2>4, <3>1
      <4>2. Arriving(i)'
        BY <1>5, <4>1
      <4>3. ~Shows(list, i)'
        BY <1>3, <1>6, <4>1 DEF Shows
      <4> QED
        BY <4>2, <4>3
    <3> QED
      BY <3>1
  <2> QED
    BY <1>3, <2>3, <2>4, <2>5 DEF Arriving, Shows
<1> QED
  BY <1>5, <1>11, <1>13, <1>14


\* A changed message (onMessageUpdated).
LEMMA ListOnUpdate ==
  ASSUME ChatPageAssumption, BaseInv, FeedTells, Covers(list, more), Optimistic, MessageUpdated
  PROVE  FeedTells' /\ Covers(list, more)' /\ Optimistic' /\ (more => list' # <<>> /\ list'[1].id = list[1].id)
<1>1. PICK e : e = Head(feed)
  OBVIOUS
<1>3. /\ TypeOK /\ list \in Seq(Entry) /\ feed # <<>> /\ e.kind = "UPDATE" /\ feed' = Tail(feed)
      /\ UNCHANGED <<rows, active, more, send, joined>>
      /\ DOMAIN list = 1..Len(list) /\ Len(list) \in Nat
  BY <1>1 DEF MessageUpdated, Handled, BaseInv, TypeOK, requests
<1>4. e.id # Temp
  <2>1. e = feed[1] /\ 1 \in DOMAIN feed
    BY <1>1, <1>3 DEF TypeOK
  <2> QED
    BY <1>3, <2>1, Events
<1>5. /\ FeedTells'
      /\ \A i : Arriving(i) <=> Arriving(i)'
      /\ \A i : e.id = i \/ (Changing(i) <=> Changing(i)')
      /\ Changing(e.id)' \/ e.status = rows[e.id].status
  <2>1. UNCHANGED <<rows, active, joined>> /\ e.kind # "INSERT"
    BY <1>3
  <2> QED
    BY <1>1, <1>3, <2>1, TailTells, Zenon
<1>6. /\ DOMAIN list' = DOMAIN list
      /\ \A k \in DOMAIN list : /\ list'[k].id = list[k].id
                                /\ list[k].id = e.id => list'[k].status = e.status
                                /\ list[k].id # e.id => list'[k] = list[k]
  <2>1. list' = [k \in DOMAIN list |-> IF list[k].id = e.id THEN [list[k] EXCEPT !.status = e.status] ELSE list[k]]
    BY <1>1 DEF MessageUpdated
  <2>2. ASSUME NEW k \in DOMAIN list
        PROVE  [list[k] EXCEPT !.status = e.status].id = list[k].id /\ [list[k] EXCEPT !.status = e.status].status = e.status
    <3>1. list[k] \in Entry
      BY <1>3
    <3> QED
      BY <3>1 DEF Entry
  <2> QED
    BY <2>1, <2>2
<1>7. Distinct(list) /\ Tells(list) /\ (more => Begins(list))
  BY DEF Covers
<1>8. Distinct(list)'
  BY <1>6, <1>7 DEF Distinct
<1>9. In(active)' = In(active)
  BY <1>3 DEF In
<1>10. Tells(list)'
  <2>1. ASSUME NEW k \in DOMAIN list', list'[k].id # Temp
        PROVE  /\ list'[k].id \in In(active)
               /\ \/ \E j \in DOMAIN feed' : feed'[j].kind = "UPDATE" /\ feed'[j].id = list'[k].id
                  \/ list'[k].status = rows[list'[k].id].status
    <3>1. PICK n : n = list'[k]
      OBVIOUS
    <3>2. n.id = list[k].id /\ n.id \in In(active) /\ (Changing(n.id) \/ list[k].status = rows[n.id].status)
      BY <1>6, <1>7, <2>1, <3>1 DEF Tells, Upcoming
    <3>3. Changing(n.id)' \/ n.status = rows[n.id].status
      <4>1. CASE n.id = e.id
        BY <1>5, <1>6, <2>1, <3>1, <3>2, <4>1
      <4>2. CASE n.id # e.id
        BY <1>5, <1>6, <2>1, <3>1, <3>2, <4>2
      <4> QED
        BY <4>1, <4>2
    <3> QED
      BY <3>1, <3>2, <3>3 DEF Changing
  <2> QED
    BY <1>3, <1>9, <2>1 DEF Tells, Upcoming, Changing
<1>11. more => list' # <<>> /\ list'[1].id = list[1].id
  <2>1. ASSUME more
        PROVE  list' # <<>> /\ list'[1].id = list[1].id
    <3>1. 1 \in DOMAIN list
      BY <1>3, <1>7, <2>1 DEF Begins
    <3> QED
      BY <1>6, <3>1
  <2> QED
    BY <2>1
<1>12. \A i : Shows(list, i) <=> Shows(list, i)'
  BY <1>6 DEF Shows
<1>13. Covers(list, more)'
  <2>1. \A k \in DOMAIN list' : Shows(list, list'[k].id)
    BY <1>6 DEF Shows
  <2>3. UNCHANGED <<rows, active, more>>
    BY <1>3
  <2> QED
    BY <1>5, <1>8, <1>10, <1>11, <1>12, <2>1, <2>3, ListCovered
<1>14. Optimistic'
  <2>1. PICK i : i = send.id
    OBVIOUS
  <2>2. Shows(list, Temp)' => send # None /\ send.chat = active /\ (send.pc = "stored" => Arriving(i)' /\ ~Shows(list, i)')
    BY <1>5, <1>12, <2>1 DEF Optimistic
  <2> QED
    BY <1>3, <2>1, <2>2 DEF Optimistic, Arriving, Shows
<1> QED
  BY <1>5, <1>11, <1>13, <1>14

\* What is shown of it: at most the optimistic message and its answer.
LEMMA ListOnSendAsk ==
  ASSUME ChatPageAssumption, BaseInv, Covers(list, more), SendAsk
  PROVE  Covers(list, more)' /\ Optimistic' /\ (more => list' # <<>> /\ list'[1] = list[1])
<1>1. PICK m : m = [id |-> Temp, status |-> "sent"]
  OBVIOUS
<1>2. /\ active # NoChat /\ send = None /\ list' = Append(list, m) /\ list \in Seq(Entry) /\ m \in Entry /\ m.id = Temp
      /\ send' = [pc |-> "asked", chat |-> active, id |-> Temp]
      /\ UNCHANGED <<rows, active, more, feed>>
  BY <1>1, Ranks DEF SendAsk, channel, BaseInv, TypeOK, Entry
<1>3. /\ \A k \in DOMAIN list : k \in DOMAIN list' /\ list'[k] = list[k] /\ list[k].id # Temp
      /\ \A k \in DOMAIN list' : k \in DOMAIN list \/ (k = Len(list) + 1 /\ list'[k] = m)
      /\ DOMAIN list = 1..Len(list) /\ Len(list) \in Nat
  <2>1. /\ DOMAIN list = 1..Len(list) /\ Len(list) \in Nat /\ DOMAIN list' = 1..(Len(list) + 1)
        /\ list'[Len(list) + 1] = m /\ \A k \in 1..Len(list) : list'[k] = list[k]
    BY <1>2, AppendProperties
  <2>2. \A k \in DOMAIN list : list[k].id # Temp
    BY <1>2 DEF BaseInv, OneOptimistic
  <2> QED
    BY <2>1, <2>2
<1>4. Distinct(list) /\ Tells(list) /\ (more => Begins(list))
  BY DEF Covers
<1>5. Distinct(list)'
  BY <1>2, <1>3, <1>4 DEF Distinct
<1>6. Tells(list)'
  BY <1>2, <1>3, <1>4 DEF Tells, Upcoming, Changing, In
<1>7. more => list' # <<>> /\ list'[1] = list[1]
  <2>1. ASSUME more
        PROVE  list' # <<>> /\ list'[1] = list[1]
    <3>1. 1 \in DOMAIN list
      BY <1>3, <1>4, <2>1 DEF Begins
    <3> QED
      BY <1>3, <3>1
  <2> QED
    BY <2>1
<1>8. Covers(list, more)'
  <2>1. \A k \in DOMAIN list' : list'[k].id # Temp => Shows(list, list'[k].id)
    BY <1>2, <1>3 DEF Shows
  <2>2. \A i : Shows(list, i) => Shows(list, i)'
    BY <1>3 DEF Shows
  <2>3. \A i : Arriving(i) <=> Arriving(i)'
    BY <1>2 DEF Arriving
  <2> QED
    BY <1>2, <1>5, <1>6, <1>7, <2>1, <2>2, <2>3, ListCovered
<1>9. Optimistic'
  BY <1>2 DEF Optimistic, None
<1> QED
  BY <1>7, <1>8, <1>9


LEMMA ListOnSendAnswer ==
  ASSUME ChatPageAssumption, BaseInv, FeedTells, Covers(list, more), Optimistic, SendAnswer
  PROVE  Covers(list, more)' /\ Optimistic' /\ (more => list' # <<>> /\ list'[1].id = list[1].id)
<1>1. PICK sent : sent = [id |-> send.id, status |-> "sent"]
  OBVIOUS
<1>2. /\ TypeOK /\ send.pc = "stored" /\ send' = None /\ list \in Seq(Entry)
      /\ UNCHANGED <<rows, active, more, joined, feed>>
  BY DEF SendAnswer, channel, BaseInv, TypeOK
<1>3. /\ send # None /\ DOMAIN list' = DOMAIN list /\ Len(list') = Len(list) /\ list' \in Seq(Entry)
      /\ \A k \in DOMAIN list : list'[k] = IF list[k].id = Temp THEN sent ELSE list[k]
  BY <1>1, <1>2, AnsweredList
<1>4. send.id \in In(send.chat) /\ sent.id = send.id /\ sent.id # Temp /\ sent.status = "sent"
  <2>1. send.id \in In(send.chat)
    BY <1>2 DEF BaseInv
  <2> QED
    BY <1>1, <1>2, <2>1, RowsOfChat
<1>5. Distinct(list) /\ Tells(list) /\ (more => Begins(list))
  BY DEF Covers
<1>6. Shows(list, Temp) =>
        send.chat = active /\ Arriving(sent.id) /\ ~Shows(list, sent.id) /\ sent.id \in In(active)
        /\ (Changing(sent.id) \/ rows[sent.id].status = "sent")
  <2>1. ASSUME Shows(list, Temp)
        PROVE  send.chat = active /\ Arriving(sent.id) /\ ~Shows(list, sent.id)
    <3>1. send.chat = active /\ Arriving(send.id) /\ ~Shows(list, send.id)
      BY <1>2, <2>1 DEF Optimistic
    <3> QED
      BY <1>4, <3>1
  <2>2. ASSUME Shows(list, Temp)
        PROVE  sent.id \in In(active) /\ (Changing(sent.id) \/ rows[sent.id].status = "sent")
    <3>1. sent.id \in In(active)
      BY <1>4, <2>1, <2>2
    <3> QED
      BY <2>1, <2>2, <3>1 DEF FeedTells
  <2> QED
    BY <2>1, <2>2
<1>7. \A k \in DOMAIN list : list[k].id = Temp => Shows(list, Temp)
  BY DEF Shows
<1>8. Distinct(list)'
  <2>1. ASSUME NEW j \in DOMAIN list, NEW k \in DOMAIN list, list'[j].id = list'[k].id
        PROVE  j = k
    <3>1. CASE list[j].id = Temp /\ list[k].id = Temp
      BY <1>5, <3>1 DEF Distinct
    <3>2. CASE list[j].id # Temp /\ list[k].id # Temp
      BY <1>3, <1>5, <2>1, <3>2 DEF Distinct
    <3>3. CASE list[j].id = Temp /\ list[k].id # Temp
      <4>1. list[k].id = sent.id /\ ~Shows(list, sent.id)
        BY <1>3, <1>6, <1>7, <2>1, <3>3
      <4> QED
        BY <4>1 DEF Shows
    <3>4. CASE list[j].id # Temp /\ list[k].id = Temp
      <4>1. list[j].id = sent.id /\ ~Shows(list, sent.id)
        BY <1>3, <1>6, <1>7, <2>1, <3>4
      <4> QED
        BY <4>1 DEF Shows
    <3> QED
      BY <3>1, <3>2, <3>3, <3>4
  <2> QED
    BY <1>3, <2>1 DEF Distinct
<1>9. Tells(list)'
  <2>1. ASSUME NEW k \in DOMAIN list
        PROVE  list'[k].id \in In(active) /\ (Changing(list'[k].id) \/ list'[k].status = rows[list'[k].id].status)
    <3>1. CASE list[k].id = Temp
      <4>1. list'[k] = sent
        BY <1>3, <3>1
      <4> QED
        BY <1>4, <1>6, <1>7, <3>1, <4>1
    <3>2. CASE list[k].id # Temp
      <4>1. list'[k] = list[k]
        BY <1>3, <3>2
      <4> QED
        BY <1>5, <3>2, <4>1 DEF Tells, Upcoming
    <3> QED
      BY <3>1, <3>2
  <2> QED
    BY <1>2, <1>3, <2>1 DEF Tells, Upcoming, Changing, In
<1>10. more => list' # <<>> /\ list'[1].id = list[1].id
  <2>1. ASSUME more
        PROVE  list' # <<>> /\ list'[1].id = list[1].id
    <3>1. 1 \in DOMAIN list /\ list[1].id # Temp
      BY <1>2, <1>5, <2>1 DEF Begins
    <3> QED
      BY <1>3, <3>1
  <2> QED
    BY <2>1
<1>11. Covers(list, more)'
  <2>1. ASSUME NEW k \in DOMAIN list'
        PROVE  Shows(list, list'[k].id) \/ Arriving(list'[k].id)
    <3>1. CASE list[k].id = Temp
      <4>1. list'[k] = sent
        BY <1>3, <3>1
      <4> QED
        BY <1>3, <1>6, <1>7, <3>1, <4>1
    <3>2. CASE list[k].id # Temp
      <4>1. list'[k] = list[k]
        BY <1>3, <3>2
      <4> QED
        BY <1>3, <4>1 DEF Shows
    <3> QED
      BY <3>1, <3>2
  <2>2. \A i \in In(active) : Shows(list, i) => Shows(list, i)'
    <3>1. \A i \in In(active) : i # Temp
      BY <1>2, RowsOfChat
    <3> QED
      BY <1>3, <3>1 DEF Shows
  <2>3. \A i : Arriving(i) <=> Arriving(i)'
    BY <1>2 DEF Arriving
  <2> QED
    BY <1>2, <1>8, <1>9, <1>10, <2>1, <2>2, <2>3, ListCovered
<1>12. Optimistic'
  <2>1. ~Shows(list, Temp)'
    BY <1>3, <1>4 DEF Shows
  <2> QED
    BY <2>1 DEF Optimistic
<1> QED
  BY <1>10, <1>11, <1>12

LEMMA ListOnSendFail ==
  ASSUME ChatPageAssumption, BaseInv, Covers(list, more), SendFail
  PROVE  Covers(list, more)' /\ Optimistic' /\ (more => list' # <<>> /\ list'[1].id = list[1].id)
<1>1. /\ TypeOK /\ OneOptimistic /\ list \in Seq(Entry) /\ UNCHANGED <<rows, active, more, feed>>
      /\ DOMAIN list = 1..Len(list) /\ Len(list) \in Nat
  BY DEF SendFail, channel, BaseInv, TypeOK
<1>2. Distinct(list) /\ Tells(list) /\ (more => Begins(list))
  BY DEF Covers
<1>3. /\ list' \in Seq(Entry)
      /\ \/ list' = list /\ \A k \in DOMAIN list : list[k].id # Temp
         \/ \E n \in DOMAIN list :
              /\ list[n].id = Temp /\ list' = RemoveAt(list, n) /\ Len(list') = Len(list) - 1
              /\ \A k \in DOMAIN list' : k \in Nat /\ list'[k] = IF k < n THEN list[k] ELSE list[k + 1]
              /\ \A k \in DOMAIN list' : k \in DOMAIN list /\ k + 1 \in DOMAIN list
              /\ \A k \in DOMAIN list : k \in Nat
              /\ \A k \in DOMAIN list : k < n => k \in DOMAIN list'
              /\ \A k \in DOMAIN list : k > n => k - 1 \in DOMAIN list'
      /\ \A k \in DOMAIN list' : list'[k].id # Temp
  BY <1>1, FailedList
<1>4. Optimistic'
  BY <1>3 DEF Optimistic, Shows
<1>5. \A i : Arriving(i) <=> Arriving(i)'
  BY <1>1 DEF Arriving
<1>6. CASE list' = list
  <2>1. Distinct(list)' /\ Tells(list)' /\ \A i : Shows(list, i) <=> Shows(list, i)'
    BY <1>1, <1>2, <1>6 DEF Distinct, Tells, Upcoming, Changing, In, Shows
  <2>2. \A k \in DOMAIN list' : Shows(list, list'[k].id)
    BY <1>6 DEF Shows
  <2>3. more => list' # <<>> /\ list'[1].id = list[1].id
    BY <1>2, <1>6 DEF Begins
  <2>4. Covers(list, more)'
    BY <1>1, <1>5, <2>1, <2>2, <2>3, ListCovered
  <2> QED
    BY <1>4, <2>3, <2>4
<1>7. ASSUME NEW n \in DOMAIN list, list[n].id = Temp, Len(list') = Len(list) - 1,
             \A k \in DOMAIN list' : k \in Nat /\ list'[k] = IF k < n THEN list[k] ELSE list[k + 1],
             \A k \in DOMAIN list' : k \in DOMAIN list /\ k + 1 \in DOMAIN list,
             \A k \in DOMAIN list : k \in Nat,
             \A k \in DOMAIN list : k < n => k \in DOMAIN list',
             \A k \in DOMAIN list : k > n => k - 1 \in DOMAIN list'
      PROVE  Covers(list, more)' /\ Optimistic' /\ (more => list' # <<>> /\ list'[1].id = list[1].id)
  <2>1. n \in Nat
    BY <1>7
  <2>2. \A k \in DOMAIN list' : \E j \in DOMAIN list : list'[k] = list[j]
    BY <1>7
  <2>3. Distinct(list)'
    <3>1. ASSUME NEW j \in DOMAIN list', NEW k \in DOMAIN list', list'[j].id = list'[k].id
          PROVE  j = k
      <4>1. PICK a, b : a = (IF j < n THEN j ELSE j + 1) /\ b = (IF k < n THEN k ELSE k + 1)
        OBVIOUS
      <4>2. a \in DOMAIN list /\ b \in DOMAIN list /\ list'[j] = list[a] /\ list'[k] = list[b] /\ j \in Nat /\ k \in Nat
        BY <1>7, <4>1
      <4>3. a = b
        BY <1>2, <3>1, <4>2 DEF Distinct
      <4> QED
        BY <2>1, <4>1, <4>2, <4>3
    <3> QED
      BY <3>1 DEF Distinct
  <2>4. Tells(list)'
    <3>1. ASSUME NEW k \in DOMAIN list'
          PROVE  list'[k].id \in In(active) /\ (Changing(list'[k].id) \/ list'[k].status = rows[list'[k].id].status)
      <4>1. PICK j \in DOMAIN list : list'[k] = list[j]
        BY <2>2
      <4>2. list[j].id # Temp
        BY <1>3, <4>1
      <4> QED
        BY <1>2, <4>1, <4>2 DEF Tells, Upcoming
    <3> QED
      BY <1>1, <3>1 DEF Tells, Upcoming, Changing, In
  <2>5. ASSUME NEW i, i # Temp, Shows(list, i)
        PROVE  Shows(list, i)'
    <3>1. PICK k \in DOMAIN list : list[k].id = i
      BY <2>5 DEF Shows
    <3>2. k \in Nat /\ k # n
      BY <1>7, <2>5, <3>1
    <3>3. CASE k < n
      <4>1. k \in DOMAIN list' /\ list'[k] = list[k]
        BY <1>7, <3>3
      <4> QED
        BY <3>1, <4>1 DEF Shows
    <3>4. CASE k > n
      <4>1. PICK j : j = k - 1
        OBVIOUS
      <4>2. j \in DOMAIN list' /\ ~(j < n) /\ j + 1 = k
        BY <1>7, <2>1, <3>2, <3>4, <4>1
      <4>3. list'[j] = list[k]
        BY <1>7, <4>2
      <4> QED
        BY <3>1, <4>2, <4>3 DEF Shows
    <3> QED
      BY <2>1, <3>2, <3>3, <3>4
  <2>6. more => list' # <<>> /\ list'[1].id = list[1].id
    <3>1. ASSUME more
          PROVE  list' # <<>> /\ list'[1].id = list[1].id
      <4>1. 1 \in DOMAIN list /\ list[1].id # Temp
        BY <1>1, <1>2, <3>1 DEF Begins
      <4>2. 1 < n
        BY <1>1, <1>7, <4>1
      <4>3. 1 \in DOMAIN list' /\ list'[1] = list[1]
        BY <1>7, <4>1, <4>2
      <4> QED
        BY <4>3
    <3> QED
      BY <3>1
  <2>7. \A k \in DOMAIN list' : Shows(list, list'[k].id)
    BY <2>2 DEF Shows
  <2>8. \A i \in In(active) : Shows(list, i) => Shows(list, i)'
    <3>1. \A i \in In(active) : i # Temp
      BY <1>1, RowsOfChat
    <3> QED
      BY <2>5, <3>1
  <2>9. Covers(list, more)'
    BY <1>1, <1>5, <2>3, <2>4, <2>6, <2>7, <2>8, ListCovered
  <2> QED
    BY <1>4, <2>6, <2>9
<1> QED
  BY <1>3, <1>6, <1>7


\* Two pages one after the other.
LEMMA Concatenated ==
  ASSUME NEW page \in Seq(Entry), NEW rest \in Seq(Entry), NEW both, both = page \o rest
  PROVE  /\ both \in Seq(Entry)
         /\ \A k \in DOMAIN page : k \in DOMAIN both /\ both[k] = page[k]
         /\ \A j \in DOMAIN rest : Len(page) + j \in DOMAIN both /\ both[Len(page) + j] = rest[j]
         /\ \A k \in DOMAIN both : k \notin DOMAIN page => k - Len(page) \in DOMAIN rest /\ k = Len(page) + (k - Len(page))
<1>1. /\ DOMAIN page = 1..Len(page) /\ Len(page) \in Nat /\ DOMAIN rest = 1..Len(rest) /\ Len(rest) \in Nat
  OBVIOUS
<1>2. /\ both \in Seq(Entry) /\ Len(both) = Len(page) + Len(rest)
      /\ \A k \in 1..(Len(page) + Len(rest)) : both[k] = IF k <= Len(page) THEN page[k] ELSE rest[k - Len(page)]
  BY ConcatProperties
<1>3. DOMAIN both = 1..(Len(page) + Len(rest))
  BY <1>2
<1>4. ASSUME NEW k \in DOMAIN page
      PROVE  k \in DOMAIN both /\ both[k] = page[k]
  <2>1. k \in 1..(Len(page) + Len(rest)) /\ k <= Len(page)
    BY <1>1
  <2> QED
    BY <1>2, <1>3, <2>1
<1>5. ASSUME NEW j \in DOMAIN rest
      PROVE  Len(page) + j \in DOMAIN both /\ both[Len(page) + j] = rest[j]
  <2>1. PICK k : k = Len(page) + j
    OBVIOUS
  <2>2. k \in 1..(Len(page) + Len(rest)) /\ ~(k <= Len(page)) /\ k - Len(page) = j
    BY <1>1, <2>1
  <2> QED
    BY <1>2, <1>3, <2>1, <2>2
<1>6. ASSUME NEW k \in DOMAIN both, k \notin DOMAIN page
      PROVE  k - Len(page) \in DOMAIN rest /\ k = Len(page) + (k - Len(page))
  BY <1>1, <1>3, <1>6
<1>7. \A k \in DOMAIN page : k \in DOMAIN both /\ both[k] = page[k]
  BY <1>4
<1>8. \A j \in DOMAIN rest : Len(page) + j \in DOMAIN both /\ both[Len(page) + j] = rest[j]
  BY <1>5
<1>9. \A k \in DOMAIN both : k \notin DOMAIN page => k - Len(page) \in DOMAIN rest /\ k = Len(page) + (k - Len(page))
  BY <1>6
<1> QED
  BY <1>2, <1>7, <1>8, <1>9, Zenon

\* An older page before the list (handleLoadMore).
LEMMA ListOnOlder ==
  ASSUME ChatPageAssumption, BaseInv, Covers(list, more), more, Optimistic,
         NEW page \in Seq(Entry), NEW cut \in BOOLEAN, NEW before, before = list[1].id, CoversBefore(page, cut, before),
         list' = page \o list, more' = cut, UNCHANGED <<rows, active, send, feed>>
  PROVE  Covers(list, more)' /\ Optimistic'
<1>1. TypeOK /\ list \in Seq(Entry) /\ DOMAIN list = 1..Len(list) /\ Len(list) \in Nat
  BY DEF BaseInv, TypeOK
<1>2. PICK both, size : both = page \o list /\ size = Len(page)
  OBVIOUS
<1>3. /\ both \in Seq(Entry) /\ list' = both
      /\ \A k \in DOMAIN page : k \in DOMAIN both /\ both[k] = page[k]
      /\ \A j \in DOMAIN list : size + j \in DOMAIN both /\ both[size + j] = list[j]
      /\ \A k \in DOMAIN both : k \in DOMAIN page \/ \E j \in DOMAIN list : k = size + j
  <2>1. PICK rest : rest = list
    OBVIOUS
  <2>2. rest \in Seq(Entry) /\ both = page \o rest
    BY <1>1, <1>2, <2>1
  <2>3. both \in Seq(Entry)
    BY <2>2, Concatenated
  <2>4. \A k \in DOMAIN page : k \in DOMAIN both /\ both[k] = page[k]
    BY <2>2, Concatenated
  <2>5. \A j \in DOMAIN rest : Len(page) + j \in DOMAIN both /\ both[Len(page) + j] = rest[j]
    BY <2>2, Concatenated
  <2>6. \A k \in DOMAIN both : k \notin DOMAIN page => k - Len(page) \in DOMAIN rest /\ k = Len(page) + (k - Len(page))
    BY <2>2, Concatenated
  <2> QED
    BY <1>2, <2>1, <2>3, <2>4, <2>5, <2>6
<1>4. Distinct(list) /\ Tells(list) /\ Begins(list)
  BY DEF Covers
<1>5. 1 \in DOMAIN list /\ before # Temp /\ before \in In(active) /\ before \in Nat
  <2>1. 1 \in DOMAIN list /\ before # Temp
    BY <1>1, <1>4 DEF Begins
  <2>2. before \in In(active)
    BY <1>4, <2>1 DEF Tells
  <2> QED
    BY <1>1, <2>1, <2>2, RowsOfChat
<1>6. /\ Distinct(page) /\ Tells(page) /\ (cut => Begins(page))
      /\ \A k \in DOMAIN page : page[k].id # Temp /\ page[k].id < before
      /\ \A i \in In(active) : i < before /\ Within(page, cut, i) => Shows(page, i)
  BY DEF CoversBefore
<1>7. \A k \in DOMAIN page : page[k].id \in Nat /\ page[k].id < before
  BY <1>6, Entries
<1>8. \A j \in DOMAIN list : list[j].id \in Nat /\ (list[j].id = Temp \/ before <= list[j].id)
  BY <1>1, <1>4, Entries DEF Begins
<1>9. \A k \in DOMAIN page, j \in DOMAIN list : page[k].id # list[j].id
  <2>1. ASSUME NEW k \in DOMAIN page, NEW j \in DOMAIN list, page[k].id = list[j].id
        PROVE  FALSE
    <3>1. PICK i : i = page[k].id
      OBVIOUS
    <3>2. i \in Nat /\ i < before /\ (i = Temp \/ before <= i) /\ i # Temp
      BY <1>6, <1>7, <1>8, <2>1, <3>1
    <3> QED
      BY <1>5, <3>2
  <2> QED
    BY <2>1
<1>10. Distinct(both)
  <2>1. ASSUME NEW a \in DOMAIN both, NEW b \in DOMAIN both, both[a].id = both[b].id
        PROVE  a = b
    <3>1. CASE a \in DOMAIN page /\ b \in DOMAIN page
      BY <1>3, <1>6, <2>1, <3>1 DEF Distinct
    <3>2. CASE a \in DOMAIN page /\ b \notin DOMAIN page
      BY <1>3, <1>9, <2>1, <3>2
    <3>3. CASE a \notin DOMAIN page /\ b \in DOMAIN page
      BY <1>3, <1>9, <2>1, <3>3
    <3>4. CASE a \notin DOMAIN page /\ b \notin DOMAIN page
      <4>1. PICK j \in DOMAIN list, k \in DOMAIN list : a = size + j /\ b = size + k
        BY <1>3, <3>4
      <4>2. list[j].id = list[k].id
        BY <1>3, <2>1, <4>1
      <4> QED
        BY <1>4, <4>1, <4>2 DEF Distinct
    <3> QED
      BY <3>1, <3>2, <3>3, <3>4
  <2> QED
    BY <2>1 DEF Distinct
<1>11. Tells(both)
  <2>1. ASSUME NEW k \in DOMAIN both, both[k].id # Temp
        PROVE  both[k].id \in In(active) /\ Upcoming(both[k])
    <3>1. CASE k \in DOMAIN page
      BY <1>3, <1>6, <2>1, <3>1 DEF Tells
    <3>2. CASE k \notin DOMAIN page
      <4>1. PICK j \in DOMAIN list : k = size + j
        BY <1>3, <3>2
      <4> QED
        BY <1>3, <1>4, <2>1, <4>1 DEF Tells
    <3> QED
      BY <3>1, <3>2
  <2> QED
    BY <2>1 DEF Tells
<1>12. ASSUME cut
       PROVE  Begins(both) /\ both[1].id = page[1].id /\ page[1].id \in Nat /\ page[1].id < before
  <2>1. page # <<>> /\ page[1].id # Temp /\ \A k \in DOMAIN page : page[k].id # Temp => page[1].id <= page[k].id
    BY <1>6, <1>12 DEF Begins
  <2>2. 1 \in DOMAIN page
    BY <2>1
  <2>3. both[1] = page[1] /\ both # <<>> /\ page[1].id \in Nat /\ page[1].id < before
    BY <1>3, <1>7, <2>2
  <2>4. ASSUME NEW k \in DOMAIN both, both[k].id # Temp
        PROVE  page[1].id <= both[k].id
    <3>1. CASE k \in DOMAIN page
      BY <1>3, <2>1, <2>4, <3>1
    <3>2. CASE k \notin DOMAIN page
      <4>1. PICK j \in DOMAIN list : k = size + j
        BY <1>3, <3>2
      <4>2. PICK i, o : i = list[j].id /\ o = page[1].id
        OBVIOUS
      <4>3. both[k].id = i /\ i \in Nat /\ before <= i /\ o \in Nat /\ o < before
        BY <1>3, <1>8, <2>3, <2>4, <4>1, <4>2
      <4>4. o <= i
        BY <1>5, <4>3
      <4> QED
        BY <4>2, <4>3, <4>4
    <3> QED
      BY <3>1, <3>2
  <2> QED
    BY <2>1, <2>3, <2>4 DEF Begins
<1>13. \A i : Shows(both, i) <=> Shows(page, i) \/ Shows(list, i)
  <2>1. ASSUME NEW i, Shows(both, i)
        PROVE  Shows(page, i) \/ Shows(list, i)
    BY <1>3, <2>1 DEF Shows
  <2>2. ASSUME NEW i, Shows(page, i) \/ Shows(list, i)
        PROVE  Shows(both, i)
    BY <1>3, <2>2 DEF Shows
  <2> QED
    BY <2>1, <2>2
<1>14. ASSUME NEW i \in In(active)
       PROVE  /\ Within(both, cut, i) => Shows(both, i) \/ Arriving(i)
              /\ Arriving(i) => Within(both, cut, i) /\ before <= i
  <2>1. i \in Nat
    BY <1>1, RowsOfChat
  <2>2. before <= i => Shows(list, i) \/ Arriving(i)
    BY DEF Covers, Within
  <2>3. Arriving(i) => before <= i
    BY DEF Covers, Within
  <2>4. Within(both, cut, i) => Within(page, cut, i)
    BY <1>12 DEF Within
  <2>5. Within(both, cut, i) => Shows(both, i) \/ Arriving(i)
    <3>1. CASE i < before
      BY <1>6, <1>13, <2>4, <3>1
    <3>2. CASE before <= i
      BY <1>13, <2>2, <3>2
    <3> QED
      BY <1>5, <2>1, <3>1, <3>2
  <2>6. Arriving(i) => Within(both, cut, i)
    <3>1. ASSUME Arriving(i), cut
          PROVE  both[1].id <= i
      <4>1. PICK o : o = both[1].id
        OBVIOUS
      <4>2. o \in Nat /\ o < before /\ before <= i
        BY <1>12, <2>3, <3>1, <4>1
      <4>3. o <= i
        BY <1>5, <2>1, <4>2
      <4> QED
        BY <4>1, <4>3
    <3> QED
      BY <3>1 DEF Within
  <2> QED
    BY <2>3, <2>5, <2>6
<1>15. Covers(both, cut)
  BY <1>10, <1>11, <1>12, <1>14 DEF Covers
<1>16. Covers(list, more)'
  BY <1>3, <1>15 DEF Covers, Distinct, Tells, Upcoming, Begins, Within, Shows, Arriving, Changing, In
<1>17. Optimistic'
  <2>1. PICK i : i = send.id
    OBVIOUS
  <2>2. ASSUME Shows(both, Temp)
        PROVE  send # None /\ send.chat = active /\ (send.pc = "stored" => Arriving(i) /\ ~Shows(both, i))
    <3>1. Shows(list, Temp)
      BY <1>6, <1>13, <2>2 DEF Shows
    <3>2. send # None /\ send.chat = active /\ (send.pc = "stored" => Arriving(i) /\ ~Shows(list, i))
      BY <2>1, <3>1 DEF Optimistic
    <3>3. send.pc = "stored" => ~Shows(page, i)
      <4>1. ASSUME send.pc = "stored", Shows(page, i)
            PROVE  FALSE
        <5>1. i \in In(active)
          BY <2>1, <3>2, <4>1 DEF BaseInv
        <5>2. before <= i /\ i < before /\ i \in Nat
          BY <1>6, <1>14, <3>2, <4>1, <5>1, <1>1, RowsOfChat DEF Shows
        <5> QED
          BY <1>5, <5>2
      <4> QED
        BY <4>1
    <3> QED
      BY <1>13, <3>2, <3>3
  <2> QED
    BY <1>3, <2>1, <2>2 DEF Optimistic, Shows, Arriving
<1> QED
  BY <1>16, <1>17


\* What an older page has (getChatMessages before the first message).
LEMMA OlderRows ==
  ASSUME ChatPageAssumption, TypeOK, active \in Chats, NEW before \in Nat, NEW page, page = PageOf(active, before)
  PROVE  page \in Seq(Entry) /\ CoversBefore(page, Full(page), before)
<1>1. PICK c : c = active
  OBVIOUS
<1>2. /\ page \in Seq(Entry)
      /\ \A k \in DOMAIN page :
           page[k].id \in In(c) /\ page[k].id < before /\ page[k].status = rows[page[k].id].status
      /\ \A j, k \in DOMAIN page : j < k => page[j].id < page[k].id
      /\ \A i \in In(c) : i < before /\ (Full(page) => page[1].id <= i) => Shows(page, i)
  <2>1. c \in Chats /\ page = PageOf(c, before)
    BY <1>1
  <2>2. page \in Seq(Entry)
    BY <2>1, PageRows
  <2>3. \A k \in DOMAIN page :
          page[k].id \in In(c) /\ page[k].id < before /\ page[k].status = rows[page[k].id].status
    <3>1. \A k \in DOMAIN PageOf(c, before) :
            /\ PageOf(c, before)[k].id \in In(c) /\ PageOf(c, before)[k].id < before
            /\ PageOf(c, before)[k].status = rows[PageOf(c, before)[k].id].status
      BY <2>1, PageRows, Zenon
    <3> QED
      BY <2>1, <3>1, Zenon
  <2>4. \A j, k \in DOMAIN page : j < k => page[j].id < page[k].id
    BY <2>1, PageRows
  <2>5. \A i \in In(c) : i < before /\ (Full(page) => page[1].id <= i) => Shows(page, i)
    <3>1. \A i \in In(c) :
            i < before /\ (Full(PageOf(c, before)) => PageOf(c, before)[1].id <= i) => Shows(PageOf(c, before), i)
      BY <2>1, PageRows, Zenon
    <3> QED
      BY <2>1, <3>1, Zenon
  <2> QED
    BY <2>2, <2>3, <2>4, <2>5
<1>3. DOMAIN page = 1..Len(page) /\ Len(page) \in Nat
  BY <1>2
<1>4. \A k \in DOMAIN page : k \in Nat /\ 1 <= k /\ page[k].id \in Nat /\ page[k].id # Temp
  BY <1>2, <1>3, Entries, RowsOfChat
<1>5. Distinct(page)
  <2>1. ASSUME NEW j \in DOMAIN page, NEW k \in DOMAIN page, page[j].id = page[k].id
        PROVE  j = k
    <3>1. PICK a, b : a = page[j].id /\ b = page[k].id
      OBVIOUS
    <3>2. a \in Nat /\ b \in Nat /\ a = b /\ (j < k => a < b) /\ (k < j => b < a)
      BY <1>2, <1>4, <2>1, <3>1
    <3>3. j \in Nat /\ k \in Nat /\ ~(j < k) /\ ~(k < j)
      BY <1>4, <3>2
    <3> QED
      BY <3>3
  <2> QED
    BY <2>1 DEF Distinct
<1>6. Tells(page)
  BY <1>1, <1>2 DEF Tells, Upcoming
<1>7. ASSUME Full(page)
      PROVE  Begins(page)
  <2>1. 1 \in DOMAIN page
    BY <1>3, <1>7, ChatPageAssumption DEF Full, ChatPageAssumption
  <2>2. ASSUME NEW k \in DOMAIN page
        PROVE  page[1].id <= page[k].id
    <3>1. PICK a, b : a = page[1].id /\ b = page[k].id
      OBVIOUS
    <3>2. a \in Nat /\ b \in Nat /\ (1 < k => a < b) /\ k \in Nat /\ 1 <= k /\ (k = 1 => a = b)
      BY <1>2, <1>4, <2>1, <3>1
    <3>3. a <= b
      BY <3>2
    <3> QED
      BY <3>1, <3>3
  <2> QED
    BY <1>4, <2>1, <2>2 DEF Begins
<1>8. \A i \in In(active) : i < before /\ Within(page, Full(page), i) => Shows(page, i)
  BY <1>1, <1>2 DEF Within
<1> QED
  BY <1>2, <1>4, <1>5, <1>6, <1>7, <1>8 DEF CoversBefore

\* What a load has, if the channel holds at most a page of new messages: with
\* what is still to come, the chat.
LEMMA LoadRows ==
  ASSUME ChatPageAssumption, TypeOK, FeedTells, active \in Chats, NEW page, page = PageOf(active, MaxMessages + 1),
         Cardinality({k \in DOMAIN feed : feed[k].kind = "INSERT"}) <= PageSize
  PROVE  page \in Seq(Entry) /\ Covers(page, Full(page))
<1>1. PICK c, before : c = active /\ before = MaxMessages + 1
  OBVIOUS
<1>2. before \in Nat /\ c \in Chats /\ page = PageOf(c, before) /\ page = PageOf(active, before)
  BY <1>1, ChatPageAssumption DEF ChatPageAssumption
<1>3. page \in Seq(Entry) /\ CoversBefore(page, Full(page), before)
  BY <1>2, OlderRows
<1>4. \A i \in In(c) : i < before /\ Cardinality({j \in In(c) : j < before /\ j > i}) < PageSize => Shows(page, i)
  <2>1. \A i \in In(c) :
          i < before /\ Cardinality({j \in In(c) : j < before /\ j > i}) < PageSize => Shows(PageOf(c, before), i)
    BY <1>2, PageRows, Zenon
  <2> QED
    BY <1>2, <2>1, Zenon
<1>5. \A i \in In(c) : i < before /\ i \in Nat
  <2>1. \A i \in In(c) : i <= MaxMessages /\ i \in Nat
    BY RowsOfChat
  <2> QED
    BY <1>1, <2>1, ChatPageAssumption DEF ChatPageAssumption
<1>6. ASSUME NEW i \in In(c), Arriving(i)
      PROVE  Shows(page, i)
  <2>1. PICK after, upto, coming :
          /\ after = {j \in In(c) : j < before /\ j > i} /\ upto = after \cup {i}
          /\ coming = {k \in DOMAIN feed : feed[k].kind = "INSERT"}
    OBVIOUS
  <2>2. PICK f : f = [j \in upto |-> CHOOSE k \in DOMAIN feed : feed[k].kind = "INSERT" /\ feed[k].id = j]
    OBVIOUS
  <2>3. ASSUME NEW j \in upto
        PROVE  f[j] \in coming /\ feed[f[j]].id = j
    <3>1. j \in In(c) /\ (j = i \/ i < j)
      BY <2>1
    <3>2. Arriving(j)
      BY <1>1, <1>6, <3>1 DEF FeedTells
    <3>3. \E k \in DOMAIN feed : feed[k].kind = "INSERT" /\ feed[k].id = j
      BY <3>2 DEF Arriving
    <3>4. f[j] \in DOMAIN feed /\ feed[f[j]].kind = "INSERT" /\ feed[f[j]].id = j
      BY <2>2, <3>3
    <3> QED
      BY <2>1, <3>4
  <2>4. f \in Injection(upto, coming)
    <3>1. f \in [upto -> coming]
      BY <2>2, <2>3
    <3>2. \A a, b \in upto : f[a] = f[b] => a = b
      BY <2>3
    <3> QED
      BY <3>1, <3>2 DEF Injection, IsInjective
  <2>5. IsFiniteSet(coming) /\ Cardinality(coming) \in Nat /\ Cardinality(coming) <= PageSize
    <3>1. DOMAIN feed = 1..Len(feed) /\ Len(feed) \in Nat
      BY DEF TypeOK
    <3>2. IsFiniteSet(DOMAIN feed) /\ coming \subseteq DOMAIN feed
      BY <2>1, <3>1, FS_Interval
    <3> QED
      BY <2>1, <3>2, Subset
  <2>6. IsFiniteSet(upto) /\ Cardinality(upto) <= Cardinality(coming)
    BY <2>4, <2>5, FS_Injection
  <2>7. after \subseteq upto /\ i \notin after /\ upto = after \cup {i}
    <3>1. i \in Nat
      BY <1>5
    <3> QED
      BY <2>1, <3>1
  <2>8. IsFiniteSet(after) /\ Cardinality(after) \in Nat
    BY <2>6, <2>7, Subset
  <2>9. Cardinality(upto) = Cardinality(after) + 1
    BY <2>7, <2>8, FS_AddElement
  <2>10. Cardinality(after) < PageSize
    BY <2>5, <2>6, <2>8, <2>9, ChatPageAssumption DEF ChatPageAssumption
  <2> QED
    BY <1>4, <1>5, <2>1, <2>10
<1>7. \A i \in In(active) : Within(page, Full(page), i) => Shows(page, i)
  BY <1>1, <1>3, <1>5 DEF CoversBefore
<1>8. ASSUME NEW i \in In(active), Arriving(i)
      PROVE  Within(page, Full(page), i)
  <2>1. Shows(page, i)
    BY <1>1, <1>6, <1>8
  <2>2. i # Temp
    BY RowsOfChat
  <2> QED
    BY <1>3, <2>1, <2>2 DEF CoversBefore, Begins, Shows, Within
<1> QED
  BY <1>3, <1>7, <1>8 DEF Covers, CoversBefore


\* What the answers and events in order maintain while there has been no fault.
Told == FeedTells /\ LoadCovers /\ ListCovers /\ OlderCovers

LEMMA OfActiveKept ==
  ASSUME OfActive, UNCHANGED active,
         \/ loads' \subseteq loads
         \/ \E l \in loads : \E k : l.mounted /\ loads' = (loads \ {l}) \cup {k} /\ k.chat = l.chat,
         \A l \in loads' : l.mounted /\ l.pc = "answered" => joined',
         older' = None \/ (older # None /\ older'.chat = older.chat)
           \/ (~Loading /\ older'.chat = active /\ loads' = loads),
         active = NoChat => list' = <<>>
  PROVE  OfActive'
<1>1. /\ \A l, m \in loads : l.mounted /\ m.mounted => l = m
      /\ \A l \in loads : l.mounted => l.chat = active
      /\ older # None => older.chat = active /\ ~Loading
  BY DEF OfActive
<1>2. /\ \A l, m \in loads' : l.mounted /\ m.mounted => l = m
      /\ \A l \in loads' : l.mounted => l.chat = active
  BY <1>1
<1>3. Loading' => Loading
  BY DEF Loading
<1>4. older' # None => older'.chat = active /\ ~Loading'
  BY <1>1, <1>3 DEF Loading
<1> QED
  BY <1>2, <1>4 DEF OfActive

\* Nothing that is to come or committed changes.
LEMMA CoversSame ==
  ASSUME UNCHANGED <<rows, active, feed>>, NEW page, NEW cut
  PROVE  /\ Covers(page, cut) => Covers(page, cut)'
         /\ \A before : CoversBefore(page, cut, before) => CoversBefore(page, cut, before)'
BY DEF Covers, CoversBefore, Distinct, Tells, Upcoming, Begins, Within, Shows, Arriving, Changing, In

LEMMA FeedSame ==
  ASSUME FeedTells, UNCHANGED <<rows, active, joined, feed>>
  PROVE  FeedTells'
BY DEF FeedTells, Arriving, Changing, In

LEMMA LoadsSame ==
  ASSUME LoadCovers, UNCHANGED <<rows, active, feed>>, \A l \in loads' : l.mounted => l \in loads \/ l.pc = "marking"
  PROVE  LoadCovers'
<1>1. ASSUME NEW l \in loads', l.mounted
      PROVE  /\ l.pc = "asked" => Cardinality({k \in DOMAIN feed' : feed'[k].kind = "INSERT"}) <= PageSize
             /\ l.pc = "answered" => Covers(l.page, Full(l.page))'
  <2>1. CASE l.pc = "marking"
    BY <2>1
  <2>2. CASE l \in loads
    <3>1. /\ l.pc = "asked" => Cardinality({k \in DOMAIN feed : feed[k].kind = "INSERT"}) <= PageSize
          /\ l.pc = "answered" => Covers(l.page, Full(l.page))
      BY <1>1, <2>2 DEF LoadCovers
    <3>2. PICK page, cut : page = l.page /\ cut = Full(l.page)
      OBVIOUS
    <3>3. Covers(page, cut) => Covers(page, cut)'
      BY CoversSame
    <3> QED
      BY <3>1, <3>2, <3>3
  <2> QED
    BY <1>1, <2>1, <2>2
<1> QED
  BY <1>1 DEF LoadCovers

\* A list that is the page it was, and the same for a page that becomes the list.
LEMMA ListIs ==
  ASSUME NEW page, NEW cut, list' = page, more' = cut
  PROVE  Covers(page, cut)' <=> Covers(list, more)'
BY DEF Covers, Distinct, Tells, Upcoming, Begins, Within, Shows, Arriving, Changing, In

LEMMA ListSame ==
  ASSUME ListCovers, UNCHANGED <<rows, active, feed, list, more, send, joined>>, AwaitsPage => AwaitsPage'
  PROVE  ListCovers'
<1>1. ASSUME active # NoChat, ~AwaitsPage
      PROVE  joined' /\ Covers(list, more)' /\ Optimistic'
  <2>1. joined /\ Covers(list, more) /\ Optimistic
    BY <1>1 DEF ListCovers
  <2>2. PICK page, cut : page = list /\ cut = more
    OBVIOUS
  <2>3. Covers(page, cut)'
    BY <2>1, <2>2, CoversSame
  <2>4. Covers(list, more)'
    BY <2>2, <2>3, ListIs
  <2>5. Optimistic'
    BY <2>1 DEF Optimistic, Shows, Arriving
  <2> QED
    BY <2>1, <2>4, <2>5
<1> QED
  BY <1>1 DEF ListCovers

LEMMA OlderPageIs ==
  ASSUME UNCHANGED older, NEW page, NEW cut, NEW before, page = older.page, cut = Full(older.page), before = older.before
  PROVE  CoversBefore(page, cut, before)' => CoversBefore(older.page, Full(older.page), older.before)'
<1>1. page = older'.page /\ before = older'.before /\ (cut <=> Full(older.page)')
  BY DEF Full
<1>2. Distinct(page) => Distinct(older.page)'
  BY <1>1 DEF Distinct
<1>3. Tells(page)' => Tells(older.page)'
  BY <1>1 DEF Tells, Upcoming, Changing, In
<1>4. Begins(page) => Begins(older.page)'
  BY <1>1 DEF Begins
<1>5. \A i : (Shows(page, i) => Shows(older.page, i)') /\ (Within(older.page, Full(older.page), i)' => Within(page, cut, i))
  BY <1>1 DEF Shows, Within
<1>6. \A k \in DOMAIN page : page[k].id # Temp /\ page[k].id < before =>
        k \in DOMAIN older'.page /\ older'.page[k].id # Temp /\ older'.page[k].id < older'.before
  BY <1>1
<1>7. DOMAIN older'.page = DOMAIN page
  BY <1>1
<1>8. ASSUME CoversBefore(page, cut, before)'
      PROVE  CoversBefore(older.page, Full(older.page), older.before)'
  <2>1. /\ Distinct(older.page)' /\ Tells(older.page)' /\ (Full(older.page)' => Begins(older.page)')
        /\ \A k \in DOMAIN older'.page : older'.page[k].id # Temp /\ older'.page[k].id < older'.before
    BY <1>1, <1>2, <1>3, <1>4, <1>6, <1>7, <1>8 DEF CoversBefore
  <2>2. \A i \in In(active)' : i < older'.before /\ Within(older.page, Full(older.page), i)' => Shows(older.page, i)'
    BY <1>1, <1>5, <1>8 DEF CoversBefore
  <2> QED
    BY <2>1, <2>2 DEF CoversBefore
<1> QED
  BY <1>8

LEMMA OlderSame ==
  ASSUME OlderCovers, UNCHANGED <<rows, active, feed, older>>, older # None => more' /\ list'[1].id = list[1].id
  PROVE  OlderCovers'
<1>1. ASSUME older # None
      PROVE  /\ more' /\ older.before = list'[1].id
             /\ older.pc = "answered" => CoversBefore(older.page, Full(older.page), older.before)'
  <2>1. /\ more /\ older.before = list[1].id
        /\ older.pc = "answered" => CoversBefore(older.page, Full(older.page), older.before)
    BY <1>1 DEF OlderCovers
  <2>2. PICK page, cut, before : page = older.page /\ cut = Full(older.page) /\ before = older.before
    OBVIOUS
  <2>3. CoversBefore(page, cut, before) => CoversBefore(page, cut, before)'
    BY CoversSame
  <2> QED
    BY <1>1, <2>1, <2>2, <2>3 DEF CoversBefore, Distinct, Tells, Upcoming, Begins, Within, Shows, Changing, In, Full
<1> QED
  BY <1>1 DEF OlderCovers

\* While an older page is waited for, the list is of the open chat and begins at its time.
LEMMA WhileOlder ==
  ASSUME ChatPageAssumption, BaseInv, OfActive, ListCovers, OlderCovers, older # None
  PROVE  /\ active \in Chats /\ ~Loading /\ ~AwaitsPage /\ joined /\ Covers(list, more) /\ Optimistic /\ more
         /\ list # <<>> /\ older.before = list[1].id /\ older.before \in In(active)
<1>1. active \in Chats /\ active # NoChat /\ ~Loading
  BY OlderIs, ChatPageAssumption DEF OfActive, BaseInv, ChatPageAssumption
<1>2. ~AwaitsPage
  BY <1>1 DEF AwaitsPage, Loading
<1>3. joined /\ Covers(list, more) /\ Optimistic /\ more /\ older.before = list[1].id
  BY <1>1, <1>2 DEF ListCovers, OlderCovers
<1>4. list # <<>> /\ list[1].id # Temp /\ Tells(list)
  BY <1>3 DEF Covers, Begins
<1>5. 1 \in DOMAIN list
  BY <1>4 DEF BaseInv, TypeOK
<1> QED
  BY <1>1, <1>2, <1>3, <1>4, <1>5 DEF Tells


\* A row is inserted, or rows change their status, and the channel tells.
LEMMA ToldPublished ==
  ASSUME ChatPageAssumption, BaseInv, OfActive, Told, Orderly, rows' \in Seq(Row), feed' \in Seq(Event),
         NEW c \in Chats, NEW kind, NEW ids, NEW s, Brings(c, kind, ids, s),
         UNCHANGED <<active, list, more, older, joined>>,
         loads' \subseteq loads, \A l \in loads : l.mounted /\ l.pc # "marking" => l \in loads',
         \/ /\ kind = "UPDATE" /\ ids \subseteq In(c) /\ \A d : In(d)' = In(d)
            /\ \A i \in DOMAIN rows : rows'[i].status = IF i \in ids THEN s ELSE rows[i].status
         \/ \E n : /\ kind = "INSERT" /\ ids = {n} /\ \A d : In(d)' = IF d = c THEN In(d) \cup {n} ELSE In(d)
                   /\ rows'[n].status = "sent"
                   /\ \A i \in DOMAIN rows : rows'[i] = rows[i] /\ i < n
  PROVE  /\ FeedTells' /\ LoadCovers' /\ OlderCovers'
         /\ active # NoChat /\ ~AwaitsPage' => joined /\ GoesOn /\ Covers(list, more)' /\ Optimistic
<1>1. TypeOK /\ FeedFits /\ FeedTells /\ LoadCovers /\ ListCovers /\ OlderCovers
  BY DEF BaseInv, Told
<1>2. FeedTells'
  BY <1>1, TellsKept
<1>3. joined => GoesOn
  BY <1>1, BroughtGoesOn
<1>4. ASSUME NEW l \in loads', l.mounted
      PROVE  /\ l.pc = "asked" => Cardinality({k \in DOMAIN feed' : feed'[k].kind = "INSERT"}) <= PageSize
             /\ l.pc = "answered" => Covers(l.page, Full(l.page))'
  <2>1. l \in loads
    BY <1>4
  <2>2. /\ l.pc = "asked" => Cardinality({k \in DOMAIN feed : feed[k].kind = "INSERT"}) <= PageSize
        /\ l.pc = "answered" => Covers(l.page, Full(l.page)) /\ joined
    BY <1>1, <1>4, <2>1 DEF LoadCovers, OfActive
  <2>3. ASSUME l.pc = "asked"
        PROVE  Cardinality({k \in DOMAIN feed' : feed'[k].kind = "INSERT"}) <= PageSize
    <3>1. AwaitsPage
      BY <1>4, <2>1, <2>3 DEF AwaitsPage
    <3>2. CASE feed' # feed
      BY <3>1, <3>2 DEF Orderly
    <3>3. CASE feed' = feed
      BY <2>2, <2>3, <3>3
    <3> QED
      BY <3>2, <3>3
  <2>4. ASSUME l.pc = "answered"
        PROVE  Covers(l.page, Full(l.page))'
    <3>1. PICK page, cut : page = l.page /\ cut = Full(l.page)
      OBVIOUS
    <3>2. page \in Seq(Entry) /\ Covers(page, cut) /\ GoesOn
      BY <1>1, <1>3, <2>1, <2>2, <2>4, <3>1, LoadIs
    <3>3. Covers(page, cut)'
      BY <3>2, CoversKept
    <3> QED
      BY <3>1, <3>3
  <2> QED
    BY <2>3, <2>4
<1>5. LoadCovers'
  BY <1>4 DEF LoadCovers
<1>6. ASSUME active # NoChat, ~AwaitsPage'
      PROVE  joined /\ GoesOn /\ Covers(list, more)' /\ Optimistic
  <2>1. ~AwaitsPage
    BY <1>6 DEF AwaitsPage
  <2>2. joined /\ Covers(list, more) /\ Optimistic
    BY <1>1, <1>6, <2>1 DEF ListCovers
  <2>3. PICK page, cut : page = list /\ cut = more
    OBVIOUS
  <2>4. page \in Seq(Entry) /\ Covers(page, cut) /\ GoesOn
    BY <1>1, <1>3, <2>2, <2>3 DEF TypeOK
  <2>5. Covers(page, cut)'
    BY <2>4, CoversKept
  <2>6. Covers(list, more)'
    BY <2>3, <2>5, ListIs
  <2> QED
    BY <2>2, <2>4, <2>6
<1>7. ASSUME older # None
      PROVE  /\ more' /\ older.before = list'[1].id
             /\ older.pc = "answered" => CoversBefore(older.page, Full(older.page), older.before)'
  <2>1. joined /\ more /\ older.before = list[1].id /\ older.before \in In(active)
    BY <1>1, <1>7, WhileOlder
  <2>2. PICK page, cut, before : page = older.page /\ cut = Full(older.page) /\ before = older.before
    OBVIOUS
  <2>3. page \in Seq(Entry) /\ before \in In(active) /\ GoesOn
    BY <1>1, <1>3, <1>7, <2>1, <2>2, OlderIs
  <2>4. older.pc = "answered" => CoversBefore(page, cut, before)
    BY <1>1, <1>7, <2>2 DEF OlderCovers
  <2>5. older.pc = "answered" => CoversBefore(page, cut, before)'
    BY <2>3, <2>4, CoversBeforeKept
  <2>6. CoversBefore(page, cut, before)' => CoversBefore(older.page, Full(older.page), older.before)'
    BY <2>2, OlderPageIs
  <2> QED
    BY <2>1, <2>5, <2>6
<1>8. OlderCovers'
  BY <1>7 DEF OlderCovers
<1> QED
  BY <1>2, <1>5, <1>6, <1>8

\* The same with no send stored meanwhile.
LEMMA ToldBesides ==
  ASSUME BaseInv, UNCHANGED <<active, list, more, send, joined>>, FeedTells', LoadCovers', OlderCovers',
         active # NoChat /\ ~AwaitsPage' => joined /\ GoesOn /\ Covers(list, more)' /\ Optimistic
  PROVE  Told'
<1>1. ASSUME active # NoChat, ~AwaitsPage'
      PROVE  Optimistic'
  <2>1. PICK i : i = send.id
    OBVIOUS
  <2>2. Shows(list, Temp) => send # None /\ send.chat = active /\ (send.pc = "stored" => Arriving(i) /\ ~Shows(list, i))
    BY <1>1, <2>1 DEF Optimistic
  <2>3. GoesOn
    BY <1>1
  <2>4. ASSUME Shows(list, Temp), send.pc = "stored"
        PROVE  Arriving(i)'
    <3>1. i \in In(active)
      BY <2>1, <2>2, <2>4 DEF BaseInv
    <3> QED
      BY <2>2, <2>3, <2>4, <3>1 DEF GoesOn
  <2> QED
    BY <2>1, <2>2, <2>4 DEF Optimistic, Shows, Arriving
<1>2. ListCovers'
  BY <1>1 DEF ListCovers
<1> QED
  BY <1>2 DEF Told

LEMMA ToldMarks ==
  ASSUME ChatPageAssumption, BaseInv, OfActive, Told, Orderly, NEW c \in Chats, NEW s \in DOMAIN Rank, NEW ids,
         ids \subseteq In(c), \A i \in ids : Rank[rows[i].status] < Rank[s], SetStatus(c, ids, s),
         UNCHANGED <<active, list, more, older, send, joined>>,
         loads' \subseteq loads, \A l \in loads : l.mounted /\ l.pc # "marking" => l \in loads'
  PROVE  Told'
<1>1. TypeOK
  BY DEF BaseInv
<1>2. /\ rows' \in Seq(Row) /\ feed' \in Seq(Event) /\ Brings(c, "UPDATE", ids, s) /\ \A d : In(d)' = In(d)
      /\ \A i \in DOMAIN rows : rows'[i].status = IF i \in ids THEN s ELSE rows[i].status
  BY <1>1, Marked
<1>3. /\ FeedTells' /\ LoadCovers' /\ OlderCovers'
      /\ active # NoChat /\ ~AwaitsPage' => joined /\ GoesOn /\ Covers(list, more)' /\ Optimistic
  BY <1>2, ToldPublished
<1> QED
  BY <1>3, ToldBesides

LEMMA ToldPeerMarks ==
  ASSUME ChatPageAssumption, BaseInv, OfActive, Told, Orderly, NEW c \in Chats, NEW s \in DOMAIN Rank, PeerMarks(c, s)
  PROVE  Told'
BY ToldMarks, BelowRows DEF PeerMarks, requests

LEMMA ToldServe ==
  ASSUME ChatPageAssumption, BaseInv, OfActive, Told, Orderly, NEW a \in asks, Serve(a)
  PROVE  Told'
<1>1. a.chat \in Chats /\ a.status \in DOMAIN Rank
  BY Ranks DEF BaseInv, TypeOK
<1>2. PICK c, s : c = a.chat /\ s = a.status
  OBVIOUS
<1>3. /\ SetStatus(c, Below(Incoming(c), s), s)
      /\ UNCHANGED <<active, list, more, loads, older, send, joined>>
  BY <1>2 DEF Serve, requests
<1> QED
  BY <1>1, <1>2, <1>3, ToldMarks, BelowRows

LEMMA ToldLoadMark ==
  ASSUME ChatPageAssumption, BaseInv, OfActive, Told, Orderly, NEW l \in loads, LoadMark(l)
  PROVE  Told'
<1>1. l.chat \in Chats /\ "seen" \in DOMAIN Rank
  BY Ranks DEF BaseInv, TypeOK, Load
<1>2. PICK c : c = l.chat
  OBVIOUS
<1>3. /\ SetStatus(c, Below(Incoming(c), "seen"), "seen") /\ loads' \subseteq loads
      /\ UNCHANGED <<active, list, more, older, send, joined>>
      /\ \A m \in loads : m.mounted /\ m.pc # "marking" => m \in loads'
  BY <1>2 DEF LoadMark
<1> QED
  BY <1>1, <1>2, <1>3, ToldMarks, BelowRows

LEMMA ToldInserted ==
  ASSUME ChatPageAssumption, BaseInv, OfActive, Told, Orderly, NEW c \in Chats, NEW mine \in BOOLEAN, Insert(c, mine),
         UNCHANGED <<active, list, more, loads, older, joined>>, NEW n, n = Len(rows) + 1
  PROVE  /\ FeedTells' /\ LoadCovers' /\ OlderCovers' /\ Brings(c, "INSERT", {n}, "sent")
         /\ active # NoChat /\ ~AwaitsPage' => joined /\ GoesOn /\ Covers(list, more)' /\ Optimistic
         /\ \A i \in DOMAIN rows : i \in Nat /\ i < n
<1>1. TypeOK
  BY DEF BaseInv
<1>2. /\ rows' \in Seq(Row) /\ feed' \in Seq(Event) /\ Brings(c, "INSERT", {n}, "sent")
      /\ \A d : In(d)' = IF d = c THEN In(d) \cup {n} ELSE In(d)
      /\ rows'[n].status = "sent" /\ \A i \in DOMAIN rows : rows'[i] = rows[i] /\ i < n
  BY <1>1, Inserted
<1>3. /\ FeedTells' /\ LoadCovers' /\ OlderCovers'
      /\ active # NoChat /\ ~AwaitsPage' => joined /\ GoesOn /\ Covers(list, more)' /\ Optimistic
  BY <1>2, ToldPublished
<1>4. \A i \in DOMAIN rows : i \in Nat
  BY <1>1, RowsOfChat
<1> QED
  BY <1>2, <1>3, <1>4

LEMMA ToldPeerSends ==
  ASSUME ChatPageAssumption, BaseInv, OfActive, Told, Orderly, NEW c \in Chats, PeerSends(c)
  PROVE  Told'
<1>1. Insert(c, FALSE) /\ UNCHANGED <<active, list, more, loads, older, send, joined>>
  BY DEF PeerSends, requests
<1>2. PICK n : n = Len(rows) + 1
  OBVIOUS
<1>3. /\ FeedTells' /\ LoadCovers' /\ OlderCovers'
      /\ active # NoChat /\ ~AwaitsPage' => joined /\ GoesOn /\ Covers(list, more)' /\ Optimistic
  BY <1>1, <1>2, ToldInserted
<1> QED
  BY <1>1, <1>3, ToldBesides

\* The optimistic message is stored: its row is announced, and not shown yet.
LEMMA ToldSendStore ==
  ASSUME ChatPageAssumption, BaseInv, OfActive, Told, Orderly, SendStore
  PROVE  Told'
<1>1. /\ TypeOK /\ send.pc = "asked" /\ Insert(send.chat, TRUE)
      /\ send' = [send EXCEPT !.pc = "stored", !.id = Len(rows) + 1]
      /\ UNCHANGED <<active, list, more, loads, older, joined>>
  BY DEF SendStore, BaseInv
<1>2. send # None
  BY <1>1 DEF None
<1>3. PICK c, n : c = send.chat /\ n = Len(rows) + 1
  OBVIOUS
<1>4. c \in Chats /\ send = [pc |-> send.pc, chat |-> c, id |-> send.id]
  BY <1>1, <1>2, <1>3, SendingIs
<1>5. send'.chat = c /\ send'.id = n /\ send' # None
  <2>1. send = [f \in {"pc", "chat", "id"} |-> send[f]] /\ send["chat"] = c
    BY <1>4
  <2> QED
    BY <1>1, <1>3, <2>1 DEF None
<1>6. /\ FeedTells' /\ LoadCovers' /\ OlderCovers' /\ Brings(c, "INSERT", {n}, "sent")
      /\ active # NoChat /\ ~AwaitsPage' => joined /\ GoesOn /\ Covers(list, more)' /\ Optimistic
      /\ \A i \in DOMAIN rows : i \in Nat /\ i < n
  BY <1>1, <1>3, <1>4, ToldInserted
<1>7. ASSUME active # NoChat, ~AwaitsPage'
      PROVE  Optimistic'
  <2>1. joined /\ Optimistic /\ Covers(list, more)'
    BY <1>6, <1>7
  <2>2. ASSUME Shows(list, Temp)
        PROVE  c = active /\ Arriving(n)'
    <3>1. c = active
      BY <1>3, <2>1, <2>2 DEF Optimistic
    <3>2. \E k \in DOMAIN feed' : feed'[k].kind = "INSERT" /\ feed'[k].id = n
      BY <1>6, <2>1, <3>1 DEF Brings
    <3> QED
      BY <3>1, <3>2 DEF Arriving
  <2>3. ~Shows(list, n)
    <3>1. SUFFICES ASSUME Shows(list, n) PROVE FALSE
      OBVIOUS
    <3>2. PICK k \in DOMAIN list : list[k].id = n
      BY <3>1 DEF Shows
    <3>3. n \in Nat /\ n # Temp
      BY <1>1, <1>3, RowsOfChat DEF Temp
    <3>4. list[k].id \in DOMAIN rows
      BY <3>2, <3>3 DEF BaseInv, NeverAhead
    <3>5. n < n
      BY <1>6, <3>2, <3>4
    <3> QED
      BY <3>3, <3>5
  <2> QED
    BY <1>1, <1>5, <2>2, <2>3 DEF Optimistic, Shows, Arriving
<1>8. ListCovers'
  BY <1>1, <1>6, <1>7 DEF ListCovers
<1> QED
  BY <1>6, <1>8 DEF Told


\* The events are handled when no answer of the load or the older page is to come.
LEMMA WhenHandled ==
  ASSUME BaseInv, Told, Orderly, feed # <<>>, feed' = Tail(feed), UNCHANGED active
  PROVE  /\ active # NoChat /\ ~AwaitsPage /\ older.pc # "answered" /\ (send.pc = "stored" => Head(feed).id # send.id)
         /\ joined /\ Covers(list, more) /\ Optimistic /\ FeedTells
<1>1. feed \in Seq(Event) /\ active # NoChat
  BY DEF BaseInv, TypeOK
<1>2. Len(feed') < Len(feed)
  <2>1. Len(feed) \in Nat /\ Len(feed) # 0
    BY <1>1
  <2>2. Len(feed') = Len(feed) - 1
    BY <1>1
  <2> QED
    BY <2>1, <2>2
<1>3. ~AwaitsPage /\ older.pc # "answered" /\ (send.pc = "stored" => Head(feed).id # send.id)
  BY <1>2 DEF Orderly
<1> QED
  BY <1>1, <1>3 DEF Told, ListCovers

LEMMA ToldHandled ==
  ASSUME BaseInv, Told, Orderly, feed # <<>>, feed' = Tail(feed), UNCHANGED <<rows, active, more, loads, older, send, joined>>,
         FeedTells', Covers(list, more)', Optimistic', more => list' # <<>> /\ list'[1].id = list[1].id
  PROVE  Told'
<1>1. /\ active # NoChat /\ ~AwaitsPage /\ older.pc # "answered" /\ joined
  BY WhenHandled
<1>2. LoadCovers'
  <2>1. \A l \in loads : l.mounted => l.pc = "marking"
    BY <1>1 DEF AwaitsPage
  <2> QED
    BY <2>1 DEF LoadCovers
<1>3. ListCovers'
  BY <1>1 DEF ListCovers
<1>4. OlderCovers'
  BY <1>1 DEF Told, OlderCovers
<1> QED
  BY <1>2, <1>3, <1>4 DEF Told

LEMMA ToldNewMessage ==
  ASSUME ChatPageAssumption, BaseInv, OfActive, Told, Orderly, NewMessage
  PROVE  Told'
<1>1. feed # <<>> /\ feed' = Tail(feed) /\ UNCHANGED <<rows, active, more, loads, older, send, joined>>
  BY DEF NewMessage, Handled, requests
<1>2. FeedTells' /\ Covers(list, more)' /\ Optimistic' /\ (more => list' # <<>> /\ list'[1] = list[1])
  BY <1>1, WhenHandled, ListOnNew
<1> QED
  BY <1>1, <1>2, ToldHandled

LEMMA ToldMessageUpdated ==
  ASSUME ChatPageAssumption, BaseInv, OfActive, Told, Orderly, MessageUpdated
  PROVE  Told'
<1>1. feed # <<>> /\ feed' = Tail(feed) /\ UNCHANGED <<rows, active, more, loads, older, send, joined>>
  BY DEF MessageUpdated, Handled, requests
<1>2. FeedTells' /\ Covers(list, more)' /\ Optimistic' /\ (more => list' # <<>> /\ list'[1].id = list[1].id)
  BY <1>1, WhenHandled, ListOnUpdate
<1> QED
  BY <1>1, <1>2, ToldHandled

\* Steps of a load.
LEMMA ToldLoadRead ==
  ASSUME ChatPageAssumption, BaseInv, OfActive, Told, Orderly, NEW l \in loads, LoadRead(l)
  PROVE  Told'
<1>1. PICK page, k : page = PageOf(l.chat, MaxMessages + 1) /\ k = [l EXCEPT !.pc = "answered", !.page = page]
  OBVIOUS
<1>2. /\ TypeOK /\ l.pc = "asked" /\ l.mounted /\ loads' = (loads \ {l}) \cup {k}
      /\ UNCHANGED <<rows, active, list, more, older, send, joined, feed>>
  BY <1>1 DEF LoadRead, Replace, channel, BaseInv
<1>3. k.chat = l.chat /\ k.mounted /\ k.pc = "answered" /\ k.page = page
  <2>1. l = [chat |-> l.chat, mounted |-> l.mounted, pc |-> l.pc, page |-> l.page]
    BY <1>2, LoadIs
  <2>2. l = [f \in {"chat", "mounted", "pc", "page"} |-> l[f]]
    BY <2>1
  <2>3. k = [f \in {"chat", "mounted", "pc", "page"} |-> IF f = "page" THEN page ELSE IF f = "pc" THEN "answered" ELSE l[f]]
    BY <1>1, <2>2
  <2> QED
    BY <1>2, <2>3
<1>4. l.chat = active /\ active \in Chats /\ page = PageOf(active, MaxMessages + 1)
      /\ Cardinality({j \in DOMAIN feed : feed[j].kind = "INSERT"}) <= PageSize
  <2>1. l.chat = active /\ l.chat \in Chats
    BY <1>2, LoadIs DEF OfActive
  <2>2. page = PageOf(active, MaxMessages + 1)
    BY <1>1, <2>1
  <2> QED
    BY <1>2, <2>1, <2>2 DEF Told, LoadCovers
<1>5. Covers(page, Full(page))
  BY <1>2, <1>4, LoadRows DEF Told
<1>6. FeedTells'
  BY <1>2, FeedSame DEF Told
<1>7. LoadCovers'
  <2>1. PICK cut : cut = Full(page)
    OBVIOUS
  <2>2. Covers(page, cut)'
    BY <1>2, <1>5, <2>1, CoversSame
  <2>3. Covers(k.page, Full(k.page))'
    BY <1>3, <2>1, <2>2
  <2>4. ASSUME NEW m \in loads', m.mounted
        PROVE  m = k
    BY <1>2, <2>4 DEF OfActive
  <2> QED
    BY <1>3, <2>3, <2>4 DEF LoadCovers
<1>8. ListCovers'
  <2>1. AwaitsPage'
    BY <1>2, <1>3 DEF AwaitsPage
  <2> QED
    BY <2>1 DEF ListCovers
<1>9. OlderCovers'
  <2>1. older = None
    BY <1>2 DEF OfActive, Loading
  <2> QED
    BY <1>2, <2>1 DEF OlderCovers
<1> QED
  BY <1>6, <1>7, <1>8, <1>9 DEF Told

LEMMA ToldLoadAnswer ==
  ASSUME ChatPageAssumption, BaseInv, OfActive, Told, Orderly, NEW l \in loads, LoadAnswer(l)
  PROVE  Told'
<1>1. PICK page, k : page = l.page /\ k = [l EXCEPT !.pc = "marking", !.page = <<>>]
  OBVIOUS
<1>2. /\ TypeOK /\ l.pc = "answered" /\ l.mounted /\ loads' = (loads \ {l}) \cup {k}
      /\ list' = page /\ more' = (Len(page) = PageSize)
      /\ UNCHANGED <<rows, active, older, send, joined, feed>>
  BY <1>1 DEF LoadAnswer, Replace, channel, BaseInv
<1>3. k.pc = "marking"
  <2>1. l = [chat |-> l.chat, mounted |-> l.mounted, pc |-> l.pc, page |-> l.page]
    BY <1>2, LoadIs
  <2>2. l = [f \in {"chat", "mounted", "pc", "page"} |-> l[f]]
    BY <2>1
  <2>3. k = [f \in {"chat", "mounted", "pc", "page"} |-> IF f = "page" THEN <<>> ELSE IF f = "pc" THEN "marking" ELSE l[f]]
    BY <1>1, <2>2
  <2> QED
    BY <2>3
<1>4. Covers(page, Full(page)) /\ joined
  BY <1>1, <1>2 DEF Told, LoadCovers, OfActive
<1>5. FeedTells'
  BY <1>2, FeedSame DEF Told
<1>6. LoadCovers'
  BY <1>2, <1>3, LoadsSame DEF Told
<1>7. ListCovers'
  <2>1. PICK cut : cut = Full(page)
    OBVIOUS
  <2>2. Covers(page, cut)'
    BY <1>2, <1>4, <2>1, CoversSame
  <2>3. list' = page /\ more' = cut
    BY <1>2, <2>1 DEF Full
  <2>4. Covers(list, more)'
    BY <2>2, <2>3, ListIs
  <2>5. ~Shows(list, Temp)'
    <3>1. \A j \in DOMAIN page : page[j].id \in In(l.chat)
      BY <1>1 DEF BaseInv, PageFits
    <3>2. PICK c : c = l.chat
      OBVIOUS
    <3>3. \A i \in In(c) : i # Temp
      BY <1>2, RowsOfChat
    <3> QED
      BY <1>2, <3>1, <3>2, <3>3 DEF Shows
  <2> QED
    BY <1>2, <1>4, <2>4, <2>5 DEF ListCovers, Optimistic
<1>8. OlderCovers'
  <2>1. older = None
    BY <1>2 DEF OfActive, Loading
  <2> QED
    BY <1>2, <2>1 DEF OlderCovers
<1> QED
  BY <1>5, <1>6, <1>7, <1>8 DEF Told

\* A load that is not waited for goes.
LEMMA ToldLoadGone ==
  ASSUME ChatPageAssumption, BaseInv, OfActive, Told, Orderly, NEW l \in loads, ~l.mounted \/ l.pc = "marking",
         loads' = loads \ {l}, UNCHANGED <<rows, active, list, more, older, send, joined, feed>>
  PROVE  Told'
<1>1. AwaitsPage => AwaitsPage'
  BY DEF AwaitsPage
<1>2. LoadCovers'
  BY LoadsSame DEF Told
<1>3. ListCovers'
  BY <1>1, ListSame DEF Told
<1>4. FeedTells'
  BY FeedSame DEF Told
<1>5. OlderCovers'
  BY OlderSame DEF Told, OlderCovers
<1> QED
  BY <1>2, <1>3, <1>4, <1>5 DEF Told

\* A send or an older page is asked for, answered or gone, and nothing else.
LEMMA ToldOnList ==
  ASSUME BaseInv, Told, UNCHANGED <<rows, active, loads, joined, feed>>,
         active # NoChat /\ ~AwaitsPage => Covers(list, more)' /\ Optimistic', OlderCovers'
  PROVE  Told'
<1>1. FeedTells'
  BY FeedSame DEF Told
<1>2. LoadCovers'
  BY LoadsSame DEF Told
<1>3. AwaitsPage' <=> AwaitsPage
  BY DEF AwaitsPage
<1>4. ListCovers'
  BY <1>3 DEF Told, ListCovers
<1> QED
  BY <1>1, <1>2, <1>4 DEF Told

LEMMA ToldOnSend ==
  ASSUME ChatPageAssumption, BaseInv, OfActive, Told, UNCHANGED <<rows, active, more, loads, older, joined, feed>>,
         active # NoChat /\ ~AwaitsPage =>
           Covers(list, more)' /\ Optimistic' /\ (more => list' # <<>> /\ list'[1].id = list[1].id)
  PROVE  Told'
<1>1. OlderCovers'
  <2>1. older # None => more' /\ list'[1].id = list[1].id
    <3>1. older # None => active # NoChat /\ ~AwaitsPage /\ more
      BY WhileOlder, ChatPageAssumption DEF Told, ChatPageAssumption
    <3> QED
      BY <3>1
  <2> QED
    BY <2>1, OlderSame DEF Told
<1> QED
  BY <1>1, ToldOnList

LEMMA ToldSendAsk ==
  ASSUME ChatPageAssumption, BaseInv, OfActive, Told, SendAsk
  PROVE  Told'
<1>1. UNCHANGED <<rows, active, more, loads, older, joined, feed>>
  BY DEF SendAsk, channel
<1>2. active # NoChat /\ ~AwaitsPage =>
        Covers(list, more)' /\ Optimistic' /\ (more => list' # <<>> /\ list'[1].id = list[1].id)
  BY ListOnSendAsk DEF Told, ListCovers
<1> QED
  BY <1>1, <1>2, ToldOnSend

LEMMA ToldSendAnswer ==
  ASSUME ChatPageAssumption, BaseInv, OfActive, Told, SendAnswer
  PROVE  Told'
<1>1. UNCHANGED <<rows, active, more, loads, older, joined, feed>>
  BY DEF SendAnswer, channel
<1>2. active # NoChat /\ ~AwaitsPage =>
        Covers(list, more)' /\ Optimistic' /\ (more => list' # <<>> /\ list'[1].id = list[1].id)
  BY ListOnSendAnswer DEF Told, ListCovers
<1> QED
  BY <1>1, <1>2, ToldOnSend

LEMMA ToldSendFail ==
  ASSUME ChatPageAssumption, BaseInv, OfActive, Told, SendFail
  PROVE  Told'
<1>1. UNCHANGED <<rows, active, more, loads, older, joined, feed>>
  BY DEF SendFail, channel
<1>2. active # NoChat /\ ~AwaitsPage =>
        Covers(list, more)' /\ Optimistic' /\ (more => list' # <<>> /\ list'[1].id = list[1].id)
  BY ListOnSendFail DEF Told, ListCovers
<1> QED
  BY <1>1, <1>2, ToldOnSend


\* The list is as it was: so is what it shows.
LEMMA ListStill ==
  ASSUME Told, UNCHANGED <<rows, active, list, more, send, feed>>
  PROVE  active # NoChat /\ ~AwaitsPage => Covers(list, more)' /\ Optimistic'
<1>1. PICK page, cut : page = list /\ cut = more
  OBVIOUS
<1>2. Covers(page, cut) => Covers(page, cut)'
  BY CoversSame
<1>3. Covers(list, more) => Covers(list, more)'
  BY <1>1, <1>2, ListIs
<1>4. Optimistic => Optimistic'
  BY DEF Optimistic, Shows, Arriving
<1> QED
  BY <1>3, <1>4 DEF Told, ListCovers

LEMMA ToldOlderAsk ==
  ASSUME ChatPageAssumption, BaseInv, OfActive, Told, Orderly, OlderAsk
  PROVE  Told'
<1>1. /\ TypeOK /\ active # NoChat /\ older = None /\ more /\ list # <<>>
      /\ older' = [pc |-> "asked", chat |-> active, page |-> <<>>,
                   before |-> IF list[1].id = Temp THEN MaxMessages + 1 ELSE list[1].id]
      /\ UNCHANGED <<rows, active, list, more, loads, send, joined, feed>>
  BY DEF OlderAsk, channel, BaseInv
<1>2. ~AwaitsPage
  <2>1. older' # None
    BY <1>1 DEF None
  <2>2. ~Loading
    BY <1>1, <2>1 DEF Orderly
  <2> QED
    BY <2>2 DEF AwaitsPage, Loading
<1>3. list[1].id # Temp
  BY <1>1, <1>2 DEF Told, ListCovers, Covers, Begins
<1>4. OlderCovers'
  BY <1>1, <1>3 DEF OlderCovers
<1> QED
  BY <1>1, <1>4, ListStill, ToldOnList

LEMMA ToldOlderRead ==
  ASSUME ChatPageAssumption, BaseInv, OfActive, Told, Orderly, OlderRead
  PROVE  Told'
<1>1. PICK c, before, page : c = older.chat /\ before = older.before /\ page = PageOf(c, before)
  OBVIOUS
<1>2. /\ TypeOK /\ older.pc = "asked" /\ older' = [older EXCEPT !.pc = "answered", !.page = page]
      /\ UNCHANGED <<rows, active, list, more, loads, send, joined, feed>>
  BY <1>1 DEF OlderRead, channel, BaseInv
<1>3. older # None
  BY <1>2 DEF None
<1>4. active \in Chats /\ more /\ before = list[1].id /\ before \in In(active)
  BY <1>1, <1>3, WhileOlder DEF Told
<1>5. older'.pc = "answered" /\ older'.page = page /\ older'.before = before /\ older' # None
  <2>1. older = [pc |-> older.pc, chat |-> older.chat, before |-> older.before, page |-> older.page]
    BY <1>2, <1>3, OlderIs
  <2>2. older = [f \in {"pc", "chat", "before", "page"} |-> older[f]]
    BY <2>1
  <2>3. older' = [f \in {"pc", "chat", "before", "page"} |-> IF f = "page" THEN page ELSE IF f = "pc" THEN "answered" ELSE older[f]]
    BY <1>2, <2>2
  <2>4. older'["pc"] = "answered" /\ older'["page"] = page /\ older'["before"] = older["before"]
    BY <2>3
  <2>5. older'.pc = "answered" /\ older'.page = page /\ older'.before = before
    BY <1>1, <2>4
  <2> QED
    BY <2>5 DEF None
<1>6. page \in Seq(Entry) /\ CoversBefore(page, Full(page), before)
  <2>1. c = active /\ before \in Nat
    BY <1>1, <1>2, <1>3, <1>4, RowsOfChat DEF OfActive
  <2>2. page = PageOf(active, before)
    BY <1>1, <2>1
  <2> QED
    BY <1>2, <1>4, <2>1, <2>2, OlderRows
<1>7. CoversBefore(page, Full(page), before)'
  <2>1. PICK cut : cut = Full(page)
    OBVIOUS
  <2>2. CoversBefore(page, cut, before)'
    BY <1>2, <1>6, <2>1, CoversSame
  <2> QED
    BY <2>1, <2>2
<1>8. OlderCovers'
  <2>1. CoversBefore(older.page, Full(older.page), older.before)'
    BY <1>5, <1>7 DEF CoversBefore, Full, Distinct, Tells, Upcoming, Begins, Within, Shows, Changing, In
  <2> QED
    BY <1>2, <1>4, <1>5, <2>1 DEF OlderCovers
<1> QED
  BY <1>2, <1>8, ListStill, ToldOnList

LEMMA ToldOlderAnswer ==
  ASSUME ChatPageAssumption, BaseInv, OfActive, Told, Orderly, OlderAnswer
  PROVE  Told'
<1>1. PICK page, before, cut : page = older.page /\ before = older.before /\ cut = Full(page)
  OBVIOUS
<1>2. /\ TypeOK /\ older.pc = "answered" /\ list' = page \o list /\ more' = (Len(page) = PageSize) /\ older' = None
      /\ UNCHANGED <<rows, active, loads, send, joined, feed>>
  BY <1>1 DEF OlderAnswer, channel, BaseInv
<1>3. older # None
  BY <1>2 DEF None
<1>4. Covers(list, more) /\ Optimistic /\ more /\ before = list[1].id
  BY <1>1, <1>3, WhileOlder DEF Told
<1>5. page \in Seq(Entry) /\ cut \in BOOLEAN /\ more' = cut /\ CoversBefore(page, cut, before)
  <2>1. page \in Seq(Entry)
    BY <1>1, <1>2, <1>3, OlderIs
  <2>2. CoversBefore(page, cut, before)
    BY <1>1, <1>2, <1>3 DEF Told, OlderCovers
  <2>3. cut \in BOOLEAN /\ more' = cut
    BY <1>1, <1>2 DEF Full
  <2> QED
    BY <2>1, <2>2, <2>3
<1>6. Covers(list, more)' /\ Optimistic'
  BY <1>2, <1>4, <1>5, ListOnOlder
<1>7. OlderCovers'
  BY <1>2 DEF OlderCovers
<1> QED
  BY <1>2, <1>6, <1>7, ToldOnList

LEMMA ToldOlderFail ==
  ASSUME BaseInv, Told, OlderFail
  PROVE  Told'
<1>1. older' = None /\ UNCHANGED <<rows, active, list, more, loads, send, joined, feed>>
  BY DEF OlderFail, channel
<1>2. OlderCovers'
  BY <1>1 DEF OlderCovers
<1> QED
  BY <1>1, <1>2, ListStill, ToldOnList

LEMMA ToldJoin ==
  ASSUME ChatPageAssumption, BaseInv, OfActive, Told, Join
  PROVE  Told'
<1>1. active # NoChat /\ ~joined /\ joined' /\ UNCHANGED <<rows, active, list, more, loads, older, send, feed>>
  BY DEF Join, requests
<1>2. FeedTells'
  <2>1. feed' = <<>> /\ joined'
    BY <1>1 DEF Told, FeedTells
  <2> QED
    BY <2>1 DEF FeedTells, Arriving
<1>3. LoadCovers'
  BY <1>1, LoadsSame DEF Told
<1>4. ListCovers'
  <2>1. AwaitsPage
    BY <1>1 DEF Told, ListCovers
  <2> QED
    BY <1>1, <2>1 DEF ListCovers, AwaitsPage
<1>5. OlderCovers'
  BY <1>1, OlderSame DEF Told, OlderCovers
<1> QED
  BY <1>2, <1>3, <1>4, <1>5 DEF Told

\* Another chat is opened, or none: everything begins anew.
LEMMA ToldOpen ==
  ASSUME ChatPageAssumption, BaseInv, NEW c \in Chats, Open(c), older = None
  PROVE  Told' /\ OfActive'
<1>1. PICK new : new = [chat |-> c, mounted |-> TRUE, pc |-> "asked", page |-> <<>>]
  OBVIOUS
<1>2. /\ TypeOK /\ active' = c /\ loads' = Unmounted \cup {new} /\ joined' = FALSE /\ feed' = <<>>
      /\ UNCHANGED <<rows, list, more, older, send>>
  BY <1>1 DEF Open, BaseInv
<1>3. \A l \in loads' : l.mounted => l = new
  <2>1. ASSUME NEW l \in Unmounted
        PROVE  ~l.mounted
    <3>1. PICK m \in loads : l = [chat |-> m.chat, mounted |-> FALSE, pc |-> m.pc, page |-> m.page]
      BY <1>2, UnmountedIs
    <3> QED
      BY <3>1
  <2> QED
    BY <1>2, <2>1
<1>4. new.chat = c /\ new.mounted /\ new.pc = "asked" /\ new \in loads' /\ c # NoChat
  BY <1>1, <1>2, ChatPageAssumption DEF ChatPageAssumption
<1>5. FeedTells'
  BY <1>2 DEF FeedTells, Arriving
<1>6. LoadCovers'
  <2>1. PICK S : S = {k \in DOMAIN feed' : feed'[k].kind = "INSERT"}
    OBVIOUS
  <2>2. S = {}
    BY <1>2, <2>1
  <2>3. Cardinality(S) <= PageSize
    BY <2>2, FS_EmptySet, ChatPageAssumption DEF ChatPageAssumption
  <2> QED
    BY <1>3, <1>4, <2>1, <2>3 DEF LoadCovers
<1>7. ListCovers' /\ OlderCovers'
  BY <1>2, <1>4 DEF ListCovers, OlderCovers, AwaitsPage
<1>8. OfActive'
  BY <1>2, <1>3, <1>4 DEF OfActive
<1> QED
  BY <1>5, <1>6, <1>7, <1>8 DEF Told

LEMMA ToldClose ==
  ASSUME ChatPageAssumption, BaseInv, Close, older = None
  PROVE  Told' /\ OfActive'
<1>1. /\ TypeOK /\ active' = NoChat /\ loads' = Unmounted /\ list' = <<>> /\ joined' = FALSE /\ feed' = <<>>
      /\ UNCHANGED older
  BY DEF Close, BaseInv
<1>2. \A l \in loads' : ~l.mounted
  <2>1. ASSUME NEW l \in Unmounted
        PROVE  ~l.mounted
    <3>1. PICK m \in loads : l = [chat |-> m.chat, mounted |-> FALSE, pc |-> m.pc, page |-> m.page]
      BY <1>1, UnmountedIs
    <3> QED
      BY <3>1
  <2> QED
    BY <1>1, <2>1
<1>3. FeedTells'
  BY <1>1 DEF FeedTells, Arriving
<1>4. LoadCovers' /\ ListCovers' /\ OlderCovers'
  BY <1>1, <1>2 DEF LoadCovers, ListCovers, OlderCovers
<1>5. OfActive'
  BY <1>1, <1>2 DEF OfActive
<1> QED
  BY <1>3, <1>4, <1>5 DEF Told

LEMMA ToldStill ==
  ASSUME BaseInv, Told, UNCHANGED <<rows, active, list, more, loads, older, send, joined, feed>>
  PROVE  Told'
<1>1. OlderCovers'
  BY OlderSame DEF Told, OlderCovers
<1> QED
  BY <1>1, ListStill, ToldOnList


\* The steps of the loads, of the table and the channel, of the older page, and of the send.
LEMMA OfActiveLoads ==
  ASSUME ChatPageAssumption, BaseInv, OfActive, Orderly, NEW l \in loads,
         LoadRead(l) \/ LoadAnswer(l) \/ LoadIgnored(l) \/ LoadMark(l) \/ LoadFail(l)
  PROVE  OfActive'
<1>1. TypeOK /\ UNCHANGED <<active, older>>
  BY DEF LoadRead, LoadAnswer, LoadIgnored, LoadMark, LoadFail, channel, BaseInv
<1>2. \A m \in loads' : m.mounted /\ m.pc = "answered" => joined'
  BY DEF Orderly
<1>3. CASE LoadRead(l)
  <2>1. PICK page, k : page = PageOf(l.chat, MaxMessages + 1) /\ k = [l EXCEPT !.pc = "answered", !.page = page]
    OBVIOUS
  <2>2. l.mounted /\ loads' = (loads \ {l}) \cup {k} /\ list' = list
    BY <1>3, <2>1 DEF LoadRead, Replace
  <2>3. k.chat = l.chat
    <3>1. l = [chat |-> l.chat, mounted |-> l.mounted, pc |-> l.pc, page |-> l.page]
      BY <1>1, LoadIs
    <3>2. l = [f \in {"chat", "mounted", "pc", "page"} |-> l[f]]
      BY <3>1
    <3>3. k = [f \in {"chat", "mounted", "pc", "page"} |-> IF f = "page" THEN page ELSE IF f = "pc" THEN "answered" ELSE l[f]]
      BY <2>1, <3>2
    <3> QED
      BY <3>3
  <2>4. active = NoChat => list' = <<>>
    BY <2>2 DEF OfActive
  <2> QED
    BY <1>1, <1>2, <2>2, <2>3, <2>4, OfActiveKept
<1>4. CASE LoadAnswer(l)
  <2>1. PICK k : k = [l EXCEPT !.pc = "marking", !.page = <<>>]
    OBVIOUS
  <2>2. l.mounted /\ loads' = (loads \ {l}) \cup {k}
    BY <1>4, <2>1 DEF LoadAnswer, Replace
  <2>3. k.chat = l.chat
    <3>1. l = [chat |-> l.chat, mounted |-> l.mounted, pc |-> l.pc, page |-> l.page]
      BY <1>1, LoadIs
    <3>2. l = [f \in {"chat", "mounted", "pc", "page"} |-> l[f]]
      BY <3>1
    <3>3. k = [f \in {"chat", "mounted", "pc", "page"} |-> IF f = "page" THEN <<>> ELSE IF f = "pc" THEN "marking" ELSE l[f]]
      BY <2>1, <3>2
    <3> QED
      BY <3>3
  <2>4. active # NoChat
    BY <1>1, <2>2, LoadIs, ChatPageAssumption DEF OfActive, ChatPageAssumption
  <2> QED
    BY <1>1, <1>2, <2>2, <2>3, <2>4, OfActiveKept
<1>5. CASE LoadIgnored(l) \/ LoadMark(l) \/ LoadFail(l)
  <2>1. loads' \subseteq loads /\ list' = list
    BY <1>5 DEF LoadIgnored, LoadMark, LoadFail
  <2>2. active = NoChat => list' = <<>>
    BY <2>1 DEF OfActive
  <2> QED
    BY <1>1, <1>2, <2>1, <2>2, OfActiveKept
<1> QED
  BY <1>3, <1>4, <1>5

LEMMA OfActiveStill ==
  ASSUME OfActive, Orderly, UNCHANGED <<active, list, loads, older>>
  PROVE  OfActive'
<1>1. \A m \in loads' : m.mounted /\ m.pc = "answered" => joined'
  BY DEF Orderly
<1>2. active = NoChat => list' = <<>>
  BY DEF OfActive
<1> QED
  BY <1>1, <1>2, OfActiveKept

LEMMA OfActiveList ==
  ASSUME ChatPageAssumption, BaseInv, OfActive, Orderly,
         NewMessage \/ MessageUpdated \/ OlderAsk \/ OlderRead \/ OlderAnswer \/ OlderFail \/ SendAsk \/ SendAnswer \/ SendFail
  PROVE  OfActive'
<1>1. TypeOK /\ UNCHANGED <<active, loads>>
  BY DEF NewMessage, MessageUpdated, Handled, OlderAsk, OlderRead, OlderAnswer, OlderFail, SendAsk, SendAnswer, SendFail,
         requests, BaseInv
<1>2. \A m \in loads' : m.mounted /\ m.pc = "answered" => joined'
  BY DEF Orderly
<1>3. older' = None \/ (older # None /\ older'.chat = older.chat) \/ (~Loading /\ older'.chat = active)
  <2>1. CASE OlderAsk
    <3>1. older = None /\ older' # None /\ older'.chat = active
      BY <2>1 DEF OlderAsk, None
    <3> QED
      BY <3>1 DEF Orderly
  <2>2. CASE OlderRead
    <3>1. PICK page : page = PageOf(older.chat, older.before)
      OBVIOUS
    <3>2. older' = [older EXCEPT !.pc = "answered", !.page = page] /\ older # None
      BY <2>2, <3>1 DEF OlderRead, None
    <3>3. older = [pc |-> older.pc, chat |-> older.chat, before |-> older.before, page |-> older.page]
      BY <1>1, <3>2, OlderIs
    <3>4. older = [f \in {"pc", "chat", "before", "page"} |-> older[f]]
      BY <3>3
    <3>5. older' = [f \in {"pc", "chat", "before", "page"} |-> IF f = "page" THEN page ELSE IF f = "pc" THEN "answered" ELSE older[f]]
      BY <3>2, <3>4
    <3>6. older'["chat"] = older["chat"]
      BY <3>5
    <3> QED
      BY <3>2, <3>6
  <2>3. CASE OlderAnswer \/ OlderFail
    BY <2>3 DEF OlderAnswer, OlderFail
  <2>4. CASE NewMessage \/ MessageUpdated \/ SendAsk \/ SendAnswer \/ SendFail
    BY <2>4 DEF NewMessage, MessageUpdated, Handled, SendAsk, SendAnswer, SendFail, requests
  <2> QED
    BY <2>1, <2>2, <2>3, <2>4
<1>4. active = NoChat => list' = <<>>
  <2>1. ASSUME active = NoChat
        PROVE  list' = <<>>
    <3>1. list = <<>> /\ feed = <<>> /\ older = None
      <4>1. older # None => older.chat = active /\ older.chat \in Chats
        BY <1>1, OlderIs DEF OfActive
      <4> QED
        BY <1>1, <2>1, <4>1, ChatPageAssumption DEF OfActive, TypeOK, ChatPageAssumption
    <3>2. CASE OlderRead \/ OlderFail
      BY <3>1, <3>2 DEF OlderRead, OlderFail
    <3>3. CASE SendAnswer
      <4>1. PICK sent : sent = [id |-> send.id, status |-> "sent"]
        OBVIOUS
      <4>2. list' \in Seq(Entry) /\ DOMAIN list' = DOMAIN list
        BY <1>1, <3>3, <4>1, AnsweredList
      <4> QED
        BY <3>1, <4>2
    <3>4. CASE SendFail
      BY <3>1, <3>4 DEF SendFail
    <3>5. ~NewMessage /\ ~MessageUpdated /\ ~OlderAsk /\ ~SendAsk /\ ~OlderAnswer
      BY <2>1, <3>1 DEF NewMessage, MessageUpdated, OlderAsk, SendAsk, OlderAnswer, None
    <3> QED
      BY <3>2, <3>3, <3>4, <3>5
  <2> QED
    BY <2>1
<1> QED
  BY <1>1, <1>2, <1>3, <1>4, OfActiveKept

\* The conversation stays open: every step but a switch of chats.
LEMMA OfActiveStays ==
  ASSUME ChatPageAssumption, BaseInv, OfActive, Next, Orderly, UNCHANGED active
  PROVE  OfActive'
<1>1. ~Close /\ \A c \in Chats : ~Open(c)
  BY DEF Close, Open
<1>2. CASE (\E c \in Chats : PeerSends(c)) \/ (\E c \in Chats, s \in {"delivered", "seen"} : PeerMarks(c, s)) \/ Join
           \/ Serves \/ SendStore \/ (\E a \in asks : AskLost(a)) \/ Disconnect
  <2>1. UNCHANGED <<active, list, loads, older>>
    BY <1>2 DEF PeerSends, PeerMarks, Join, Serves, Serve, SendStore, AskLost, Disconnect, requests
  <2> QED
    BY <2>1, OfActiveStill
<1>3. CASE Loads \/ \E l \in loads : LoadFail(l)
  BY <1>3, OfActiveLoads DEF Loads
<1>4. CASE NewMessage \/ MessageUpdated \/ OlderAsk \/ OlderRead \/ OlderAnswer \/ OlderFail \/ SendAsk \/ SendAnswer \/ SendFail
  BY <1>4, OfActiveList
<1> QED
  BY <1>1, <1>2, <1>3, <1>4 DEF Next, Steps, Faults

LEMMA ToldStays ==
  ASSUME ChatPageAssumption, BaseInv, OfActive, Told, Next, Orderly, UNCHANGED active, joined => joined',
         \A l \in loads : l.mounted /\ l.pc # "marking" => ~LoadFail(l)
  PROVE  Told'
<1>1. ~Close /\ (\A c \in Chats : ~Open(c)) /\ ~Disconnect
  BY DEF Close, Open, Disconnect
<1>2. {"delivered", "seen"} \subseteq DOMAIN Rank
  BY Ranks
<1>3. ASSUME NEW l \in loads, LoadIgnored(l) \/ LoadFail(l)
      PROVE  Told'
  <2>1. /\ ~l.mounted \/ l.pc = "marking"
        /\ loads' = loads \ {l} /\ UNCHANGED <<rows, active, list, more, older, send, joined, feed>>
    BY <1>3 DEF LoadIgnored, LoadFail, channel
  <2> QED
    BY <2>1, ToldLoadGone
<1>4. CASE Loads
  BY <1>3, <1>4, ToldLoadRead, ToldLoadAnswer, ToldLoadMark DEF Loads
<1>5. CASE \E a \in asks : AskLost(a)
  <2>1. UNCHANGED <<rows, active, list, more, loads, older, send, joined, feed>>
    BY <1>5 DEF AskLost, requests, channel
  <2> QED
    BY <2>1, ToldStill
<1>6. CASE Steps /\ ~Loads
  BY <1>1, <1>2, <1>6, ToldPeerSends, ToldPeerMarks, ToldJoin, ToldNewMessage, ToldMessageUpdated, ToldServe,
     ToldOlderAsk, ToldOlderRead, ToldOlderAnswer, ToldSendAsk, ToldSendStore, ToldSendAnswer, ToldSendFail DEF Steps, Serves
<1>7. CASE Faults
  BY <1>1, <1>3, <1>5, <1>7, ToldOlderFail DEF Faults
<1> QED
  BY <1>4, <1>6, <1>7 DEF Next

LEMMA Switches ==
  ASSUME Next, active' # active
  PROVE  Close \/ \E c \in Chats : Open(c)
<1>1. \A l \in loads : ~LoadRead(l) /\ ~LoadAnswer(l) /\ ~LoadIgnored(l) /\ ~LoadMark(l) /\ ~LoadFail(l)
  BY DEF LoadRead, LoadAnswer, LoadIgnored, LoadMark, LoadFail
<1>2. /\ \A c \in Chats : ~PeerSends(c)
      /\ \A c \in Chats, s \in {"delivered", "seen"} : ~PeerMarks(c, s)
      /\ \A a \in asks : ~Serve(a) /\ ~AskLost(a)
  BY DEF PeerSends, PeerMarks, Serve, AskLost
<1>3. ~Join /\ ~Disconnect /\ ~NewMessage /\ ~MessageUpdated /\ ~OlderAsk /\ ~OlderRead /\ ~OlderAnswer /\ ~OlderFail
  BY DEF Join, Disconnect, NewMessage, MessageUpdated, Handled, OlderAsk, OlderRead, OlderAnswer, OlderFail
<1>4. ~SendAsk /\ ~SendStore /\ ~SendAnswer /\ ~SendFail
  BY DEF SendAsk, SendStore, SendAnswer, SendFail
<1> QED
  BY <1>1, <1>2, <1>3, <1>4 DEF Next, Steps, Faults, Loads, Serves

LEMMA WatchStep ==
  ASSUME ChatPageAssumption, WatchInv, [WatchedNext]_<<vars, fault>>
  PROVE  WatchInv'
<1>1. BaseInv /\ OfActive /\ (~fault => Told)
  BY DEF WatchInv, Told
<1>2. SUFFICES BaseInv' /\ OfActive' /\ (~fault' => Told')
  BY DEF WatchInv, Told
<1>3. CASE UNCHANGED <<vars, fault>>
  <2>1. UNCHANGED <<rows, active, list, more, loads, older, send, joined, feed, asks, fault>>
    BY <1>3 DEF vars, requests, channel
  <2>2. BaseInv'
    BY <1>1, <1>3, BaseStep
  <2>3. OfActive'
    BY <1>1, <2>1 DEF OfActive, Loading
  <2>4. ~fault' => Told'
    BY <1>1, <2>1, ToldStill
  <2> QED
    BY <2>2, <2>3, <2>4
<1>4. CASE WatchedNext
  <2>1. Next /\ Orderly /\ fault' = Faulted
    BY <1>4 DEF WatchedNext
  <2>2. BaseInv'
    BY <1>1, <2>1, BaseStep
  <2>3. CASE active' # active
    <3>1. older = None
      BY <2>1, <2>3 DEF Orderly
    <3>2. Close \/ \E c \in Chats : Open(c)
      BY <2>1, <2>3, Switches
    <3> QED
      BY <1>1, <2>2, <3>1, <3>2, ToldOpen, ToldClose
  <2>4. CASE active' = active
    <3>1. OfActive'
      BY <1>1, <2>1, <2>4, OfActiveStays
    <3>2. ASSUME ~fault'
          PROVE  Told'
      <4>1. ~Faulted
        BY <2>1, <3>2
      <4>2. ~fault /\ (joined => joined') /\ \A l \in loads : l.mounted /\ l.pc # "marking" => ~LoadFail(l)
        BY <2>4, <4>1 DEF Faulted
      <4> QED
        BY <1>1, <2>1, <2>4, <4>2, ToldStays
    <3> QED
      BY <2>2, <3>1, <3>2
  <2> QED
    BY <2>3, <2>4
<1> QED
  BY <1>3, <1>4


LEMMA WatchStart ==
  ASSUME ChatPageAssumption, InitWatched
  PROVE  WatchInv
<1>1. /\ Init /\ list = <<>> /\ feed = <<>> /\ active = NoChat /\ loads = {} /\ older = None
  BY DEF InitWatched, Init
<1>2. BaseInv
  BY <1>1, BaseStart
<1>3. OfActive
  BY <1>1 DEF OfActive
<1>4. FeedTells
  BY <1>1 DEF FeedTells, Arriving
<1>5. LoadCovers /\ ListCovers /\ OlderCovers
  BY <1>1 DEF LoadCovers, ListCovers, OlderCovers
<1> QED
  BY <1>2, <1>3, <1>4, <1>5 DEF WatchInv

LEMMA WhenLoaded ==
  ASSUME WatchInv, ~fault, ~Loading, active # NoChat
  PROVE  Covers(list, more) /\ Optimistic
<1>1. ~AwaitsPage
  BY DEF AwaitsPage, Loading
<1> QED
  BY <1>1 DEF WatchInv, ListCovers

LEMMA OnceShown ==
  ASSUME WatchInv
  PROVE  ShownOnce
<1>1. SUFFICES ASSUME ~fault, ~Loading, NEW i \in Ids
               PROVE  Cardinality(Copies(i)) <= 1
  BY DEF ShownOnce, NoDuplicates
<1>2. PICK S : S = Copies(i)
  OBVIOUS
<1>3. \A j, k \in S : j = k
  <2>1. CASE active = NoChat
    <3>1. list = <<>>
      BY <2>1 DEF WatchInv, OfActive
    <3> QED
      BY <1>2, <3>1 DEF Copies
  <2>2. CASE active # NoChat
    <3>1. Distinct(list)
      BY <1>1, <2>2, WhenLoaded DEF Covers
    <3> QED
      BY <1>2, <3>1 DEF Copies, Distinct
  <2> QED
    BY <2>1, <2>2
<1>4. CASE S = {}
  <2>1. Cardinality(S) = 0
    BY <1>4, FS_EmptySet
  <2> QED
    BY <1>2, <2>1
<1>5. CASE S # {}
  <2>1. PICK j : S = {j}
    BY <1>3, <1>5
  <2>2. Cardinality(S) = 1
    BY <2>1, FS_Singleton
  <2> QED
    BY <1>2, <2>2
<1> QED
  BY <1>4, <1>5

LEMMA OfActiveChat ==
  ASSUME WatchInv
  PROVE  OnlyActiveChat
<1>1. SUFFICES ASSUME ~fault, ~Loading, active # NoChat, NEW k \in DOMAIN list
               PROVE  active = IF list[k].id = Temp THEN send.chat ELSE rows[list[k].id].chat
  BY DEF OnlyActiveChat, OnlyActive
<1>2. Tells(list) /\ Optimistic
  BY <1>1, WhenLoaded DEF Covers
<1> QED
  BY <1>2 DEF Tells, Optimistic, Shows, In

LEMMA ConversationShown ==
  ASSUME ChatPageAssumption, WatchInv
  PROVE  ShowsConversation
<1>1. SUFFICES ASSUME ~fault, Quiet
               PROVE  \E k \in 1..(MaxMessages + 1) :
                        /\ {list[j] : j \in DOMAIN list} =
                             {[id |-> i, status |-> rows[i].status] : i \in {n \in In(active) : n >= k}}
                        /\ more \/ \A i \in In(active) : i >= k
  BY DEF ShowsConversation, Complete
<1>2. TypeOK /\ OneOptimistic /\ ~Loading /\ send = None /\ joined /\ feed = <<>> /\ active # NoChat /\ list \in Seq(Entry)
  BY <1>1 DEF WatchInv, BaseInv, TypeOK, Quiet
<1>3. Covers(list, more)
  BY <1>1, <1>2, WhenLoaded
<1>4. \A i : ~Arriving(i) /\ ~Changing(i)
  BY <1>2 DEF Arriving, Changing
<1>5. \A j \in DOMAIN list : /\ list[j].id # Temp /\ list[j].id \in In(active) /\ list[j].status = rows[list[j].id].status
                             /\ list[j] = [id |-> list[j].id, status |-> list[j].status]
  <2>1. \A j \in DOMAIN list : list[j].id # Temp
    BY <1>2 DEF OneOptimistic
  <2>2. \A j \in DOMAIN list : list[j].id \in In(active) /\ list[j].status = rows[list[j].id].status
    BY <1>3, <1>4, <2>1 DEF Covers, Tells, Upcoming
  <2>3. ASSUME NEW j \in DOMAIN list
        PROVE  list[j] = [id |-> list[j].id, status |-> list[j].status]
    <3>1. list[j] \in Entry
      BY <1>2
    <3> QED
      BY <3>1 DEF Entry
  <2> QED
    BY <2>1, <2>2, <2>3
<1>6. \A i \in In(active) : i \in Nat /\ i >= 1 /\ i <= MaxMessages /\ i \in 1..(MaxMessages + 1)
  BY <1>2, RowsOfChat, ChatPageAssumption DEF ChatPageAssumption, Ids
<1>7. PICK k : k = IF more THEN list[1].id ELSE 1
  OBVIOUS
<1>8. k \in 1..(MaxMessages + 1) /\ (more => k \in Nat /\ \A j \in DOMAIN list : k <= list[j].id)
  <2>1. CASE more
    <3>1. Begins(list)
      BY <1>3, <2>1 DEF Covers
    <3>2. 1 \in DOMAIN list
      BY <1>2, <3>1 DEF Begins
    <3>3. k \in In(active)
      BY <1>5, <1>7, <2>1, <3>2
    <3> QED
      BY <1>5, <1>6, <1>7, <2>1, <3>1, <3>3 DEF Begins
  <2>2. CASE ~more
    BY <1>7, <2>2, ChatPageAssumption DEF ChatPageAssumption
  <2> QED
    BY <2>1, <2>2
<1>9. \A j \in DOMAIN list : list[j].id >= k
  <2>1. ASSUME NEW j \in DOMAIN list
        PROVE  list[j].id >= k
    <3>1. PICK i : i = list[j].id
      OBVIOUS
    <3>2. i \in Nat /\ i >= 1 /\ (more => k \in Nat /\ k <= i)
      BY <1>5, <1>6, <1>8, <3>1
    <3>3. i >= k
      BY <1>7, <3>2
    <3> QED
      BY <3>1, <3>3
  <2> QED
    BY <2>1
<1>10. ASSUME NEW i \in In(active), i >= k
       PROVE  \E j \in DOMAIN list : list[j] = [id |-> i, status |-> rows[i].status]
  <2>1. Within(list, more, i)
    <3>1. more => k \in Nat /\ i \in Nat /\ i >= k /\ k = list[1].id
      BY <1>6, <1>7, <1>8, <1>10
    <3>2. more => k <= i
      BY <3>1
    <3> QED
      BY <3>1, <3>2 DEF Within
  <2>2. Shows(list, i)
    BY <1>3, <1>4, <2>1 DEF Covers
  <2>3. PICK j \in DOMAIN list : list[j].id = i
    BY <2>2 DEF Shows
  <2> QED
    BY <1>5, <2>3
<1>11. {list[j] : j \in DOMAIN list} = {[id |-> i, status |-> rows[i].status] : i \in {n \in In(active) : n >= k}}
  <2>1. ASSUME NEW j \in DOMAIN list
        PROVE  \E i \in {n \in In(active) : n >= k} : list[j] = [id |-> i, status |-> rows[i].status]
    <3>1. list[j].id \in {n \in In(active) : n >= k}
      BY <1>5, <1>9
    <3> QED
      BY <1>5, <3>1
  <2> QED
    BY <1>10, <2>1
<1>12. more \/ \A i \in In(active) : i >= k
  BY <1>6, <1>7
<1> QED
  BY <1>8, <1>11, <1>12

\* Whichever of a load, an older page, an event and a send's answer brings a message
\* first, it is shown once (the page loads' setMessages, onNewMessage, handleLoadMore
\* and handleSendMessage), unless the load failed or the channel dropped.
THEOREM ShownOnceHolds == SpecWatched => []ShownOnce
<1>1. InitWatched => WatchInv
  BY WatchStart, ChatPageAssumption
<1>2. WatchInv /\ [WatchedNext]_<<vars, fault>> => WatchInv'
  BY WatchStep, ChatPageAssumption
<1>3. WatchInv => ShownOnce
  BY OnceShown
<1> QED
  BY <1>1, <1>2, <1>3, PTL DEF SpecWatched

\* However many loads of other conversations are still to be answered, a loaded
\* conversation shows no message of another (isMounted, and the effects' cleanups).
THEOREM NoOtherChatShown == SpecWatched => []OnlyActiveChat
<1>1. InitWatched => WatchInv
  BY WatchStart, ChatPageAssumption
<1>2. WatchInv /\ [WatchedNext]_<<vars, fault>> => WatchInv'
  BY WatchStep, ChatPageAssumption
<1>3. WatchInv => OnlyActiveChat
  BY OfActiveChat
<1> QED
  BY <1>1, <1>2, <1>3, PTL DEF SpecWatched

\* Once nothing is in flight the page shows the latest messages of the chat without
\* a gap and with their present status, and the button for older ones if there are any.
THEOREM LatestShownWithoutGap == SpecWatched => []ShowsConversation
<1>1. InitWatched => WatchInv
  BY WatchStart, ChatPageAssumption
<1>2. WatchInv /\ [WatchedNext]_<<vars, fault>> => WatchInv'
  BY WatchStep, ChatPageAssumption
<1>3. WatchInv => ShowsConversation
  BY ConversationShown, ChatPageAssumption
<1> QED
  BY <1>1, <1>2, <1>3, PTL DEF SpecWatched
===============================================================================
