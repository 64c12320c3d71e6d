------------------------ MODULE ExportPaging_proofs ------------------------
(***************************************************************************)
(* Why paging by offset misses and repeats only a few rows. An invariant   *)
(* about "the first rows up to the offset" is not inductive: which rows    *)
(* those are changes with the table. It is stated for all sets of rows     *)
(* that could be in the way instead, with the slack that their size gives. *)
(***************************************************************************)
EXTENDS ExportPaging, FiniteSetTheorems, TLAPS

-----------------------------------------------------------------------------
(* Counting.                                                               *)

LEMMA CountsAreNat ==
    ASSUME NEW S \in SUBSET Row
    PROVE  IsFiniteSet(S) /\ Cardinality(S) \in Nat
BY RowAssumption, FS_Subset, FS_CardinalityType

LEMMA CountMore ==
    ASSUME NEW S \in SUBSET Row, NEW T \in SUBSET S
    PROVE  Cardinality(T) <= Cardinality(S)
BY CountsAreNat, FS_Subset

LEMMA CountParts ==
    ASSUME NEW S \in SUBSET Row, NEW T \in SUBSET Row
    PROVE  Cardinality(S) = Cardinality(S \cap T) + Cardinality(S \ T)
<1> DEFINE A == S \cap T
           B == S \ T
<1>1. A \in SUBSET Row /\ B \in SUBSET Row /\ A \cup B = S /\ A \cap B = {}
  OBVIOUS
<1> HIDE DEF A, B
<1>2. /\ IsFiniteSet(A) /\ Cardinality(A) \in Nat
      /\ IsFiniteSet(B) /\ Cardinality(B) \in Nat
  BY <1>1, CountsAreNat
<1>3. Cardinality(A \cup B) = Cardinality(A) + Cardinality(B) - Cardinality(A \cap B)
  BY <1>2, FS_Union
<1>4. Cardinality(A \cup B) = Cardinality(S) /\ Cardinality(A \cap B) = 0
  BY <1>1, FS_EmptySet, Zenon
<1>5. Cardinality(S) = Cardinality(A) + Cardinality(B)
  BY <1>2, <1>3, <1>4
<1> QED
  BY <1>5 DEF A, B

LEMMA CountBoth ==
    ASSUME NEW S \in SUBSET Row, NEW T \in SUBSET Row
    PROVE  Cardinality(S \cup T) = Cardinality(S) + Cardinality(T \ S)
<1>1. S \cup T \in SUBSET Row
  OBVIOUS
<1>2. (S \cup T) \cap S = S /\ (S \cup T) \ S = T \ S
  OBVIOUS
<1> QED
  BY <1>1, <1>2, CountParts

-----------------------------------------------------------------------------
(* Rows missed. V are rows still missing that are within C, and no row of  *)
(* T outside of C is newer than one of them: then they are no more than    *)
(* have left, unless C is larger than what was read.                       *)

AtTop(V, C, T) == /\ V \subseteq C /\ C \subseteq T
                  /\ \A r \in V, s \in T \ C : created_at[r] >= created_at[s]

Reading == fetch.pc \in {"count", "select"}

MissedInv ==
    Reading /\ ~split =>
        \A V \in SUBSET (always \ batches), C \in SUBSET matching :
           AtTop(V, C, matching) =>
              \/ Cardinality(V) <= left
              \/ Cardinality(V) + fetch.offset <= left + Cardinality(C)

\* What the last COUNT has not seen has entered since.
TotalInv == fetch.pc = "select" => Cardinality(matching) <= fetch.total + late

LEMMA MissedTable ==
    ASSUME PagingTypeOK, PagingTypeOK', MissedInv, TableChange
    PROVE  MissedInv'
<1> SUFFICES ASSUME ~split', NEW V \in SUBSET (always' \ batches'),
                    NEW C \in SUBSET matching', AtTop(V, C, matching')
             PROVE  \/ Cardinality(V) <= left'
                    \/ Cardinality(V) + fetch'.offset <= left' + Cardinality(C)
  BY DEF MissedInv
<1> DEFINE L == matching \ matching'
           D == (C \cap matching) \cup L
<1>1. /\ fetch' = fetch /\ batches' = batches /\ split' = split
      /\ always' = always \cap matching' /\ left' = left + Cardinality(L) /\ Reading
  BY DEF TableChange, Reading
<1>2. /\ matching \in SUBSET Row /\ matching' \in SUBSET Row /\ left \in Nat
      /\ fetch.offset \in Nat /\ always \in SUBSET matching
  BY DEF PagingTypeOK
<1>3. V \in SUBSET (always \ batches) /\ D \in SUBSET matching
  BY <1>1
<1>4. AtTop(V, D, matching)
  BY <1>1, <1>2 DEF AtTop
<1>5. \/ Cardinality(V) <= left
      \/ Cardinality(V) + fetch.offset <= left + Cardinality(D)
  BY <1>1, <1>3, <1>4 DEF MissedInv
<1>6. Cardinality(D) <= Cardinality(C) + Cardinality(L)
  <2>1. C \cap matching \in SUBSET Row /\ L \in SUBSET Row /\ C \in SUBSET Row
        /\ L \ (C \cap matching) \in SUBSET L /\ C \cap matching \in SUBSET C
    BY <1>2
  <2> HIDE DEF L
  <2>2. Cardinality(D) = Cardinality(C \cap matching)
                           + Cardinality(L \ (C \cap matching))
    BY <2>1, CountBoth
  <2>3. /\ Cardinality(C \cap matching) <= Cardinality(C)
        /\ Cardinality(L \ (C \cap matching)) <= Cardinality(L)
    BY <2>1, CountMore
  <2>4. L \ (C \cap matching) \in SUBSET Row
    BY <2>1
  <2> QED
    BY <2>1, <2>2, <2>3, <2>4, CountsAreNat
<1>7. /\ V \in SUBSET Row /\ C \in SUBSET Row /\ D \in SUBSET Row /\ L \in SUBSET Row
  BY <1>2, <1>3
<1> HIDE DEF L, D
<1> QED
  BY <1>1, <1>2, <1>5, <1>6, <1>7, CountsAreNat

\* A page that Select may read, and what it leaves.
SelectPage(before, upto) ==
    /\ before \in Newest(matching, fetch.offset)
    /\ upto \in Newest(matching, NextOffset)
    /\ before \subseteq upto
    /\ batches' = batches \cup (upto \ before)
    /\ lines' = lines + Cardinality(upto \ before)
    /\ split' = (split \/ Splits(upto, matching))
    /\ fetch' = [fetch EXCEPT !.offset = NextOffset,
                              !.pc = IF Exhausted(upto \ before) THEN "build"
                                     ELSE "count"]
    /\ UNCHANGED <<matching, always, left, entered, late>>

LEMMA SelectHasPage ==
    ASSUME Select
    PROVE  fetch.pc = "select" /\ \E before, upto \in SUBSET matching :
                                     SelectPage(before, upto)
BY DEF Select, SelectPage, Newest, NextOffset

LEMMA PageFacts ==
    ASSUME PagingTypeOK, NEW before \in SUBSET matching, NEW upto \in SUBSET matching,
           SelectPage(before, upto)
    PROVE  /\ matching \in SUBSET Row /\ before \in SUBSET Row /\ upto \in SUBSET Row
           /\ fetch.offset \in Nat /\ fetch.total \in Nat
           /\ NextOffset = fetch.offset + PageSize /\ NextOffset \in Nat
           /\ fetch'.offset = NextOffset
           /\ fetch'.pc = IF Exhausted(upto \ before) THEN "build" ELSE "count"
           /\ \A r \in before, s \in matching \ before : created_at[r] >= created_at[s]
           /\ Cardinality(before) = fetch.offset
                \/ (Cardinality(before) < fetch.offset /\ before = matching)
           /\ Cardinality(upto) = NextOffset
                \/ (Cardinality(upto) < NextOffset /\ upto = matching)
           /\ ~split' => ~split /\ \A r \in upto, s \in matching \ upto :
                                      created_at[r] > created_at[s]
<1>1. matching \in SUBSET Row /\ fetch.offset \in Nat /\ fetch.total \in Nat
  BY DEF PagingTypeOK
<1>2. NextOffset = fetch.offset + PageSize /\ NextOffset \in Nat
  BY <1>1, PageAssumption DEF NextOffset
<1>3. /\ \A r \in before, s \in matching \ before : created_at[r] >= created_at[s]
      /\ Cardinality(before) = fetch.offset
           \/ (Cardinality(before) < fetch.offset /\ before = matching)
      /\ Cardinality(upto) = NextOffset
           \/ (Cardinality(upto) < NextOffset /\ upto = matching)
      /\ \A r \in upto, s \in matching \ upto : created_at[r] >= created_at[s]
  BY DEF SelectPage, Newest
<1>4. fetch'.offset = NextOffset
      /\ fetch'.pc = IF Exhausted(upto \ before) THEN "build" ELSE "count"
  BY DEF SelectPage, PagingTypeOK
<1>5. ASSUME ~split', NEW r \in upto, NEW s \in matching \ upto
      PROVE  created_at[r] > created_at[s]
  <2>1. created_at[r] \in Nat /\ created_at[s] \in Nat
    BY <1>1, RowAssumption
  <2>2. created_at[r] # created_at[s]
    BY <1>5 DEF SelectPage, Splits
  <2> QED
    BY <1>3, <2>1, <2>2
<1>6. ~split' => ~split
  BY DEF SelectPage, PagingTypeOK
<1> QED
  BY <1>1, <1>2, <1>3, <1>4, <1>5, <1>6

\* What can be missing of upto, once a page that ends there is read.
LEMMA MissedBefore ==
    ASSUME PagingTypeOK, MissedInv, fetch.pc = "select",
           NEW before \in SUBSET matching, NEW upto \in SUBSET matching,
           SelectPage(before, upto), ~split',
           NEW V \in SUBSET (always \ batches')
    PROVE  Cardinality(V \cap upto) <= left
<1>1. V \cap upto \in SUBSET (always \ batches) /\ V \cap upto \subseteq before
  BY DEF SelectPage
<1>2. AtTop(V \cap upto, before, matching)
  BY <1>1, PageFacts DEF AtTop
<1>3. \/ Cardinality(V \cap upto) <= left
      \/ Cardinality(V \cap upto) + fetch.offset <= left + Cardinality(before)
  BY <1>1, <1>2, PageFacts DEF MissedInv, Reading
<1>4. left \in Nat /\ V \cap upto \in SUBSET Row /\ before \in SUBSET Row
  BY PageFacts DEF PagingTypeOK
<1>5. Cardinality(V \cap upto) \in Nat /\ Cardinality(before) \in Nat
  BY <1>4, CountsAreNat
<1>6. fetch.offset \in Nat
  BY PageFacts
<1>7. Cardinality(before) = fetch.offset \/ Cardinality(before) < fetch.offset
  BY PageFacts
<1> QED
  BY <1>3, <1>4, <1>5, <1>6, <1>7

LEMMA MissedSelect ==
    ASSUME PagingTypeOK, MissedInv, fetch.pc = "select",
           NEW before \in SUBSET matching, NEW upto \in SUBSET matching,
           SelectPage(before, upto)
    PROVE  MissedInv'
<1> SUFFICES ASSUME ~split', NEW V \in SUBSET (always' \ batches'),
                    NEW C \in SUBSET matching', AtTop(V, C, matching')
             PROVE  \/ Cardinality(V) <= left'
                    \/ Cardinality(V) + fetch'.offset <= left' + Cardinality(C)
  BY DEF MissedInv
<1>1. /\ matching' = matching /\ always' = always /\ left' = left
      /\ left \in Nat /\ always \in SUBSET matching
  BY DEF SelectPage, PagingTypeOK
<1>2. V \in SUBSET Row /\ C \in SUBSET Row /\ V \in SUBSET (always \ batches')
      /\ V \subseteq C
  BY <1>1, PageFacts DEF AtTop
<1>3. Cardinality(V \cap upto) <= left
  BY <1>2, MissedBefore
<1>4. Cardinality(V) = Cardinality(V \cap upto) + Cardinality(V \ upto)
  BY <1>2, PageFacts, CountParts
<1>5. /\ V \cap upto \in SUBSET Row /\ V \ upto \in SUBSET Row
      /\ C \ upto \in SUBSET Row /\ C \cap upto \in SUBSET Row
  BY <1>2
<1>6. CASE V \subseteq upto
  <2>1. V \cap upto = V
    BY <1>6
  <2> QED
    BY <1>1, <1>3, <2>1
<1>7. CASE ~(V \subseteq upto)
  <2>1. PICK r \in V : r \notin upto
    BY <1>7
  <2>2. r \in matching
    BY <1>1, <2>1
  <2>3. upto # matching
    BY <2>1, <2>2
  <2>4. upto \subseteq C
    <3>1. SUFFICES ASSUME NEW x \in upto, x \notin C PROVE FALSE
      OBVIOUS
    <3>2. created_at[x] > created_at[r]
      BY <2>1, <2>2, PageFacts
    <3>3. created_at[r] >= created_at[x]
      BY <1>1, <2>1, <3>1 DEF AtTop
    <3>4. created_at[x] \in Nat /\ created_at[r] \in Nat
      BY <2>2, PageFacts, RowAssumption
    <3> QED
      BY <3>2, <3>3, <3>4
  <2>5. C \cap upto = upto
    BY <2>4
  <2>6. Cardinality(C) = NextOffset + Cardinality(C \ upto)
    <3>1. Cardinality(upto) = NextOffset
      BY <2>3, PageFacts
    <3>2. Cardinality(C) = Cardinality(C \cap upto) + Cardinality(C \ upto)
      BY <1>2, PageFacts, CountParts
    <3> QED
      BY <2>5, <3>1, <3>2
  <2>7. Cardinality(V \ upto) <= Cardinality(C \ upto)
    <3>1. V \ upto \in SUBSET (C \ upto)
      BY <1>2
    <3> QED
      BY <1>5, <3>1, CountMore
  <2>8. /\ Cardinality(V) \in Nat /\ Cardinality(V \cap upto) \in Nat
        /\ Cardinality(V \ upto) \in Nat /\ Cardinality(C \ upto) \in Nat
    BY <1>2, <1>5, CountsAreNat
  <2>9. NextOffset \in Nat /\ fetch'.offset = NextOffset
    BY PageFacts
  <2> QED
    BY <1>1, <1>3, <1>4, <2>6, <2>7, <2>8, <2>9
<1> QED
  BY <1>6, <1>7

\* The last page: it is not full, or the COUNT before it has called it the last.
LEMMA FewMissedAtLast ==
    ASSUME PagingTypeOK, MissedInv, TotalInv, fetch.pc = "select",
           NEW before \in SUBSET matching, NEW upto \in SUBSET matching,
           SelectPage(before, upto), ~split', Exhausted(upto \ before)
    PROVE  Cardinality(always' \ batches') <= left' + late'
<1> DEFINE V == always \ batches'
<1>1. /\ always' = always /\ left' = left /\ late' = late
      /\ left \in Nat /\ late \in Nat /\ always \in SUBSET matching
  BY DEF SelectPage, PagingTypeOK
<1>2. V \in SUBSET Row /\ V \in SUBSET matching
  BY <1>1, PageFacts
<1>3. Cardinality(V \cap upto) <= left
  BY MissedBefore
<1>4. V \cap upto \in SUBSET Row /\ V \ upto \in SUBSET Row /\ matching \ upto \in SUBSET Row
  BY <1>2, PageFacts
<1> HIDE DEF V
<1>5. Cardinality(V) = Cardinality(V \cap upto) + Cardinality(V \ upto)
  BY <1>2, PageFacts, CountParts
<1>6. Cardinality(V \ upto) <= Cardinality(matching \ upto)
  <2>1. V \ upto \in SUBSET (matching \ upto)
    BY <1>2
  <2> QED
    BY <1>4, <2>1, CountMore
<1>7. Cardinality(matching \ upto) <= late
  <2>1. CASE upto = matching
    <3>1. matching \ upto = {}
      BY <2>1
    <3> QED
      BY <1>1, <3>1, FS_EmptySet
  <2>2. CASE upto # matching
    <3>1. Cardinality(upto) = NextOffset
      BY <2>2, PageFacts
    <3>2. before # matching
      BY <2>2 DEF SelectPage
    <3>3. Cardinality(before) = fetch.offset
      BY <3>2, PageFacts
    <3>4. upto \cap before = before /\ upto \ before \in SUBSET Row
      BY PageFacts DEF SelectPage
    <3>5. Cardinality(upto \ before) = PageSize
      <4>1. Cardinality(upto) = Cardinality(before) + Cardinality(upto \ before)
        <5>1. Cardinality(upto) = Cardinality(upto \cap before)
                                    + Cardinality(upto \ before)
          BY PageFacts, CountParts
        <5> QED
          BY <3>4, <5>1
      <4>2. Cardinality(upto \ before) \in Nat
        BY <3>4, CountsAreNat
      <4>3. NextOffset = fetch.offset + PageSize /\ fetch.offset \in Nat
        BY PageFacts
      <4>4. NextOffset = fetch.offset + Cardinality(upto \ before)
        BY <3>1, <3>3, <4>1
      <4> QED
        BY <4>2, <4>3, <4>4, PageAssumption
    <3>6. NextOffset >= fetch.total
      BY <3>5, PageAssumption DEF Exhausted
    <3>7. Cardinality(matching) = NextOffset + Cardinality(matching \ upto)
      <4>1. matching \cap upto = upto
        OBVIOUS
      <4>2. Cardinality(matching) = Cardinality(matching \cap upto)
                                      + Cardinality(matching \ upto)
        BY PageFacts, CountParts
      <4> QED
        BY <3>1, <4>1, <4>2
    <3>8. Cardinality(matching) <= fetch.total + late
      BY DEF TotalInv
    <3>9. Cardinality(matching \ upto) \in Nat
      BY <1>4, CountsAreNat
    <3>10. NextOffset \in Nat /\ fetch.total \in Nat
      BY PageFacts
    <3> QED
      BY <1>1, <3>6, <3>7, <3>8, <3>9, <3>10
  <2> QED
    BY <2>1, <2>2
<1>8. /\ Cardinality(V) \in Nat /\ Cardinality(V \cap upto) \in Nat
      /\ Cardinality(V \ upto) \in Nat /\ Cardinality(matching \ upto) \in Nat
  BY <1>2, <1>4, CountsAreNat
<1>9. Cardinality(V) <= left + late
  BY <1>1, <1>3, <1>5, <1>6, <1>7, <1>8
<1> QED
  BY <1>1, <1>9 DEF V

LEMMA TotalStep ==
    ASSUME PagingTypeOK, PagingTypeOK', TotalInv, PagingNext
    PROVE  TotalInv'
<1>1. CASE Count
  <2>1. fetch'.total = Cardinality(matching) /\ matching' = matching /\ late' = 0
    BY <1>1 DEF Count, PagingTypeOK
  <2>2. Cardinality(matching) \in Nat
    BY CountsAreNat DEF PagingTypeOK
  <2> QED
    BY <2>1, <2>2 DEF TotalInv
<1>2. CASE Select
  <2>1. PICK before \in SUBSET matching, upto \in SUBSET matching :
          SelectPage(before, upto)
    BY <1>2, SelectHasPage
  <2>2. fetch'.pc # "select"
    BY <2>1, PageFacts
  <2> QED
    BY <2>2 DEF TotalInv
<1>3. CASE TableChange
  <2> DEFINE E == matching' \ matching
  <2>1. /\ matching \in SUBSET Row /\ matching' \in SUBSET Row /\ E \in SUBSET Row
        /\ fetch' = fetch /\ late' = late + Cardinality(E)
        /\ late \in Nat /\ fetch.total \in Nat
    BY <1>3 DEF TableChange, PagingTypeOK
  <2>2. Cardinality(matching') = Cardinality(matching' \cap matching) + Cardinality(E)
    BY <2>1, CountParts
  <2>3. matching' \cap matching \in SUBSET Row
    BY <2>1
  <2>4. Cardinality(matching' \cap matching) <= Cardinality(matching)
    BY <2>1, CountMore
  <2> HIDE DEF E
  <2>5. /\ Cardinality(matching) \in Nat /\ Cardinality(matching') \in Nat
        /\ Cardinality(matching' \cap matching) \in Nat /\ Cardinality(E) \in Nat
    BY <2>1, <2>3, CountsAreNat
  <2> QED
    BY <2>1, <2>2, <2>4, <2>5 DEF TotalInv
<1> QED
  BY <1>1, <1>2, <1>3 DEF PagingNext

-----------------------------------------------------------------------------
(* Rows repeated. V are rows already read that are outside of C, and no    *)
(* row of C is older than one of them: with the lines that repeat a row by *)
(* now they are no more than have entered, unless C is smaller than what   *)
(* was read.                                                               *)

Beyond(V, C) == /\ V \cap C = {}
                /\ \A r \in V, s \in C : created_at[s] >= created_at[r]

RepeatedInv ==
    Reading /\ ~split =>
        /\ lines <= Cardinality(batches) + entered
        /\ \A V \in SUBSET (batches \cap matching), C \in SUBSET matching :
             Beyond(V, C) =>
                \/ Cardinality(V) + lines <= Cardinality(batches) + entered
                \/ Cardinality(V) + Cardinality(C) + lines
                      <= Cardinality(batches) + entered + fetch.offset

LEMMA RepeatedTable ==
    ASSUME PagingTypeOK, PagingTypeOK', RepeatedInv, TableChange
    PROVE  RepeatedInv'
<1> DEFINE E == matching' \ matching
<1>1. /\ fetch' = fetch /\ batches' = batches /\ lines' = lines /\ split' = split
      /\ entered' = entered + Cardinality(E) /\ Reading
  BY DEF TableChange, Reading
<1>2. /\ matching \in SUBSET Row /\ matching' \in SUBSET Row /\ batches \in SUBSET Row
      /\ E \in SUBSET Row
      /\ entered \in Nat /\ lines \in Nat /\ fetch.offset \in Nat
  BY DEF PagingTypeOK
<1>3. Cardinality(batches) \in Nat /\ Cardinality(E) \in Nat
  BY <1>2, CountsAreNat
<1>4. ~split' => lines' <= Cardinality(batches') + entered'
  BY <1>1, <1>2, <1>3 DEF RepeatedInv
<1>5. ASSUME ~split', NEW V \in SUBSET (batches' \cap matching'),
             NEW C \in SUBSET matching', Beyond(V, C)
      PROVE  \/ Cardinality(V) + lines' <= Cardinality(batches') + entered'
             \/ Cardinality(V) + Cardinality(C) + lines'
                   <= Cardinality(batches') + entered' + fetch'.offset
  <2> DEFINE V0 == V \cap matching
             C0 == C \cap matching
             V1 == V \ matching
             C1 == C \ matching
  <2>1. V0 \in SUBSET (batches \cap matching) /\ C0 \in SUBSET matching
    BY <1>1
  <2>2. Beyond(V0, C0)
    BY <1>5 DEF Beyond
  <2>3. \/ Cardinality(V0) + lines <= Cardinality(batches) + entered
        \/ Cardinality(V0) + Cardinality(C0) + lines
              <= Cardinality(batches) + entered + fetch.offset
    BY <1>1, <1>5, <2>1, <2>2 DEF RepeatedInv
  <2>4. V \in SUBSET Row /\ C \in SUBSET Row
    BY <1>1, <1>2
  <2>5. /\ Cardinality(V) = Cardinality(V0) + Cardinality(V1)
        /\ Cardinality(C) = Cardinality(C0) + Cardinality(C1)
    BY <1>2, <2>4, CountParts
  <2>6. /\ V1 \in SUBSET E /\ C1 \in SUBSET E /\ C1 \cap V1 = {}
    BY <1>1, <1>5 DEF Beyond
  <2>7. V1 \in SUBSET Row /\ C1 \in SUBSET Row /\ V0 \in SUBSET Row /\ C0 \in SUBSET Row
    BY <2>4
  <2> HIDE DEF E, V0, C0, V1, C1
  <2>8. Cardinality(V1) + Cardinality(C1) <= Cardinality(E)
    <3>1. C1 \ V1 = C1 /\ V1 \cup C1 \in SUBSET E
      BY <2>6
    <3>2. Cardinality(V1 \cup C1) = Cardinality(V1) + Cardinality(C1 \ V1)
      BY <2>7, CountBoth
    <3>3. Cardinality(V1 \cup C1) <= Cardinality(E)
      BY <1>2, <3>1, CountMore
    <3> QED
      BY <3>1, <3>2, <3>3
  <2>9. /\ Cardinality(V0) \in Nat /\ Cardinality(V1) \in Nat
        /\ Cardinality(C0) \in Nat /\ Cardinality(C1) \in Nat
    BY <2>7, CountsAreNat
  <2> QED
    BY <1>1, <1>2, <1>3, <2>3, <2>5, <2>8, <2>9
<1> QED
  BY <1>4, <1>5 DEF RepeatedInv

\* The lines that the page repeats, and what is left to be repeated behind it.
LEMMA RepeatedPage ==
    ASSUME PagingTypeOK, RepeatedInv, fetch.pc = "select",
           NEW before \in SUBSET matching, NEW upto \in SUBSET matching,
           SelectPage(before, upto), ~split',
           NEW V \in SUBSET ((batches \cap matching) \ upto)
    PROVE  Cardinality(V) + lines' <= Cardinality(batches') + entered
<1> DEFINE page == upto \ before
           R == page \cap batches
           W == R \cup V
<1>1. /\ lines' = lines + Cardinality(page) /\ batches' = batches \cup page
      /\ before \subseteq upto
  BY DEF SelectPage
<1>2. /\ batches \in SUBSET Row /\ entered \in Nat /\ lines \in Nat
      /\ page \in SUBSET Row /\ R \in SUBSET Row /\ V \in SUBSET Row
      /\ page \ batches \in SUBSET Row /\ before \in SUBSET Row /\ W \in SUBSET Row
  BY PageFacts DEF PagingTypeOK
<1>3. W \in SUBSET (batches \cap matching) /\ W \in SUBSET (matching \ before)
  BY <1>1, PageFacts
<1>4. Beyond(W, before)
  BY <1>3, PageFacts DEF Beyond
<1>5. ~split
  BY PageFacts
<1>6. \/ Cardinality(W) + lines <= Cardinality(batches) + entered
      \/ Cardinality(W) + Cardinality(before) + lines
            <= Cardinality(batches) + entered + fetch.offset
  BY <1>3, <1>4, <1>5 DEF RepeatedInv, Reading
<1>7. Cardinality(W) = Cardinality(R) + Cardinality(V)
  <2>1. V \ R = V
    OBVIOUS
  <2>2. Cardinality(R \cup V) = Cardinality(R) + Cardinality(V \ R)
    BY <1>2, CountBoth
  <2> QED
    BY <2>1, <2>2
<1>8. Cardinality(page) = Cardinality(R) + Cardinality(page \ batches)
  BY <1>2, CountParts
<1>9. Cardinality(batches') = Cardinality(batches) + Cardinality(page \ batches)
  BY <1>1, <1>2, CountBoth
<1>10. before = matching => Cardinality(W) = 0
  <2>1. before = matching => W = {}
    BY <1>3
  <2> QED
    BY <2>1, FS_EmptySet
<1>11. lines <= Cardinality(batches) + entered
  BY <1>5 DEF RepeatedInv, Reading
<1>12. Cardinality(before) = fetch.offset \/ before = matching
  BY PageFacts
<1> HIDE DEF page, R, W
<1>13. /\ Cardinality(W) \in Nat /\ Cardinality(R) \in Nat /\ Cardinality(V) \in Nat
       /\ Cardinality(page \ batches) \in Nat /\ Cardinality(batches) \in Nat
       /\ Cardinality(before) \in Nat /\ Cardinality(page) \in Nat
  BY <1>2, CountsAreNat
<1>14. fetch.offset \in Nat
  BY PageFacts
<1>15. Cardinality(W) + lines <= Cardinality(batches) + entered
  BY <1>2, <1>6, <1>10, <1>11, <1>12, <1>13, <1>14
<1> QED
  BY <1>1, <1>2, <1>7, <1>8, <1>9, <1>13, <1>15

LEMMA RepeatedSelect ==
    ASSUME PagingTypeOK, RepeatedInv, fetch.pc = "select",
           NEW before \in SUBSET matching, NEW upto \in SUBSET matching,
           SelectPage(before, upto)
    PROVE  RepeatedInv' /\ (~split' => lines' <= Cardinality(batches') + entered')
<1>1. /\ matching' = matching /\ entered' = entered /\ entered \in Nat
      /\ batches' = batches \cup (upto \ before) /\ batches \in SUBSET Row
  BY DEF SelectPage, PagingTypeOK
<1>2. lines' \in Nat /\ Cardinality(batches') \in Nat /\ batches' \in SUBSET Row
  <2>1. upto \ before \in SUBSET Row
    BY PageFacts
  <2>2. Cardinality(upto \ before) \in Nat
    BY <2>1, CountsAreNat
  <2>3. batches' \in SUBSET Row
    BY <1>1, <2>1
  <2>4. lines' = lines + Cardinality(upto \ before) /\ lines \in Nat
    BY DEF SelectPage, PagingTypeOK
  <2> QED
    BY <2>2, <2>3, <2>4, CountsAreNat
<1>3. ~split' => lines' <= Cardinality(batches') + entered'
  <2>1. {} \in SUBSET ((batches \cap matching) \ upto)
    OBVIOUS
  <2>2. ~split' => Cardinality({}) + lines' <= Cardinality(batches') + entered
    BY <2>1, RepeatedPage
  <2>3. Cardinality({}) = 0
    BY FS_EmptySet
  <2> QED
    BY <1>1, <1>2, <2>2, <2>3
<1>4. ASSUME ~split', NEW V \in SUBSET (batches' \cap matching'),
             NEW C \in SUBSET matching', Beyond(V, C)
      PROVE  \/ Cardinality(V) + lines' <= Cardinality(batches') + entered'
             \/ Cardinality(V) + Cardinality(C) + lines'
                   <= Cardinality(batches') + entered' + fetch'.offset
  <2> DEFINE A == V \cap upto
             B == V \ upto
  <2>1. /\ V \in SUBSET Row /\ C \in SUBSET Row /\ A \in SUBSET Row /\ B \in SUBSET Row
    BY <1>1, PageFacts
  <2>2. Cardinality(V) = Cardinality(A) + Cardinality(B)
    BY <2>1, PageFacts, CountParts
  <2>3. B \in SUBSET ((batches \cap matching) \ upto)
    BY <1>1
  <2>4. Cardinality(B) + lines' <= Cardinality(batches') + entered
    BY <1>4, <2>3, RepeatedPage
  <2>5. CASE A = {}
    <3>1. Cardinality(A) = 0
      BY <2>5, FS_EmptySet
    <3> HIDE DEF A, B
    <3>2. Cardinality(B) \in Nat
      BY <2>1, CountsAreNat
    <3> QED
      BY <1>1, <1>2, <2>2, <2>4, <3>1, <3>2
  <2>6. CASE A # {}
    <3>1. PICK r \in A : TRUE
      BY <2>6
    <3>2. C \subseteq upto
      <4>1. SUFFICES ASSUME NEW x \in C, x \notin upto PROVE FALSE
        OBVIOUS
      <4>2. created_at[r] > created_at[x]
        BY <1>1, <1>4, <3>1, <4>1, PageFacts
      <4>3. created_at[x] >= created_at[r]
        BY <1>4, <3>1 DEF Beyond
      <4>4. created_at[x] \in Nat /\ created_at[r] \in Nat
        BY <1>1, <2>1, <3>1, RowAssumption
      <4> QED
        BY <4>2, <4>3, <4>4
    <3>3. A \in SUBSET (upto \ C) /\ upto \cap C = C /\ upto \ C \in SUBSET Row
      BY <1>4, <3>2, PageFacts DEF Beyond
    <3> HIDE DEF A, B
    <3>4. Cardinality(A) <= Cardinality(upto \ C)
      BY <3>3, CountMore
    <3>5. Cardinality(upto) = Cardinality(upto \cap C) + Cardinality(upto \ C)
      BY <2>1, PageFacts, CountParts
    <3>6. Cardinality(upto) = Cardinality(C) + Cardinality(upto \ C)
      BY <3>3, <3>5
    <3>7. /\ Cardinality(A) \in Nat /\ Cardinality(B) \in Nat
          /\ Cardinality(C) \in Nat /\ Cardinality(upto \ C) \in Nat
      BY <2>1, <3>3, CountsAreNat
    <3>8. Cardinality(upto) = NextOffset \/ Cardinality(upto) < NextOffset
      BY PageFacts
    <3>9. NextOffset \in Nat /\ fetch'.offset = NextOffset
      BY PageFacts
    <3> QED
      BY <1>1, <1>2, <2>2, <2>4, <3>4, <3>6, <3>7, <3>8, <3>9
  <2> QED
    BY <2>5, <2>6
<1> QED
  BY <1>3, <1>4 DEF RepeatedInv

-----------------------------------------------------------------------------
(* The whole of the paging.                                                *)

PagingInv == MissedInv /\ TotalInv /\ RepeatedInv /\ FewMissed /\ FewRepeated

LEMMA PagingStart == PagingInit => PagingInv
<1> SUFFICES ASSUME PagingInit PROVE PagingInv
  OBVIOUS
<1>1. /\ always = matching /\ batches = {} /\ matching \in SUBSET Row
      /\ fetch.offset = 0 /\ fetch.pc = "count"
      /\ left = 0 /\ entered = 0 /\ lines = 0
  BY DEF PagingInit
<1>2. MissedInv
  <2> SUFFICES ASSUME NEW V \in SUBSET (always \ batches), NEW C \in SUBSET matching,
                      AtTop(V, C, matching)
               PROVE  Cardinality(V) + fetch.offset <= left + Cardinality(C)
    BY DEF MissedInv
  <2>1. V \in SUBSET C /\ V \in SUBSET Row /\ C \in SUBSET Row
    BY <1>1 DEF AtTop
  <2>2. Cardinality(V) <= Cardinality(C)
    BY <2>1, CountMore
  <2>3. Cardinality(V) \in Nat /\ Cardinality(C) \in Nat
    BY <2>1, CountsAreNat
  <2> QED
    BY <1>1, <2>2, <2>3
<1>3. RepeatedInv
  <2>1. Cardinality({}) = 0
    BY FS_EmptySet
  <2>2. ASSUME NEW V \in SUBSET (batches \cap matching) PROVE V = {}
    BY <1>1
  <2> QED
    BY <1>1, <2>1, <2>2 DEF RepeatedInv
<1> QED
  BY <1>1, <1>2, <1>3 DEF PagingInv, TotalInv, FewMissed, FewRepeated, Read

LEMMA PagingStep ==
    ASSUME PagingTypeOK, PagingTypeOK', PagingInv, PagingNext
    PROVE  PagingInv'
<1>0. MissedInv /\ TotalInv /\ RepeatedInv
  BY DEF PagingInv
<1>1. CASE Count
  <2>1. /\ fetch'.offset = fetch.offset /\ fetch'.pc = "select" /\ fetch.pc = "count"
        /\ UNCHANGED <<matching, batches, lines, always, left, entered, split>>
    BY <1>1 DEF Count, PagingTypeOK
  <2> QED
    BY <1>0, <1>1, <2>1, TotalStep
    DEF PagingInv, MissedInv, RepeatedInv, Reading, FewMissed, FewRepeated, Read,
        PagingNext
<1>2. CASE Select
  <2>1. fetch.pc = "select"
    BY <1>2, SelectHasPage
  <2>2. PICK before \in SUBSET matching, upto \in SUBSET matching :
          SelectPage(before, upto)
    BY <1>2, SelectHasPage
  <2>3. MissedInv' /\ TotalInv' /\ RepeatedInv'
    BY <1>0, <1>2, <2>1, <2>2, MissedSelect, RepeatedSelect, TotalStep DEF PagingNext
  <2>4. FewMissed'
    <3>1. Read' => Exhausted(upto \ before)
      BY <2>2, PageFacts DEF Read
    <3> QED
      BY <1>0, <2>1, <2>2, <3>1, FewMissedAtLast DEF FewMissed
  <2>5. FewRepeated'
    BY <1>0, <2>1, <2>2, RepeatedSelect DEF FewRepeated
  <2> QED
    BY <2>3, <2>4, <2>5 DEF PagingInv
<1>3. CASE TableChange
  <2>1. ~Read'
    BY <1>3 DEF TableChange, Read
  <2> QED
    BY <1>0, <1>3, <2>1, MissedTable, RepeatedTable, TotalStep
    DEF PagingInv, FewMissed, FewRepeated, PagingNext
<1> QED
  BY <1>1, <1>2, <1>3 DEF PagingNext
=============================================================================
