------------------------- MODULE PulseRecordsProofs -------------------------
(***************************************************************************)
(* Theorems about the periods, the content that is reviewed, and the       *)
(* settings, for any commands, workers and limits.                         *)
(***************************************************************************)
EXTENDS LedgerProofs, Periods, ContentReview, RuntimeSettings

-----------------------------------------------------------------------------
(* Periods.                                                                *)

Stretch == [key : PeriodKeys, cont : BOOLEAN, status : {"draft", "active", "closed"}, from : Nat, to : Nat]

PeriodsTyped == clock \in 0 .. Horizon /\ periods \in Seq(Stretch)

(* Two windows never overlap, whatever their status.                       *)
WindowsApart ==
  \A i, j \in 1 .. Len(periods) :
    i # j /\ ~periods[i].cont /\ ~periods[j].cont =>
      ~ (periods[i].from < periods[j].to /\ periods[j].from < periods[i].to)

(* A continuous period has started.                                        *)
ContinuousBegan ==
  \A i \in 1 .. Len(periods) : periods[i].cont => periods[i].from <= Horizon

PeriodsAreSound == PeriodsTyped /\ WindowsApart /\ ContinuousBegan

(* What a command leaves behind is a period.                               *)
LEMMA StoredType ==
  ASSUME NEW c \in Creations, clock \in 0 .. Horizon
  PROVE  /\ Stored(c) \in Stretch
         /\ Stored(c).cont = c.cont
         /\ c.cont => Stored(c).from <= Horizon
         /\ ~c.cont => Stored(c).from = c.from /\ Stored(c).to = c.from + Length
<1>1. Length \in Nat /\ Horizon \in Nat /\ c.from \in Nat /\ c.cont \in BOOLEAN /\ c.activate \in BOOLEAN
  BY PeriodsAssumption
<1>2. c.key \in PeriodKeys
  BY DEF PeriodKeys
<1>3. Forever \in Nat
  BY <1>1 DEF Forever
<1>4. QED
  BY <1>1, <1>2, <1>3 DEF Stored, Stretch

(* The three facts are inductive: a new window is compared with all others *)
(* under the mutex of all creations.                                       *)
LEMMA PeriodsStep == PeriodsAreSound /\ [PeriodsNext]_periodVars => PeriodsAreSound'
<1> SUFFICES ASSUME PeriodsAreSound, [PeriodsNext]_periodVars PROVE PeriodsAreSound'
  OBVIOUS
<1>1. PeriodsTyped /\ WindowsApart /\ ContinuousBegan
  BY DEF PeriodsAreSound
<1>2. ASSUME NEW c \in Creations, Create(c) PROVE PeriodsAreSound'
  <2>1. periods' = Append(periods, Stored(c)) /\ clock' = clock
    BY <1>2 DEF Create
  <2>2. Stored(c) \in Stretch
    BY <1>1, StoredType DEF PeriodsTyped
  <2>3. PeriodsTyped'
    BY <1>1, <2>1, <2>2 DEF PeriodsTyped
  <2>4. /\ Len(periods') = Len(periods) + 1 /\ Len(periods) \in Nat
        /\ \A i \in 1 .. Len(periods) : periods'[i] = periods[i]
        /\ periods'[Len(periods) + 1] = Stored(c)
    BY <1>1, <2>1, <2>2 DEF PeriodsTyped
  <2>5. ContinuousBegan'
    <3>1. ASSUME NEW i \in 1 .. Len(periods) + 1, periods'[i].cont PROVE periods'[i].from <= Horizon
      <4>1. CASE i \in 1 .. Len(periods)
        BY <1>1, <2>4, <3>1, <4>1 DEF ContinuousBegan
      <4>2. CASE i = Len(periods) + 1
        BY <1>1, <2>4, <3>1, <4>2, StoredType DEF PeriodsTyped
      <4>3. QED
        BY <2>4, <4>1, <4>2
    <3>2. QED
      BY <2>4, <3>1 DEF ContinuousBegan
  <2>6. WindowsApart'
    <3>1. ASSUME NEW i \in 1 .. Len(periods), ~periods'[i].cont, ~c.cont
          PROVE  /\ ~ (periods'[i].from < Stored(c).to /\ Stored(c).from < periods'[i].to)
      <4>1. Overlapping(c.from, c.from + Length) = {}
        BY <1>2, <3>1 DEF Create
      <4>2. ~ (periods[i].from < c.from + Length /\ c.from < periods[i].to)
        BY <4>1 DEF Overlapping
      <4>3. Stored(c).from = c.from /\ Stored(c).to = c.from + Length
        BY <1>1, <3>1, StoredType DEF PeriodsTyped
      <4>4. QED
        BY <2>4, <4>2, <4>3
    <3>2. ASSUME NEW i \in 1 .. Len(periods) + 1, NEW j \in 1 .. Len(periods) + 1, i # j,
                 ~periods'[i].cont, ~periods'[j].cont
          PROVE  ~ (periods'[i].from < periods'[j].to /\ periods'[j].from < periods'[i].to)
      <4>1. CASE i \in 1 .. Len(periods) /\ j \in 1 .. Len(periods)
        BY <1>1, <2>4, <3>2, <4>1 DEF WindowsApart
      <4>2. CASE i = Len(periods) + 1
        <5>1. j \in 1 .. Len(periods) /\ ~c.cont
          BY <1>1, <2>4, <3>2, <4>2, StoredType DEF PeriodsTyped
        <5>2. QED
          BY <2>4, <3>1, <3>2, <4>2, <5>1
      <4>3. CASE j = Len(periods) + 1
        <5>1. i \in 1 .. Len(periods) /\ ~c.cont
          BY <1>1, <2>4, <3>2, <4>3, StoredType DEF PeriodsTyped
        <5>2. QED
          BY <2>4, <3>1, <3>2, <4>3, <5>1
      <4>4. QED
        BY <2>4, <4>1, <4>2, <4>3
    <3>3. QED
      BY <2>4, <3>2 DEF WindowsApart
  <2>7. QED
    BY <2>3, <2>5, <2>6 DEF PeriodsAreSound
<1>3. ASSUME NEW i \in 1 .. Len(periods), CloseWindow(i) PROVE PeriodsAreSound'
  <2>1. periods' = [periods EXCEPT ![i].status = "closed"] /\ clock' = clock
    BY <1>3 DEF CloseWindow
  <2>2. /\ periods' \in Seq(Stretch) /\ Len(periods') = Len(periods)
        /\ \A j \in 1 .. Len(periods) :
             /\ periods'[j].cont = periods[j].cont
             /\ periods'[j].from = periods[j].from /\ periods'[j].to = periods[j].to
    <3>1. periods \in Seq(Stretch) /\ i \in 1 .. Len(periods) /\ i \in Int
      BY <1>1 DEF PeriodsTyped
    <3>2. /\ [periods[i] EXCEPT !.status = "closed"] \in Stretch
          /\ [periods[i] EXCEPT !.status = "closed"].cont = periods[i].cont
          /\ [periods[i] EXCEPT !.status = "closed"].from = periods[i].from
          /\ [periods[i] EXCEPT !.status = "closed"].to = periods[i].to
      <4>1. periods[i] \in Stretch
        BY <3>1
      <4>2. QED
        BY <4>1, Zenon DEF Stretch
    <3>3. periods' = [periods EXCEPT ![i] = [periods[i] EXCEPT !.status = "closed"]]
      BY <2>1
    <3>4. /\ periods' \in Seq(Stretch) /\ Len(periods') = Len(periods)
          /\ \A j \in 1 .. Len(periods) :
               periods'[j] = IF j = i THEN [periods[i] EXCEPT !.status = "closed"] ELSE periods[j]
      BY <3>1, <3>2, <3>3
    <3>5. QED
      BY <3>2, <3>4
  <2>3. QED
    BY <1>1, <2>1, <2>2 DEF PeriodsAreSound, PeriodsTyped, WindowsApart, ContinuousBegan
<1>4. CASE Tick
  BY <1>1, <1>4, PeriodsAssumption DEF Tick, PeriodsAreSound, PeriodsTyped, WindowsApart, ContinuousBegan
<1>5. CASE UNCHANGED periodVars
  BY <1>1, <1>5 DEF periodVars, PeriodsAreSound, PeriodsTyped, WindowsApart, ContinuousBegan
<1>6. QED
  BY <1>2, <1>3, <1>4, <1>5 DEF PeriodsNext

(* One of the continuous periods over an instant is the one that is taken. *)
LEMMA LastContinuous ==
  ASSUME PeriodsAreSound, NEW H, H # {},
         \A j \in H : j \in 1 .. Len(periods) /\ periods[j].cont
  PROVE  \E i \in H :
           \A j \in H :
             \/ periods[j].from < periods[i].from
             \/ periods[j].from = periods[i].from /\ j <= i
<1> DEFINE F == {periods[j].from : j \in H}
<1>1. Len(periods) \in Nat /\ Horizon \in Nat
  BY PeriodsAssumption DEF PeriodsAreSound, PeriodsTyped
<1>2. ASSUME NEW j \in H PROVE j \in 1 .. Len(periods) /\ periods[j].from \in 0 .. Horizon
  <2>1. j \in 1 .. Len(periods) /\ periods[j].cont
    OBVIOUS
  <2>2. periods[j] \in Stretch
    BY <2>1 DEF PeriodsAreSound, PeriodsTyped
  <2>3. periods[j].from \in Nat
    BY <2>2 DEF Stretch
  <2>4. periods[j].from <= Horizon
    BY <2>1 DEF PeriodsAreSound, ContinuousBegan
  <2>5. QED
    BY <1>1, <2>1, <2>3, <2>4
<1>3. F \in SUBSET (0 .. Horizon) /\ F # {}
  BY <1>2
<1>4. PICK f \in F : \A g \in F : g <= f
  BY <1>1, <1>3, HighestNumber
<1> DEFINE L == {j \in H : periods[j].from = f}
<1>5. L \in SUBSET (0 .. Len(periods)) /\ L # {}
  <2>1. \A j \in H : j \in 0 .. Len(periods)
    BY <1>1, <1>2
  <2>2. QED
    BY <2>1
<1>6. PICK i \in L : \A j \in L : j <= i
  BY <1>1, <1>5, HighestNumber
<1>7. ASSUME NEW j \in H
      PROVE  periods[j].from < periods[i].from \/ (periods[j].from = periods[i].from /\ j <= i)
  <2>1. periods[j].from <= periods[i].from /\ periods[i].from = f
    BY <1>4
  <2>2. periods[j].from \in 0 .. Horizon /\ periods[i].from \in 0 .. Horizon
    BY <1>2
  <2>3. periods[j].from = f => j <= i
    BY <1>6
  <2>4. QED
    BY <1>1, <2>1, <2>2, <2>3
<1>8. QED
  BY <1>7

(* No instant is claimed by two windows.                                   *)
LEMMA AnswerExists == PeriodsAreSound => NeverAmbiguous
<1> SUFFICES ASSUME PeriodsAreSound, NEW at \in 0 .. Forever PROVE ResolveActive(at) # Overlap
  BY DEF NeverAmbiguous
<1>1. Len(periods) \in Nat
  BY DEF PeriodsAreSound, PeriodsTyped
<1>2. CASE Holding(at, TRUE) # {}
  <2>1. ResolveActive(at) \in Holding(at, TRUE)
    <3>1. \A j \in Holding(at, TRUE) : j \in 1 .. Len(periods) /\ periods[j].cont
      BY DEF Holding
    <3>2. QED
      BY <1>2, <3>1, LastContinuous DEF ResolveActive
  <2>2. QED
    BY <1>1, <2>1 DEF Holding, Overlap
<1>3. CASE Holding(at, TRUE) = {}
  <2>1. CASE Holding(at, FALSE) = {}
    <3>1. ResolveActive(at) = NoActive
      BY <1>3, <2>1 DEF ResolveActive
    <3>2. QED
      BY <3>1 DEF NoActive, Overlap
  <2>2. CASE Holding(at, FALSE) # {}
    <3>1. PICK i \in Holding(at, FALSE) : TRUE
      BY <2>2
    <3>2. ASSUME NEW j \in Holding(at, FALSE) PROVE j = i
      <4>1. /\ i \in 1 .. Len(periods) /\ ~periods[i].cont /\ periods[i].from <= at /\ at < periods[i].to
            /\ j \in 1 .. Len(periods) /\ ~periods[j].cont /\ periods[j].from <= at /\ at < periods[j].to
        BY DEF Holding, Holds
      <4>2. /\ periods[i].from \in Nat /\ periods[i].to \in Nat /\ periods[j].from \in Nat
            /\ periods[j].to \in Nat /\ at \in Int
        <5>1. periods[i] \in Stretch /\ periods[j] \in Stretch
          BY <4>1 DEF PeriodsAreSound, PeriodsTyped
        <5>2. Forever \in Int
          BY PeriodsAssumption DEF Forever
        <5>3. QED
          BY <5>1, <5>2 DEF Stretch
      <4>3. periods[i].from < periods[j].to /\ periods[j].from < periods[i].to
        BY <4>1, <4>2
      <4>4. QED
        BY <4>1, <4>3 DEF PeriodsAreSound, WindowsApart
    <3>3. Holding(at, FALSE) = {i}
      BY <3>1, <3>2
    <3>4. Cardinality(Holding(at, FALSE)) = 1
      BY <3>3, FS_Singleton
    <3>5. ResolveActive(at) = (CHOOSE j \in Holding(at, FALSE) : TRUE)
      <4>1. \A n : n = 1 => ~ (n > 1)
        OBVIOUS
      <4>2. ~ (Cardinality(Holding(at, FALSE)) > 1)
        BY <3>4, <4>1, Zenon
      <4>3. QED
        BY <1>3, <2>2, <4>2 DEF ResolveActive
    <3>6. ResolveActive(at) \in Holding(at, FALSE)
      BY <2>2, <3>5
    <3>7. QED
      BY <1>1, <3>6 DEF Holding, Overlap
  <2>3. QED
    BY <2>1, <2>2
<1>4. QED
  BY <1>2, <1>3

(* In whatever order windows and continuous periods are created, every     *)
(* instant has one period at most that draws and reviews are charged to.   *)
THEOREM PeriodsNeverAmbiguous == PeriodsSpec => []NeverAmbiguous
<1>1. PeriodsInit => PeriodsAreSound
  BY PeriodsAssumption DEF PeriodsInit, PeriodsAreSound, PeriodsTyped, WindowsApart, ContinuousBegan
<1>2. QED
  BY <1>1, PeriodsStep, AnswerExists, PTL DEF PeriodsSpec

-----------------------------------------------------------------------------
(* Content: what is ingested.                                              *)

PublishedRow == [hash : Nat \ {0}, show : BOOLEAN]
CandidateRow == [status : {"pending", "approved"}, hash : Nat]
PageRow      == [id : Questions, hash : Nat, skip : BOOLEAN]

IngestTyped ==
  /\ question \in [Questions -> {Unpublished} \cup PublishedRow]
  /\ candidate \in [Questions -> {NoCandidate} \cup CandidateRow]
  /\ cursor \in Nat
  /\ page \in [Ingesters -> [from : Nat, rows : SUBSET PageRow]]

(* What is left of a page are questions behind its place; between that     *)
(* place and a question of the page every question is on the page, unless  *)
(* it was published late.                                                  *)
PagesComplete ==
  \A w \in Ingesters : \A r \in page[w].rows :
    /\ r.id \in Published /\ page[w].from < r.id
    /\ \A s \in page[w].rows : s.id = r.id => s = r
    /\ \A q \in Published \ late :
         page[w].from < q /\ q < r.id => \E s \in page[w].rows : s.id = q

(* The cursor stands before all questions or on one.                       *)
CursorOnQuestion == cursor \in {0} \cup Published

IngestIsSound == IngestTyped /\ PagesComplete /\ CursorOnQuestion /\ QuestionsAreSeen

(* A candidate can be told from none.                                      *)
LEMMA CandidateIsSome == \A x \in CandidateRow : x # NoCandidate
<1> SUFFICES ASSUME NEW x \in CandidateRow, x = NoCandidate PROVE FALSE
  OBVIOUS
<1>1. x.status \in {"pending", "approved"}
  BY DEF CandidateRow
<1>2. x.status = "none"
  BY DEF NoCandidate
<1>3. QED
  BY <1>1, <1>2

(* A published question can be told from one that is not, and an edit does *)
(* not change that.                                                        *)
LEMMA EditedIsPublished ==
  ASSUME NEW x \in PublishedRow
  PROVE  /\ x # Unpublished
         /\ [x EXCEPT !.hash = @ + 1] \in PublishedRow
         /\ [x EXCEPT !.show = ~@] \in PublishedRow
<1>1. x.hash \in Nat /\ x.hash # 0 /\ x.show \in BOOLEAN
  BY DEF PublishedRow
<1>2. x # Unpublished
  BY <1>1 DEF Unpublished
<1>3. x.hash + 1 \in Nat \ {0}
  BY <1>1
<1>4. [x EXCEPT !.hash = @ + 1] \in PublishedRow
  BY <1>3, Zenon DEF PublishedRow
<1>5. [x EXCEPT !.show = ~@] \in PublishedRow
  BY <1>1, Zenon DEF PublishedRow
<1>6. QED
  BY <1>2, <1>4, <1>5

(* The first row of a page that is not empty.                              *)
LEMMA HeadIsFirst ==
  ASSUME IngestTyped, NEW w \in Ingesters, page[w].rows # {}
  PROVE  /\ HeadRow(w) \in page[w].rows
         /\ \A s \in page[w].rows : HeadRow(w).id <= s.id
<1> DEFINE Ids == {s.id : s \in page[w].rows}
<1>1. page[w].rows \in SUBSET PageRow
  BY DEF IngestTyped
<1>2. \A s \in page[w].rows : s.id \in Nat
  BY <1>1, ContentAssumption DEF PageRow
<1>3. Ids \in SUBSET Nat /\ Ids # {}
  BY <1>2
<1>4. PICK m \in Ids : \A n \in Ids : m <= n
  BY <1>3, LowestNumber
<1>5. \E r \in page[w].rows : \A s \in page[w].rows : r.id <= s.id
  BY <1>4
<1>6. QED
  BY <1>5 DEF HeadRow

(* A page has every published question between its place and its rows.     *)
LEMMA FetchIsComplete ==
  ASSUME IngestTyped, NEW c \in Nat, NEW r \in Behind(c), NEW q \in Published, c < q, q < r
  PROVE  q \in Behind(c)
<1> DEFINE P(x) == {p \in Published : c < p /\ p < x}
<1>1. r \in Published /\ Cardinality(P(r)) < PageLimit
  BY DEF Behind
<1>2. Published \subseteq Questions /\ Questions \subseteq Nat /\ IsFiniteSet(Questions)
  BY ContentAssumption DEF Published
<1>3. P(q) \subseteq P(r)
  <2>1. \A p \in Published : p < q => p < r
    BY <1>1, <1>2
  <2>2. QED
    BY <2>1
<1>4. P(r) \subseteq Questions
  BY <1>2
<1>5. IsFiniteSet(P(r))
  BY <1>2, <1>4, FS_Subset
<1>6. IsFiniteSet(P(q)) /\ Cardinality(P(q)) <= Cardinality(P(r))
  BY <1>3, <1>5, FS_Subset
<1>7. Cardinality(P(q)) \in Nat /\ Cardinality(P(r)) \in Nat /\ PageLimit \in Nat
  BY <1>5, <1>6, FS_CardinalityType, ContentAssumption
<1>8. Cardinality(P(q)) < PageLimit
  BY <1>1, <1>6, <1>7
<1>9. QED
  BY <1>2, <1>8 DEF Behind

(* A new question does not lie between the rows of a page, or is late.     *)
LEMMA PublishStep ==
  ASSUME IngestIsSound, NEW q \in Questions, Publish(q)
  PROVE  IngestIsSound'
<1> USE DEF IngestIsSound
<1>1. /\ UNCHANGED <<candidate, cursor, page, ineligible>>
      /\ question' = [question EXCEPT ![q] = [hash |-> 1, show |-> TRUE]]
      /\ q \notin Published
  BY DEF Publish
<1>2. [hash |-> 1, show |-> TRUE] \in PublishedRow
  BY DEF PublishedRow
<1>3. [hash |-> 1, show |-> TRUE] # Unpublished
  BY <1>2, EditedIsPublished
<1>4. Published' = Published \cup {q}
  BY <1>1, <1>3 DEF Published, IngestTyped
<1>5. IngestTyped'
  BY <1>1, <1>2 DEF IngestTyped
<1>6. late \subseteq late' /\ \A p \in Published : q < p => q \in late'
  BY DEF Publish
<1>7. PagesComplete'
  <2> SUFFICES ASSUME NEW w \in Ingesters, NEW r \in page[w].rows
               PROVE  /\ r.id \in Published' /\ page[w].from < r.id
                      /\ \A s \in page[w].rows : s.id = r.id => s = r
                      /\ \A p \in Published' \ late' :
                           page[w].from < p /\ p < r.id => \E s \in page[w].rows : s.id = p
    BY <1>1 DEF PagesComplete
  <2>1. r.id \in Published
    BY DEF PagesComplete
  <2>2. ASSUME NEW p \in Published' \ late', page[w].from < p, p < r.id
        PROVE  \E s \in page[w].rows : s.id = p
    <3>1. p # q
      BY <1>6, <2>1, <2>2
    <3>2. p \in Published \ late
      BY <1>4, <1>6, <3>1
    <3>3. QED
      BY <2>2, <3>2 DEF PagesComplete
  <2>3. QED
    BY <1>4, <2>1, <2>2 DEF PagesComplete
<1>8. QuestionsAreSeen'
  <2> SUFFICES ASSUME NEW p \in Published' \ (late' \cup ineligible), p <= cursor
               PROVE  candidate[p] # NoCandidate
    BY <1>1 DEF QuestionsAreSeen
  <2>1. CASE p \in Published
    BY <1>6, <2>1 DEF QuestionsAreSeen
  <2>2. CASE p = q
    <3>1. q # 0 /\ q \in Nat /\ cursor \in Nat
      BY ContentAssumption DEF IngestTyped
    <3>2. cursor \in Published /\ q < cursor
      BY <1>1, <2>2, <3>1 DEF CursorOnQuestion
    <3>3. QED
      BY <1>6, <2>2, <3>2
  <2>3. QED
    BY <1>4, <2>1, <2>2
<1>9. CursorOnQuestion'
  BY <1>1, <1>4 DEF CursorOnQuestion
<1>10. QED
  BY <1>5, <1>7, <1>8, <1>9

(* Edits, whatever they change, leave a question where it is.              *)
LEMMA EditStep ==
  ASSUME IngestIsSound, NEW q \in Questions, Edit(q)
  PROVE  IngestIsSound'
<1> USE DEF IngestIsSound
<1>1. UNCHANGED <<candidate, cursor, page, ineligible, late>> /\ q \in Published
  BY DEF Edit
<1>2. question[q] \in PublishedRow
  BY <1>1 DEF IngestTyped, Published
<1>3. PICK x \in PublishedRow : question' = [question EXCEPT ![q] = x]
  <2>1. CASE question' = [question EXCEPT ![q].hash = @ + 1]
    <3>1. question' = [question EXCEPT ![q] = [question[q] EXCEPT !.hash = @ + 1]]
      BY <2>1
    <3>2. QED
      BY <1>2, <3>1, EditedIsPublished
  <2>2. CASE question' = [question EXCEPT ![q].show = ~@]
    <3>1. question' = [question EXCEPT ![q] = [question[q] EXCEPT !.show = ~@]]
      BY <2>2
    <3>2. QED
      BY <1>2, <3>1, EditedIsPublished
  <2>3. QED
    BY <2>1, <2>2 DEF Edit
<1>4. x # Unpublished
  BY <1>3, EditedIsPublished
<1>5. Published' = Published
  BY <1>1, <1>3, <1>4 DEF Published, IngestTyped
<1>6. IngestTyped'
  BY <1>1, <1>3 DEF IngestTyped
<1>7. PagesComplete' /\ QuestionsAreSeen' /\ CursorOnQuestion'
  BY <1>1, <1>5 DEF PagesComplete, QuestionsAreSeen, CursorOnQuestion
<1>8. QED
  BY <1>6, <1>7

(* A page is complete when it is fetched.                                  *)
LEMMA FetchStep ==
  ASSUME IngestIsSound, NEW w \in Ingesters, Fetch(w)
  PROVE  IngestIsSound'
<1> USE DEF IngestIsSound
<1> DEFINE RowOf(q) == [id |-> q, hash |-> question[q].hash, skip |-> ~question[q].show]
           Fetched == {RowOf(q) : q \in Behind(cursor)}
<1>1. /\ UNCHANGED <<question, candidate, cursor, ineligible, late>>
      /\ page' = [page EXCEPT ![w] = [from |-> cursor, rows |-> Fetched]]
  BY DEF Fetch
<1>2. Published' = Published /\ cursor \in Nat
  BY <1>1 DEF Published, IngestTyped
<1>3. ASSUME NEW q \in Behind(cursor)
      PROVE  /\ RowOf(q) \in PageRow /\ RowOf(q).id = q
             /\ q \in Published /\ cursor < q
  <2>1. q \in Published /\ q \in Questions /\ q > cursor /\ q \in Nat
    BY ContentAssumption DEF Behind, Published
  <2>2. question[q] \in PublishedRow
    BY <2>1 DEF IngestTyped, Published
  <2>3. question[q].hash \in Nat
    BY <2>2 DEF PublishedRow
  <2>4. RowOf(q) \in PageRow
    BY <2>1, <2>3, Zenon DEF PageRow
  <2>5. cursor < q
    BY <1>2, <2>1
  <2>6. QED
    BY <2>1, <2>4, <2>5
<1> HIDE DEF RowOf
<1>4. page'[w] = [from |-> cursor, rows |-> Fetched] /\ \A v \in Ingesters : v # w => page'[v] = page[v]
  BY <1>1 DEF IngestTyped
<1>5. IngestTyped'
  <2>1. Fetched \in SUBSET PageRow
    BY <1>3
  <2>2. [from |-> cursor, rows |-> Fetched] \in [from : Nat, rows : SUBSET PageRow]
    BY <1>2, <2>1
  <2>3. QED
    BY <1>1, <2>2 DEF IngestTyped
<1>6. PagesComplete'
  <2>1. ASSUME NEW r \in Fetched
        PROVE  /\ r.id \in Published /\ cursor < r.id
               /\ \A s \in Fetched : s.id = r.id => s = r
               /\ \A q \in Published \ late : cursor < q /\ q < r.id => \E s \in Fetched : s.id = q
    <3>1. PICK p \in Behind(cursor) : r = RowOf(p)
      BY <2>1
    <3>2. r.id = p /\ p \in Published /\ cursor < p
      BY <1>3, <3>1
    <3>3. \A s \in Fetched : s.id = p => s = RowOf(p)
      BY <1>3
    <3>4. ASSUME NEW q \in Published \ late, cursor < q, q < p PROVE \E s \in Fetched : s.id = q
      <4>1. q \in Behind(cursor)
        BY <1>2, <3>4, FetchIsComplete
      <4>2. RowOf(q) \in Fetched /\ RowOf(q).id = q
        BY <1>3, <4>1
      <4>3. QED
        BY <4>2
    <3>5. QED
      BY <3>1, <3>2, <3>3, <3>4
  <2> HIDE DEF Fetched
  <2>2. ASSUME NEW v \in Ingesters, NEW r \in page'[v].rows
        PROVE  /\ r.id \in Published /\ page'[v].from < r.id
               /\ \A s \in page'[v].rows : s.id = r.id => s = r
               /\ \A q \in Published \ late :
                    page'[v].from < q /\ q < r.id => \E s \in page'[v].rows : s.id = q
    <3>1. CASE v = w
      <4>1. page'[v].from = cursor /\ page'[v].rows = Fetched
        BY <1>4, <3>1
      <4>2. QED
        BY <2>1, <2>2, <4>1
    <3>2. CASE v # w
      <4>1. page'[v] = page[v]
        BY <1>4, <3>2
      <4>2. QED
        BY <2>2, <4>1 DEF PagesComplete
    <3>3. QED
      BY <3>1, <3>2
  <2>3. QED
    BY <1>1, <1>2, <2>2 DEF PagesComplete
<1>7. QuestionsAreSeen' /\ CursorOnQuestion'
  BY <1>1, <1>2 DEF QuestionsAreSeen, CursorOnQuestion
<1>8. QED
  BY <1>5, <1>6, <1>7

(* A page that is dropped leaves nothing behind.                           *)
LEMMA DropStep ==
  ASSUME IngestIsSound, NEW w \in Ingesters, DropPage(w)
  PROVE  IngestIsSound'
<1> USE DEF IngestIsSound
<1>1. /\ UNCHANGED <<question, candidate, cursor, ineligible, late>>
      /\ page' = [page EXCEPT ![w] = NoPage]
  BY DEF DropPage
<1>2. Published' = Published
  BY <1>1 DEF Published
<1>3. NoPage \in [from : Nat, rows : SUBSET PageRow] /\ NoPage.rows = {}
  BY DEF NoPage
<1>4. IngestTyped'
  BY <1>1, <1>3 DEF IngestTyped
<1>5. \A v \in Ingesters : page'[v] = page[v] \/ page'[v].rows = {}
  BY <1>1, <1>3 DEF IngestTyped
<1>6. PagesComplete'
  BY <1>1, <1>2, <1>5 DEF PagesComplete
<1>7. QuestionsAreSeen' /\ CursorOnQuestion'
  BY <1>1, <1>2 DEF QuestionsAreSeen, CursorOnQuestion
<1>8. QED
  BY <1>4, <1>6, <1>7

(* The cursor passes a question by looking at it: the compare-and-set of   *)
(* the cursor refuses a page that another worker has overtaken.            *)
LEMMA ProcessStep ==
  ASSUME IngestIsSound, NEW w \in Ingesters, ProcessOne(w)
  PROVE  IngestIsSound'
<1> USE DEF IngestIsSound
<1> DEFINE r == HeadRow(w)
<1>1. /\ r \in page[w].rows
      /\ \A s \in page[w].rows : r.id <= s.id
  BY HeadIsFirst DEF ProcessOne
<1>2. /\ ~Advanced(w, r)
      /\ candidate' = Ingested(r)
      /\ cursor' = r.id
      /\ ineligible' = IF r.skip THEN ineligible \cup {r.id} ELSE ineligible
      /\ page' = [page EXCEPT ![w] = [from |-> r.id, rows |-> @.rows \ {r}]]
      /\ UNCHANGED <<question, late>>
  BY DEF ProcessOne, NextCursor
<1> HIDE DEF r
<1>3. Published' = Published
  BY <1>2 DEF Published
<1>4. /\ r \in PageRow /\ r.id \in Questions /\ r.id \in Nat /\ r.id \in Published
      /\ page[w].from \in Nat /\ page[w].from < r.id /\ cursor \in Nat
  <2>1. r \in PageRow /\ page[w].from \in Nat /\ cursor \in Nat
    BY <1>1 DEF IngestTyped
  <2>2. r.id \in Questions
    BY <2>1 DEF PageRow
  <2>3. QED
    BY <1>1, <2>1, <2>2, ContentAssumption DEF PagesComplete
<1>5. /\ page'[w] = [from |-> r.id, rows |-> page[w].rows \ {r}]
      /\ \A v \in Ingesters : v # w => page'[v] = page[v]
  BY <1>2 DEF IngestTyped
<1>6. /\ \/ candidate' = candidate
         \/ /\ candidate[r.id] = NoCandidate
            /\ candidate' = [candidate EXCEPT ![r.id] = [status |-> "pending", hash |-> r.hash]]
      /\ r.skip \/ candidate'[r.id] # NoCandidate
      /\ [status |-> "pending", hash |-> r.hash] \in CandidateRow
  <2>1. r.hash \in Nat
    BY <1>4 DEF PageRow
  <2>2. [status |-> "pending", hash |-> r.hash] \in CandidateRow
    BY <2>1 DEF CandidateRow
  <2>3. [status |-> "pending", hash |-> r.hash] # NoCandidate
    BY <2>2, CandidateIsSome
  <2>4. CASE r.skip \/ candidate[r.id] # NoCandidate
    BY <1>2, <2>2, <2>4 DEF Ingested
  <2>5. CASE ~ (r.skip \/ candidate[r.id] # NoCandidate)
    <3>1. candidate' = [candidate EXCEPT ![r.id] = [status |-> "pending", hash |-> r.hash]]
      BY <1>2, <2>5 DEF Ingested
    <3>2. candidate'[r.id] = [status |-> "pending", hash |-> r.hash]
      BY <1>4, <3>1 DEF IngestTyped
    <3>3. QED
      BY <2>2, <2>3, <2>5, <3>1, <3>2
  <2>6. QED
    BY <2>4, <2>5
<1>7. IngestTyped'
  <2>1. candidate' \in [Questions -> {NoCandidate} \cup CandidateRow]
    BY <1>4, <1>6 DEF IngestTyped
  <2>2. [from |-> r.id, rows |-> page[w].rows \ {r}] \in [from : Nat, rows : SUBSET PageRow]
    BY <1>4 DEF IngestTyped
  <2>3. QED
    BY <1>2, <1>4, <2>1, <2>2 DEF IngestTyped
<1>8. PagesComplete'
  <2>1. ASSUME NEW s \in page[w].rows \ {r}
        PROVE  /\ s.id \in Published /\ r.id < s.id
               /\ \A t \in page[w].rows \ {r} : t.id = s.id => t = s
               /\ \A q \in Published \ late :
                    r.id < q /\ q < s.id => \E t \in page[w].rows \ {r} : t.id = q
    <3>1. s.id \in Published /\ \A t \in page[w].rows : t.id = s.id => t = s
      BY DEF PagesComplete
    <3>2. s.id \in Nat
      BY <3>1, ContentAssumption DEF Published
    <3>3. r.id <= s.id /\ r.id # s.id
      BY <1>1, <2>1, <3>1
    <3>4. r.id < s.id
      BY <1>4, <3>2, <3>3
    <3>5. ASSUME NEW q \in Published \ late, r.id < q, q < s.id
          PROVE  \E t \in page[w].rows \ {r} : t.id = q
      <4>1. q \in Nat
        BY ContentAssumption DEF Published
      <4>2. page[w].from < q
        BY <1>4, <3>5, <4>1
      <4>3. PICK t \in page[w].rows : t.id = q
        BY <3>5, <4>2 DEF PagesComplete
      <4>4. t # r
        BY <1>4, <3>5, <4>1, <4>3
      <4>5. QED
        BY <4>3, <4>4
    <3>6. QED
      BY <3>1, <3>4, <3>5
  <2>2. ASSUME NEW v \in Ingesters, NEW s \in page'[v].rows
        PROVE  /\ s.id \in Published /\ page'[v].from < s.id
               /\ \A t \in page'[v].rows : t.id = s.id => t = s
               /\ \A q \in Published \ late :
                    page'[v].from < q /\ q < s.id => \E t \in page'[v].rows : t.id = q
    <3>1. CASE v = w
      <4>1. page'[v].from = r.id /\ page'[v].rows = page[w].rows \ {r}
        BY <1>5, <3>1
      <4>2. QED
        BY <2>1, <2>2, <4>1
    <3>2. CASE v # w
      <4>1. page'[v] = page[v]
        BY <1>5, <3>2
      <4>2. QED
        BY <2>2, <4>1 DEF PagesComplete
    <3>3. QED
      BY <3>1, <3>2
  <2>3. QED
    BY <1>2, <1>3, <2>2 DEF PagesComplete
<1>9. QuestionsAreSeen'
  <2> SUFFICES ASSUME NEW q \in Published \ (late \cup ineligible'), q <= r.id
               PROVE  candidate'[q] # NoCandidate
    BY <1>2, <1>3 DEF QuestionsAreSeen
  <2>1. q \in Questions /\ q \in Nat /\ q \notin ineligible
    BY <1>2, ContentAssumption DEF Published
  <2>2. CASE q = r.id
    BY <1>2, <1>6, <2>2
  <2>3. CASE q # r.id /\ q <= cursor
    <3>1. candidate[q] # NoCandidate
      BY <2>1, <2>3 DEF QuestionsAreSeen
    <3>2. QED
      BY <1>6, <2>1, <2>3, <3>1 DEF IngestTyped
  <2>4. CASE q # r.id /\ ~ (q <= cursor)
    <3>1. cursor = page[w].from
      BY <1>2, <1>4, <2>1, <2>4 DEF Advanced
    <3>2. page[w].from < q /\ q < r.id
      BY <1>4, <2>1, <2>4, <3>1
    <3>3. PICK s \in page[w].rows : s.id = q
      BY <1>1, <3>2 DEF PagesComplete
    <3>4. r.id <= q
      BY <1>1, <3>3
    <3>5. QED
      BY <1>4, <2>1, <3>2, <3>4
  <2>5. QED
    BY <2>2, <2>3, <2>4
<1>10. CursorOnQuestion'
  BY <1>2, <1>3, <1>4 DEF CursorOnQuestion
<1>11. QED
  BY <1>7, <1>8, <1>9, <1>10

-----------------------------------------------------------------------------
(* Content: sums of awards.                                                *)

AwardUsers == {Author[q] : q \in Questions} \cup {"none"}
AwardRow ==
  [status : {"none", "pending", "settled", "limited", "reversed"}, user : AwardUsers, amount : Nat, day : Nat]
AwardTables == [Actions -> AwardRow]

(* Interval of the first n numbers.                                        *)
LEMMA FirstUnits ==
  ASSUME NEW n \in Nat
  PROVE  IsFiniteSet(1 .. n) /\ Cardinality(1 .. n) = n
<1>1. CASE n = 0
  <2>1. 1 .. n = {}
    BY <1>1
  <2>2. QED
    BY <1>1, <2>1, FS_EmptySet
<1>2. CASE n # 0
  <2>1. 1 \in Int /\ n \in Int /\ ~ (1 > n)
    BY <1>2
  <2>2. IsFiniteSet(1 .. n) /\ Cardinality(1 .. n) = n - 1 + 1
    BY <2>1, FS_Interval, Zenon
  <2>3. QED
    BY <2>2
<1>3. QED
  BY <1>1, <1>2

(* There are finitely many actions.                                        *)
LEMMA ActionsFinite == IsFiniteSet(Actions)
<1> DEFINE f == [c \in Reviews |-> <<c.q, c.version>>]
<1>1. IsFiniteSet(Reviews)
  BY ContentAssumption
<1>2. f \in Surjection(Reviews, Actions)
  <2>1. \A c \in Reviews : <<c.q, c.version>> \in Actions
    BY DEF Actions
  <2>2. \A a \in Actions : \E c \in Reviews : a = <<c.q, c.version>>
    BY DEF Actions
  <2>3. QED
    BY <2>1, <2>2 DEF Surjection
<1>3. QED
  BY <1>1, <1>2, FS_Surjection

(* The units of one award are as many as its amount.                       *)
LEMMA UnitsOfOneAward ==
  ASSUME NEW as \in AwardTables, NEW a \in Actions
  PROVE  /\ as[a].amount \in Nat
         /\ IsFiniteSet({a} \X (1 .. as[a].amount))
         /\ Cardinality({a} \X (1 .. as[a].amount)) = as[a].amount
<1>1. as[a].amount \in Nat
  BY DEF AwardTables, AwardRow
<1> DEFINE n == as[a].amount
<1> HIDE DEF n
<1>2. n \in Nat
  BY <1>1 DEF n
<1>3. IsFiniteSet(1 .. n) /\ Cardinality(1 .. n) = n
  BY <1>2, FirstUnits
<1>4. IsFiniteSet({a}) /\ Cardinality({a}) = 1
  BY FS_Singleton
<1>5. /\ IsFiniteSet({a} \X (1 .. n))
      /\ Cardinality({a} \X (1 .. n)) = 1 * n
  BY <1>3, <1>4, FS_Product, Zenon
<1>6. 1 * n = n
  BY <1>2
<1>7. QED
  BY <1>2, <1>5, <1>6 DEF n

(* The sum over any set of awards is a natural number.                     *)
LEMMA SumType ==
  ASSUME NEW as \in AwardTables, NEW S \in SUBSET Actions
  PROVE  IsFiniteSet(UnitsOf(as, S)) /\ SumOf(as, S) \in Nat
<1> DEFINE U(a) == {a} \X (1 .. as[a].amount)
<1>1. IsFiniteSet(S)
  BY ActionsFinite, FS_Subset
<1>2. \A a \in S : IsFiniteSet(U(a))
  BY UnitsOfOneAward
<1> HIDE DEF U
<1>3. IsFiniteSet({U(a) : a \in S})
  <2>1. \A a \in S : U(a) \in {U(b) : b \in S}
    OBVIOUS
  <2>2. [a \in S |-> U(a)] \in Surjection(S, {U(a) : a \in S})
    BY <2>1 DEF Surjection
  <2>3. QED
    BY <1>1, <2>2, FS_Surjection
<1>4. IsFiniteSet(UNION {U(a) : a \in S})
  BY <1>2, <1>3, FS_UNION
<1>5. IsFiniteSet(UnitsOf(as, S))
  BY <1>4 DEF U, UnitsOf
<1>6. QED
  BY <1>5, FS_CardinalityType DEF SumOf

(* No awards sum up to nothing.                                            *)
LEMMA SumEmpty == ASSUME NEW as PROVE SumOf(as, {}) = 0
  BY FS_EmptySet DEF SumOf, UnitsOf

(* An award more adds its amount.                                          *)
LEMMA SumAdd ==
  ASSUME NEW as \in AwardTables, NEW S \in SUBSET Actions, NEW a \in Actions, a \notin S
  PROVE  SumOf(as, S \cup {a}) = SumOf(as, S) + as[a].amount
<1> DEFINE A == {a} \X (1 .. as[a].amount)
           B == UnitsOf(as, S)
<1>1. UnitsOf(as, S \cup {a}) = B \cup A
  BY DEF UnitsOf
<1>2. B \cap A = {}
  <2>1. ASSUME NEW p \in B PROVE p[1] \in S
    <3>1. PICK x \in S : p \in {x} \X (1 .. as[x].amount)
      BY Zenon DEF UnitsOf
    <3>2. QED
      BY <3>1
  <2>2. \A p \in A : p[1] = a
    OBVIOUS
  <2>3. QED
    BY <2>1, <2>2
<1>3. IsFiniteSet(A) /\ Cardinality(A) = as[a].amount /\ as[a].amount \in Nat
  BY UnitsOfOneAward
<1>4. IsFiniteSet(B) /\ Cardinality(B) \in Nat
  BY SumType DEF SumOf
<1> HIDE DEF A, B
<1>5. Cardinality(B \cup A) = Cardinality(B) + Cardinality(A) - Cardinality({})
  BY <1>2, <1>3, <1>4, FS_Union
<1>6. Cardinality({}) = 0
  BY FS_EmptySet
<1>7. Cardinality(B \cup A) = Cardinality(B) + as[a].amount
  <2>1. \A x, y \in Nat : x + y - 0 = x + y
    OBVIOUS
  <2>2. QED
    BY <1>3, <1>4, <1>5, <1>6, <2>1, Zenon
<1>8. QED
  BY <1>1, <1>7 DEF SumOf, B

(* The sum depends on nothing but the amounts of the awards in the set.    *)
LEMMA SumSame ==
  ASSUME NEW as, NEW bs, NEW S, \A a \in S : bs[a].amount = as[a].amount
  PROVE  SumOf(bs, S) = SumOf(as, S)
<1>1. UnitsOf(bs, S) = UnitsOf(as, S)
  BY DEF UnitsOf
<1>2. QED
  BY <1>1 DEF SumOf

-----------------------------------------------------------------------------
(* Content: what is awarded.                                               *)

ReviewRow == [pc : {"limits"}, cmd : Reviews, day : Nat, awards : AwardTables]

ReviewTyped ==
  /\ award \in AwardTables
  /\ review \in [Reviewers -> {NotReviewing} \cup ReviewRow]
  /\ today \in Nat

AwardsDated ==
  /\ \A a \in Actions : award[a].day <= today
  /\ \A r \in Reviewers : review[r] # NotReviewing => review[r].day <= today

(* A reversal has two halves, and both come after the settlement.          *)
ReleasesDone ==
  \A a \in released : a \in Actions /\ award[a].status \in {"settled", "reversed"}

(* Whoever reviews holds his candidate alone, and its action has no award. *)
ReviewsAreFresh ==
  \A r \in Reviewers : review[r] # NotReviewing =>
    /\ award[ActionOf(review[r].cmd)] = NoAward
    /\ candidate[review[r].cmd.q] \in CandidateRow
    /\ \A s \in Reviewers :
         review[s] # NotReviewing /\ review[s].cmd.q = review[r].cmd.q => s = r

ContentWithinCap == reserved <= ContentCap

ReviewIsSound ==
  /\ ReviewTyped /\ AwardsDated /\ ReleasesDone /\ ReviewsAreFresh
  /\ AwardLimitsHold /\ ContentWithinCap

(* A review that has begun is told from one that has not.                  *)
LEMMA ReviewIsSome == \A x \in ReviewRow : x # NotReviewing
<1> SUFFICES ASSUME NEW x \in ReviewRow, x = NotReviewing PROVE FALSE
  OBVIOUS
<1>1. x.pc = "limits"
  BY DEF ReviewRow
<1>2. x.pc = "none"
  BY DEF NotReviewing
<1>3. QED
  BY <1>1, <1>2

(* The constants of a command.                                             *)
LEMMA CommandType ==
  ASSUME NEW c \in Reviews
  PROVE  /\ c.q \in Questions /\ c.amount \in Nat /\ ActionOf(c) \in Actions
         /\ Author[c.q] \in AwardUsers
  BY ContentAssumption DEF ActionOf, Actions, AwardUsers

(* The award of another action than that of a review is its own.           *)
LEMMA ActionTellsQuestion ==
  ASSUME NEW c \in Reviews, NEW d \in Reviews, ActionOf(c) = ActionOf(d)
  PROVE  c.q = d.q
  BY DEF ActionOf

(* What all actions but the end of a review leave to the next state.       *)
LEMMA BeginStep ==
  ASSUME ReviewIsSound, IngestTyped, NEW r \in Reviewers, NEW c \in Reviews, BeginReview(r, c)
  PROVE  ReviewIsSound'
<1> USE DEF ReviewIsSound
<1>1. PICK day \in 0 .. today :
        /\ UNCHANGED <<award, reserved, released, today, candidate>>
        /\ review' = [review EXCEPT ![r] = [pc |-> "limits", cmd |-> c, day |-> day, awards |-> award]]
        /\ review[r] = NotReviewing /\ ~CandidateLocked(c.q)
        /\ candidate[c.q].status \in {"pending", "approved"}
        /\ award[ActionOf(c)] = NoAward
  BY DEF BeginReview, ingestVars
<1>2. [pc |-> "limits", cmd |-> c, day |-> day, awards |-> award] \in ReviewRow
  BY DEF ReviewRow, ReviewTyped
<1>3. ReviewTyped'
  BY <1>1, <1>2 DEF ReviewTyped
<1>4. candidate[c.q] \in CandidateRow
  <2>1. candidate[c.q] \in {NoCandidate} \cup CandidateRow
    BY CommandType DEF IngestTyped
  <2>2. candidate[c.q] # NoCandidate
    BY <1>1 DEF NoCandidate
  <2>3. QED
    BY <2>1, <2>2
<1>5. /\ review'[r].cmd = c /\ review'[r].day <= today
      /\ \A s \in Reviewers : s # r => review'[s] = review[s]
  BY <1>1 DEF ReviewTyped
<1>6. \A s \in Reviewers : review[s] # NotReviewing => review[s].cmd.q # c.q
  BY <1>1 DEF CandidateLocked
<1>7. ReviewsAreFresh'
  <2> SUFFICES ASSUME NEW s \in Reviewers, review'[s] # NotReviewing
               PROVE  /\ award[ActionOf(review'[s].cmd)] = NoAward
                      /\ candidate[review'[s].cmd.q] \in CandidateRow
                      /\ \A t \in Reviewers :
                           review'[t] # NotReviewing /\ review'[t].cmd.q = review'[s].cmd.q => t = s
    BY <1>1 DEF ReviewsAreFresh, ActionOf
  <2>1. CASE s = r
    BY <1>1, <1>4, <1>5, <1>6, <2>1
  <2>2. CASE s # r
    BY <1>5, <1>6, <2>2 DEF ReviewsAreFresh
  <2>3. QED
    BY <2>1, <2>2
<1>8. AwardsDated' /\ ReleasesDone'
  BY <1>1, <1>5 DEF AwardsDated, ReleasesDone
<1>9. AwardLimitsHold' /\ ContentWithinCap'
  BY <1>1 DEF AwardLimitsHold, ContentWithinCap, HeldAwards, SumUserActive, SumDailyActive, ActiveAwards,
              SumOf, UnitsOf
<1>10. QED
  BY <1>3, <1>7, <1>8, <1>9

(* A review that fails leaves nothing behind.                              *)
LEMMA AbortStep ==
  ASSUME ReviewIsSound, NEW r \in Reviewers, AbortReview(r)
  PROVE  ReviewIsSound'
<1> USE DEF ReviewIsSound
<1>1. /\ UNCHANGED <<award, reserved, released, today, candidate>>
      /\ review' = [review EXCEPT ![r] = NotReviewing]
  BY DEF AbortReview, ingestVars
<1>2. ReviewTyped'
  BY <1>1 DEF ReviewTyped
<1>3. \A s \in Reviewers : review'[s] = review[s] \/ review'[s] = NotReviewing
  BY <1>1 DEF ReviewTyped
<1>4. ReviewsAreFresh'
  BY <1>1, <1>3 DEF ReviewsAreFresh, ActionOf
<1>5. AwardsDated' /\ ReleasesDone'
  BY <1>1, <1>3 DEF AwardsDated, ReleasesDone
<1>6. AwardLimitsHold' /\ ContentWithinCap'
  BY <1>1 DEF AwardLimitsHold, ContentWithinCap, HeldAwards, SumUserActive, SumDailyActive, ActiveAwards,
              SumOf, UnitsOf
<1>7. QED
  BY <1>2, <1>4, <1>5, <1>6

(* The end of a review: the sums are read under the guard row, so they     *)
(* hold when the award is written.                                         *)
LEMMA FinishStep ==
  ASSUME ReviewIsSound, IngestTyped, NEW r \in Reviewers, FinishReview(r)
  PROVE  ReviewIsSound'
<1> USE DEF ReviewIsSound
<1> DEFINE c  == review[r].cmd
           a  == ActionOf(c)
           ok == WithinLimits(r)
           dd == review[r].day
           row == [status |-> IF ok THEN "pending" ELSE "limited", user |-> Author[c.q],
                   amount |-> c.amount, day |-> dd]
<1>1. /\ review[r] # NotReviewing
      /\ ok => reserved + c.amount <= ContentCap
      /\ award' = [award EXCEPT ![a] = row]
      /\ reserved' = IF ok THEN reserved + c.amount ELSE reserved
      /\ candidate' = [candidate EXCEPT ![c.q].status = "approved"]
      /\ review' = [review EXCEPT ![r] = NotReviewing]
      /\ UNCHANGED <<released, today>>
  BY DEF FinishReview
<1>2. /\ c \in Reviews /\ award[a] = NoAward /\ candidate[c.q] \in CandidateRow
      /\ dd \in Nat /\ dd <= today
  BY <1>1 DEF ReviewTyped, ReviewRow, ReviewsAreFresh, AwardsDated
<1>3. c.q \in Questions /\ c.amount \in Nat /\ a \in Actions /\ Author[c.q] \in AwardUsers
  BY <1>2, CommandType
<1>4. row \in AwardRow
  <2>1. dd \in Nat /\ (IF ok THEN "pending" ELSE "limited") \in {"pending", "limited"}
    BY <1>2
  <2> HIDE DEF ok, dd
  <2>2. QED
    BY <1>3, <2>1, Zenon DEF AwardRow
<1>5. /\ row.amount = c.amount /\ row.user = Author[c.q] /\ row.day = dd
      /\ ok => row.status = "pending"
      /\ ~ok => row.status = "limited"
  OBVIOUS
<1>6. ok => /\ SumUserActive(award, Author[c.q]) + c.amount <= MaxUser
            /\ SumDailyActive(award, dd) + c.amount <= MaxDaily
  BY DEF WithinLimits, AwardsNow
<1> HIDE DEF ok, row, a, c, dd
<1>7. /\ award' \in AwardTables /\ award \in AwardTables /\ award'[a] = row
      /\ \A x \in Actions : x # a => award'[x] = award[x]
  BY <1>1, <1>3, <1>4 DEF ReviewTyped, AwardTables
<1>8. /\ a \notin ActiveAwards(award) /\ ActiveAwards(award) \in SUBSET Actions
      /\ ok => ActiveAwards(award') = ActiveAwards(award) \cup {a}
      /\ ~ok => ActiveAwards(award') = ActiveAwards(award)
  <2>1. award[a].status = "none"
    BY <1>2 DEF NoAward
  <2>2. QED
    BY <1>3, <1>5, <1>7, <2>1 DEF ActiveAwards
<1>9. ReviewTyped'
  BY <1>1, <1>7 DEF ReviewTyped
<1>10. AwardsDated' /\ ReleasesDone'
  <2>1. a \notin released
    BY <1>2 DEF ReleasesDone, NoAward
  <2>2. \A s \in Reviewers : review'[s] = review[s] \/ review'[s] = NotReviewing
    BY <1>1 DEF ReviewTyped
  <2>3. QED
    BY <1>1, <1>2, <1>5, <1>7, <2>1, <2>2 DEF AwardsDated, ReleasesDone
<1>11. ReviewsAreFresh'
  <2>1. candidate'[c.q] \in CandidateRow
    <3>1. [candidate[c.q] EXCEPT !.status = "approved"] \in CandidateRow
      BY <1>2, Zenon DEF CandidateRow
    <3>2. candidate' = [candidate EXCEPT ![c.q] = [candidate[c.q] EXCEPT !.status = "approved"]]
      BY <1>1
    <3>3. QED
      BY <1>3, <3>1, <3>2 DEF IngestTyped
  <2>2. \A q \in Questions : q # c.q => candidate'[q] = candidate[q]
    BY <1>1 DEF IngestTyped
  <2>3. ASSUME NEW s \in Reviewers, review'[s] # NotReviewing
        PROVE  /\ s # r /\ review'[s] = review[s] /\ review[s] # NotReviewing
    BY <1>1, <2>3 DEF ReviewTyped
  <2>4. ASSUME NEW s \in Reviewers, review'[s] # NotReviewing
        PROVE  /\ award'[ActionOf(review'[s].cmd)] = NoAward
               /\ candidate'[review'[s].cmd.q] \in CandidateRow
               /\ \A t \in Reviewers :
                    review'[t] # NotReviewing /\ review'[t].cmd.q = review'[s].cmd.q => t = s
    <3>1. s # r /\ review'[s] = review[s] /\ review[s] # NotReviewing
      BY <2>3, <2>4
    <3>2. review[s].cmd \in Reviews /\ review[s].cmd.q # c.q
      BY <1>1, <3>1 DEF ReviewTyped, ReviewRow, ReviewsAreFresh, c
    <3>3. ActionOf(review[s].cmd) # a /\ ActionOf(review[s].cmd) \in Actions /\ review[s].cmd.q \in Questions
      BY <1>2, <3>2, CommandType, ActionTellsQuestion DEF a
    <3>4. \A t \in Reviewers : review'[t] # NotReviewing => review'[t] = review[t] /\ review[t] # NotReviewing
      BY <2>3
    <3>5. QED
      BY <1>7, <2>2, <3>1, <3>2, <3>3, <3>4 DEF ReviewsAreFresh
  <2>5. QED
    BY <2>4 DEF ReviewsAreFresh, ActionOf
<1>12. ASSUME NEW S \in SUBSET ActiveAwards(award)
       PROVE  /\ SumOf(award', S) = SumOf(award, S)
              /\ SumOf(award', S \cup {a}) = SumOf(award, S) + c.amount
              /\ SumOf(award, S) \in Nat
  <2>1. S \in SUBSET Actions /\ a \notin S
    BY <1>8
  <2>2. QED
    <3>1. award'[a].amount = c.amount
      BY <1>5, <1>7
    <3>2. /\ SumOf(award', S) = SumOf(award, S)
          /\ SumOf(award', S \cup {a}) = SumOf(award, S) + award'[a].amount
          /\ SumOf(award, S) \in Nat
      <4>1. award' \in AwardTables /\ award \in AwardTables /\ \A x \in S : award'[x].amount = award[x].amount
        BY <1>7, <2>1
      <4>2. SumOf(award', S) = SumOf(award, S)
        BY <4>1, SumSame
      <4>3. SumOf(award', S \cup {a}) = SumOf(award', S) + award'[a].amount
        BY <1>3, <2>1, <4>1, SumAdd
      <4>4. SumOf(award, S) \in Nat
        BY <2>1, <4>1, SumType
      <4>5. QED
        BY <4>2, <4>3, <4>4
    <3>3. QED
      BY <3>1, <3>2
<1>13. ASSUME NEW q \in Questions PROVE SumUserActive(award', Author[q]) <= MaxUser
  <2> DEFINE S == {x \in ActiveAwards(award) : award[x].user = Author[q]}
             T == {x \in ActiveAwards(award') : award'[x].user = Author[q]}
  <2>1. SumOf(award, S) <= MaxUser /\ SumUserActive(award, Author[q]) = SumOf(award, S)
    BY DEF AwardLimitsHold, SumUserActive
  <2>2. CASE ok /\ Author[q] = Author[c.q]
    <3>1. T = S \cup {a}
      BY <1>3, <1>5, <1>7, <1>8, <2>2
    <3>2. SumOf(award, S) + c.amount <= MaxUser
      BY <1>6, <2>1, <2>2
    <3>3. QED
      BY <1>12, <3>1, <3>2 DEF SumUserActive
  <2>3. CASE ~ (ok /\ Author[q] = Author[c.q])
    <3>1. T = S
      BY <1>3, <1>5, <1>7, <1>8, <2>3
    <3>2. QED
      BY <1>12, <2>1, <3>1 DEF SumUserActive
  <2>4. QED
    BY <2>2, <2>3
<1>14. ASSUME NEW d \in 0 .. today PROVE SumDailyActive(award', d) <= MaxDaily
  <2> DEFINE S == {x \in ActiveAwards(award) : award[x].day = d}
             T == {x \in ActiveAwards(award') : award'[x].day = d}
  <2>1. SumOf(award, S) <= MaxDaily /\ SumDailyActive(award, d) = SumOf(award, S)
    BY DEF AwardLimitsHold, SumDailyActive
  <2>2. CASE ok /\ d = dd
    <3>1. T = S \cup {a}
      BY <1>3, <1>5, <1>7, <1>8, <2>2
    <3>2. SumOf(award, S) + c.amount <= MaxDaily
      BY <1>6, <2>1, <2>2
    <3>3. QED
      BY <1>12, <3>1, <3>2 DEF SumDailyActive
  <2>3. CASE ~ (ok /\ d = dd)
    <3>1. T = S
      BY <1>3, <1>5, <1>7, <1>8, <2>3
    <3>2. QED
      BY <1>12, <2>1, <3>1 DEF SumDailyActive
  <2>4. QED
    BY <2>2, <2>3
<1>15. /\ reserved' = SumOf(award', HeldAwards')
       /\ \A x \in Actions : award'[x].status = "reversed" => x \in released'
  <2>1. reserved = SumOf(award, HeldAwards) /\ HeldAwards = ActiveAwards(award) \ released
    BY DEF AwardLimitsHold, HeldAwards
  <2>2. HeldAwards' = ActiveAwards(award') \ released
    BY <1>1 DEF HeldAwards, ActiveAwards
  <2>3. a \notin released
    BY <1>2 DEF ReleasesDone, NoAward
  <2>4. /\ HeldAwards \in SUBSET ActiveAwards(award)
        /\ ok => HeldAwards' = HeldAwards \cup {a}
        /\ ~ok => HeldAwards' = HeldAwards
    BY <1>8, <2>1, <2>2, <2>3
  <2>5. reserved' = SumOf(award', HeldAwards')
    BY <1>1, <1>12, <2>1, <2>4
  <2>6. QED
    BY <1>1, <1>5, <1>7, <2>5 DEF AwardLimitsHold
<1>16. AwardLimitsHold'
  <2>1. /\ \A q \in Questions : SumUserActive(award, Author[q])' <= MaxUser
        /\ \A d \in 0 .. today : SumDailyActive(award, d)' <= MaxDaily
    BY <1>13, <1>14 DEF SumUserActive, SumDailyActive, ActiveAwards, SumOf, UnitsOf
  <2>2. QED
    BY <1>1, <1>15, <2>1 DEF AwardLimitsHold, SumOf, UnitsOf
<1>17. ContentWithinCap'
  BY <1>1 DEF ContentWithinCap
<1>18. QED
  BY <1>9, <1>10, <1>11, <1>16, <1>17

(* The settlement of an award keeps it in all sums.                        *)
LEMMA SettleAwardStep ==
  ASSUME ReviewIsSound, NEW a \in Actions, SettleAward(a)
  PROVE  ReviewIsSound'
<1> USE DEF ReviewIsSound
<1> DEFINE row == [award[a] EXCEPT !.status = "settled"]
<1>1. /\ UNCHANGED <<reserved, released, today, candidate, review>>
      /\ award' = [award EXCEPT ![a] = row]
      /\ award[a].status = "pending"
  BY DEF SettleAward, ingestVars
<1>2. /\ row \in AwardRow /\ row.status = "settled" /\ row.amount = award[a].amount
      /\ row.user = award[a].user /\ row.day = award[a].day
  <2>1. award[a] \in AwardRow
    BY DEF ReviewTyped, AwardTables
  <2>2. QED
    BY <2>1, Zenon DEF AwardRow
<1> HIDE DEF row
<1>3. /\ award' \in AwardTables /\ award \in AwardTables /\ award'[a] = row
      /\ \A x \in Actions : x # a => award'[x] = award[x]
  BY <1>1, <1>2 DEF ReviewTyped, AwardTables
<1>4. ActiveAwards(award') = ActiveAwards(award)
  BY <1>1, <1>2, <1>3 DEF ActiveAwards
<1>5. \A x \in Actions : /\ award'[x].amount = award[x].amount /\ award'[x].user = award[x].user
                         /\ award'[x].day = award[x].day
  BY <1>2, <1>3
<1>6. ReviewTyped' /\ AwardsDated' /\ ReleasesDone'
  BY <1>1, <1>2, <1>3, <1>5 DEF ReviewTyped, AwardsDated, ReleasesDone
<1>7. ReviewsAreFresh'
  <2>1. award[a] # NoAward
    BY <1>1 DEF NoAward
  <2>2. \A x \in Actions : award[x] = NoAward => award'[x] = NoAward
    BY <1>3, <2>1
  <2>3. \A r \in Reviewers : review[r] # NotReviewing => ActionOf(review[r].cmd) \in Actions
    BY CommandType DEF ReviewTyped, ReviewRow
  <2>4. QED
    BY <1>1, <2>2, <2>3 DEF ReviewsAreFresh, ActionOf
<1>8. ASSUME NEW S \in SUBSET Actions PROVE SumOf(award', S) = SumOf(award, S)
  BY <1>5, SumSame
<1>9. AwardLimitsHold'
  <2>1. ASSUME NEW u PROVE SumUserActive(award', u) = SumUserActive(award, u)
    <3>1. {x \in ActiveAwards(award') : award'[x].user = u} = {x \in ActiveAwards(award) : award[x].user = u}
      BY <1>4, <1>5 DEF ActiveAwards
    <3>2. {x \in ActiveAwards(award) : award[x].user = u} \in SUBSET Actions
      BY DEF ActiveAwards
    <3>3. QED
      BY <1>8, <3>1, <3>2 DEF SumUserActive
  <2>2. ASSUME NEW d PROVE SumDailyActive(award', d) = SumDailyActive(award, d)
    <3>1. {x \in ActiveAwards(award') : award'[x].day = d} = {x \in ActiveAwards(award) : award[x].day = d}
      BY <1>4, <1>5 DEF ActiveAwards
    <3>2. {x \in ActiveAwards(award) : award[x].day = d} \in SUBSET Actions
      BY DEF ActiveAwards
    <3>3. QED
      BY <1>8, <3>1, <3>2 DEF SumDailyActive
  <2>3. reserved' = SumOf(award', HeldAwards')
    <3>1. HeldAwards' = HeldAwards /\ HeldAwards \in SUBSET Actions
      BY <1>1, <1>4 DEF HeldAwards, ActiveAwards
    <3>2. QED
      BY <1>1, <1>8, <3>1 DEF AwardLimitsHold
  <2>4. \A x \in Actions : award'[x].status = "reversed" => x \in released'
    BY <1>1, <1>2, <1>3 DEF AwardLimitsHold
  <2>5. /\ \A q \in Questions : SumUserActive(award, Author[q])' <= MaxUser
        /\ \A d \in 0 .. today : SumDailyActive(award, d)' <= MaxDaily
    BY <2>1, <2>2 DEF AwardLimitsHold, SumUserActive, SumDailyActive, ActiveAwards, SumOf, UnitsOf
  <2>6. QED
    BY <1>1, <2>3, <2>4, <2>5 DEF AwardLimitsHold, SumOf, UnitsOf
<1>10. ContentWithinCap'
  BY <1>1 DEF ContentWithinCap
<1>11. QED
  BY <1>6, <1>7, <1>9, <1>10

(* The first half of a reversal gives the amount back, and leaves the      *)
(* limits as they were.                                                    *)
LEMMA ReleaseGrantStep ==
  ASSUME ReviewIsSound, NEW a \in Actions, ReleaseGrant(a)
  PROVE  ReviewIsSound'
<1> USE DEF ReviewIsSound
<1>1. /\ UNCHANGED <<award, today, candidate, review>>
      /\ released' = released \cup {a} /\ reserved' = reserved - award[a].amount
      /\ award[a].status = "settled" /\ a \notin released
  BY DEF ReleaseGrant, ingestVars
<1>2. ReviewTyped' /\ AwardsDated' /\ ReleasesDone' /\ ReviewsAreFresh'
  BY <1>1 DEF ReviewTyped, AwardsDated, ReleasesDone, ReviewsAreFresh, ActionOf
<1> DEFINE R == HeldAwards \ {a}
<1>3. /\ R \in SUBSET Actions /\ a \notin R /\ HeldAwards = R \cup {a}
      /\ HeldAwards' = R
  BY <1>1 DEF HeldAwards, ActiveAwards
<1> HIDE DEF R
<1>4. /\ SumOf(award, R) \in Nat /\ award[a].amount \in Nat
      /\ SumOf(award, R \cup {a}) = SumOf(award, R) + award[a].amount
  BY <1>3, SumType, SumAdd, UnitsOfOneAward DEF ReviewTyped
<1>5. reserved = SumOf(award, R \cup {a})
  BY <1>3 DEF AwardLimitsHold
<1>6. reserved' = SumOf(award, R) /\ reserved' <= reserved /\ reserved \in Nat /\ reserved' \in Nat
  BY <1>1, <1>4, <1>5
<1>7. AwardLimitsHold'
  <2>1. /\ \A q \in Questions : SumUserActive(award, Author[q])' <= MaxUser
        /\ \A d \in 0 .. today : SumDailyActive(award, d)' <= MaxDaily
    BY <1>1 DEF AwardLimitsHold, SumUserActive, SumDailyActive, ActiveAwards, SumOf, UnitsOf
  <2>2. SumOf(award, HeldAwards)' = SumOf(award, R)
    BY <1>1, <1>3 DEF SumOf, UnitsOf
  <2>3. \A x \in Actions : award'[x].status = "reversed" => x \in released'
    BY <1>1 DEF AwardLimitsHold
  <2>4. QED
    BY <1>1, <1>6, <2>1, <2>2, <2>3 DEF AwardLimitsHold
<1>8. ContentWithinCap'
  BY <1>6, ContentAssumption DEF ContentWithinCap
<1>9. QED
  BY <1>2, <1>7, <1>8

(* The second half of a reversal takes the award out of the limits.        *)
LEMMA ReverseAwardStep ==
  ASSUME ReviewIsSound, NEW a \in Actions, ReverseAward(a)
  PROVE  ReviewIsSound'
<1> USE DEF ReviewIsSound
<1> DEFINE row == [award[a] EXCEPT !.status = "reversed"]
<1>1. /\ UNCHANGED <<reserved, released, today, candidate, review>>
      /\ award' = [award EXCEPT ![a] = row]
      /\ award[a].status = "settled" /\ a \in released
  BY DEF ReverseAward, ingestVars
<1>2. /\ row \in AwardRow /\ row.status = "reversed" /\ row.amount = award[a].amount
      /\ row.user = award[a].user /\ row.day = award[a].day
  <2>1. award[a] \in AwardRow
    BY DEF ReviewTyped, AwardTables
  <2>2. QED
    BY <2>1, Zenon DEF AwardRow
<1> HIDE DEF row
<1>3. /\ award' \in AwardTables /\ award \in AwardTables /\ award'[a] = row
      /\ \A x \in Actions : x # a => award'[x] = award[x]
  BY <1>1, <1>2 DEF ReviewTyped, AwardTables
<1>4. /\ ActiveAwards(award') = ActiveAwards(award) \ {a} /\ a \in ActiveAwards(award)
      /\ ActiveAwards(award) \in SUBSET Actions
  BY <1>1, <1>2, <1>3 DEF ActiveAwards
<1>5. \A x \in Actions : /\ award'[x].amount = award[x].amount /\ award'[x].user = award[x].user
                         /\ award'[x].day = award[x].day
  BY <1>2, <1>3
<1>6. ReviewTyped' /\ AwardsDated' /\ ReleasesDone'
  BY <1>1, <1>2, <1>3, <1>5 DEF ReviewTyped, AwardsDated, ReleasesDone
<1>7. ReviewsAreFresh'
  <2>1. award[a] # NoAward
    BY <1>1 DEF NoAward
  <2>2. \A x \in Actions : award[x] = NoAward => award'[x] = NoAward
    BY <1>3, <2>1
  <2>3. \A r \in Reviewers : review[r] # NotReviewing => ActionOf(review[r].cmd) \in Actions
    BY CommandType DEF ReviewTyped, ReviewRow
  <2>4. QED
    BY <1>1, <2>2, <2>3 DEF ReviewsAreFresh, ActionOf
<1>8. ASSUME NEW S \in SUBSET Actions
      PROVE  SumOf(award', S) = SumOf(award, S) /\ SumOf(award, S \ {a}) <= SumOf(award, S)
  <2> DEFINE R == S \ {a}
  <2>1. R \in SUBSET Actions /\ a \notin R
    OBVIOUS
  <2> HIDE DEF R
  <2>2. SumOf(award', S) = SumOf(award, S)
    BY <1>5, SumSame
  <2>3. SumOf(award, R) \in Nat /\ award[a].amount \in Nat
    BY <1>3, <2>1, SumType, UnitsOfOneAward
  <2>4. SumOf(award, R \cup {a}) = SumOf(award, R) + award[a].amount
    BY <1>3, <2>1, SumAdd
  <2>5. S = R \cup {a} \/ S = R
    BY DEF R
  <2>6. SumOf(award, R) <= SumOf(award, S)
    <3>1. CASE S = R
      BY <2>3, <3>1
    <3>2. CASE S = R \cup {a}
      <4>1. SumOf(award, S) = SumOf(award, R) + award[a].amount
        BY <2>4, <3>2, Zenon
      <4>2. QED
        BY <2>3, <4>1
    <3>3. QED
      BY <2>5, <3>1, <3>2
  <2>7. QED
    BY <2>2, <2>6 DEF R
<1>9. AwardLimitsHold'
  <2>1. ASSUME NEW q \in Questions PROVE SumUserActive(award', Author[q]) <= MaxUser
    <3> DEFINE S == {x \in ActiveAwards(award) : award[x].user = Author[q]}
    <3>1. {x \in ActiveAwards(award') : award'[x].user = Author[q]} = S \ {a}
      BY <1>4, <1>5
    <3>2. S \in SUBSET Actions
      BY <1>4
    <3>3. SumOf(award, S) <= MaxUser
      BY DEF AwardLimitsHold, SumUserActive
    <3> HIDE DEF S
    <3>4. SumOf(award', S \ {a}) <= MaxUser
      <4>1. SumOf(award', S \ {a}) = SumOf(award, S \ {a}) /\ SumOf(award, S \ {a}) <= SumOf(award, S)
        BY <1>8, <3>2
      <4>2. SumOf(award, S) \in Nat /\ SumOf(award, S \ {a}) \in Nat
        BY <1>3, <3>2, SumType
      <4>3. QED
        BY <3>3, <4>1, <4>2, ContentAssumption
    <3>5. QED
      BY <3>1, <3>4 DEF SumUserActive
  <2>2. ASSUME NEW d \in 0 .. today PROVE SumDailyActive(award', d) <= MaxDaily
    <3> DEFINE S == {x \in ActiveAwards(award) : award[x].day = d}
    <3>1. {x \in ActiveAwards(award') : award'[x].day = d} = S \ {a}
      BY <1>4, <1>5
    <3>2. S \in SUBSET Actions
      BY <1>4
    <3>3. SumOf(award, S) <= MaxDaily
      BY DEF AwardLimitsHold, SumDailyActive
    <3> HIDE DEF S
    <3>4. SumOf(award', S \ {a}) <= MaxDaily
      <4>1. SumOf(award', S \ {a}) = SumOf(award, S \ {a}) /\ SumOf(award, S \ {a}) <= SumOf(award, S)
        BY <1>8, <3>2
      <4>2. SumOf(award, S) \in Nat /\ SumOf(award, S \ {a}) \in Nat
        BY <1>3, <3>2, SumType
      <4>3. QED
        BY <3>3, <4>1, <4>2, ContentAssumption
    <3>5. QED
      BY <3>1, <3>4 DEF SumDailyActive
  <2>3. reserved' = SumOf(award', HeldAwards')
    <3>1. HeldAwards' = HeldAwards /\ HeldAwards \in SUBSET Actions
      BY <1>1, <1>4 DEF HeldAwards, ActiveAwards
    <3>2. QED
      BY <1>1, <1>8, <3>1 DEF AwardLimitsHold
  <2>4. \A x \in Actions : award'[x].status = "reversed" => x \in released'
    BY <1>1, <1>3 DEF AwardLimitsHold
  <2>5. /\ \A q \in Questions : SumUserActive(award, Author[q])' <= MaxUser
        /\ \A d \in 0 .. today : SumDailyActive(award, d)' <= MaxDaily
    BY <2>1, <2>2 DEF SumUserActive, SumDailyActive, ActiveAwards, SumOf, UnitsOf
  <2>6. QED
    BY <1>1, <2>3, <2>4, <2>5 DEF AwardLimitsHold, SumOf, UnitsOf
<1>10. ContentWithinCap'
  BY <1>1 DEF ContentWithinCap
<1>11. QED
  BY <1>6, <1>7, <1>9, <1>10

(* A new day begins without awards.                                        *)
LEMMA NextDayStep ==
  ASSUME ReviewIsSound, NextDay
  PROVE  ReviewIsSound'
<1> USE DEF ReviewIsSound
<1>1. UNCHANGED <<award, reserved, released, review, candidate>> /\ today' = today + 1 /\ today \in Nat
  BY DEF NextDay, ReviewTyped, ingestVars
<1>2. ASSUME NEW d \in 0 .. today + 1 PROVE SumDailyActive(award, d) <= MaxDaily
  <2>1. CASE d \in 0 .. today
    BY <2>1 DEF AwardLimitsHold
  <2>2. CASE d \notin 0 .. today
    <3>1. d = today + 1
      BY <1>1, <2>2
    <3>2. \A x \in Actions : award[x].day # d
      <4>1. \A x \in Actions : award[x].day \in Nat /\ award[x].day <= today
        BY DEF ReviewTyped, AwardTables, AwardRow, AwardsDated
      <4>2. QED
        BY <1>1, <3>1, <4>1
    <3>3. {x \in ActiveAwards(award) : award[x].day = d} = {}
      BY <3>2 DEF ActiveAwards
    <3>4. SumDailyActive(award, d) = 0
      BY <3>3, SumEmpty DEF SumDailyActive
    <3>5. QED
      BY <3>4, ContentAssumption
  <2>3. QED
    BY <2>1, <2>2
<1>3. AwardLimitsHold'
  <2>1. \A q \in Questions : SumUserActive(award', Author[q]) <= MaxUser
    BY <1>1 DEF AwardLimitsHold
  <2>2. reserved' = SumOf(award, HeldAwards)' /\ \A x \in Actions : award'[x].status = "reversed" => x \in released'
    BY <1>1 DEF AwardLimitsHold, HeldAwards, ActiveAwards, SumOf, UnitsOf
  <2>3. \A d \in 0 .. today' : SumDailyActive(award, d)' <= MaxDaily
    BY <1>1, <1>2 DEF SumDailyActive, ActiveAwards, SumOf, UnitsOf
  <2>4. QED
    BY <1>1, <2>1, <2>2, <2>3 DEF AwardLimitsHold, SumUserActive, ActiveAwards, SumOf, UnitsOf
<1>4. AwardsDated'
  <2>1. \A x \in Actions : award[x].day \in Nat /\ award[x].day <= today
    BY DEF ReviewTyped, AwardTables, AwardRow, AwardsDated
  <2>2. \A r \in Reviewers : review[r] # NotReviewing => review[r].day \in Nat /\ review[r].day <= today
    BY DEF ReviewTyped, ReviewRow, AwardsDated
  <2>3. QED
    BY <1>1, <2>1, <2>2 DEF AwardsDated
<1>5. ReviewTyped' /\ ReleasesDone' /\ ReviewsAreFresh' /\ ContentWithinCap'
  BY <1>1 DEF ReviewTyped, ReleasesDone, ReviewsAreFresh, ContentWithinCap, ActionOf
<1>6. QED
  BY <1>3, <1>4, <1>5

ContentIsSound == IngestIsSound /\ ReviewIsSound

(* Ingestion never touches a candidate that is there.                      *)
LEMMA CandidatesStay ==
  ASSUME IngestIsSound, NEW w \in Ingesters, ProcessOne(w), NEW q \in Questions, candidate[q] \in CandidateRow
  PROVE  candidate'[q] = candidate[q]
<1> DEFINE r == HeadRow(w)
<1>1. candidate' = Ingested(r)
  BY DEF ProcessOne
<1>2. candidate[q] # NoCandidate
  BY CandidateIsSome
<1>3. r.id \in Questions
  BY HeadIsFirst DEF IngestIsSound, IngestTyped, PageRow, ProcessOne
<1> HIDE DEF r
<1>4. CASE r.skip \/ candidate[r.id] # NoCandidate
  BY <1>1, <1>4 DEF Ingested
<1>5. CASE ~ (r.skip \/ candidate[r.id] # NoCandidate)
  <2>1. candidate' = [candidate EXCEPT ![r.id] = [status |-> "pending", hash |-> r.hash]] /\ q # r.id
    BY <1>1, <1>2, <1>5 DEF Ingested
  <2>2. QED
    BY <2>1 DEF IngestIsSound, IngestTyped
<1>6. QED
  BY <1>4, <1>5

(* A step of the ingestion changes nothing a review relies on.             *)
LEMMA ReviewsUndisturbed ==
  ASSUME ReviewIsSound, UNCHANGED reviewVars,
         \A q \in Questions : candidate[q] \in CandidateRow => candidate'[q] = candidate[q]
  PROVE  ReviewIsSound'
<1>1. UNCHANGED <<award, reserved, released, review, today>>
  BY DEF reviewVars
<1>2. ReviewTyped' /\ AwardsDated' /\ ReleasesDone' /\ AwardLimitsHold' /\ ContentWithinCap'
  BY <1>1 DEF ReviewIsSound, ReviewTyped, AwardsDated, ReleasesDone, AwardLimitsHold, ContentWithinCap,
              HeldAwards, SumUserActive, SumDailyActive, ActiveAwards, SumOf, UnitsOf
<1>3. \A r \in Reviewers : review[r] # NotReviewing => review[r].cmd.q \in Questions
  BY CommandType DEF ReviewIsSound, ReviewTyped, ReviewRow
<1>4. ReviewsAreFresh'
  BY <1>1, <1>3 DEF ReviewIsSound, ReviewsAreFresh, ActionOf
<1>5. QED
  BY <1>2, <1>4 DEF ReviewIsSound

(* A review changes nothing the ingestion relies on: a candidate stays one.*)
LEMMA IngestUndisturbed ==
  ASSUME IngestIsSound, UNCHANGED <<question, cursor, page, late, ineligible>>,
         candidate' \in [Questions -> {NoCandidate} \cup CandidateRow],
         \A q \in Questions : candidate[q] # NoCandidate => candidate'[q] # NoCandidate
  PROVE  IngestIsSound'
<1>1. Published' = Published
  BY DEF Published
<1>2. IngestTyped' /\ PagesComplete' /\ CursorOnQuestion'
  BY <1>1 DEF IngestIsSound, IngestTyped, PagesComplete, CursorOnQuestion
<1>3. QuestionsAreSeen'
  BY <1>1 DEF IngestIsSound, QuestionsAreSeen, Published
<1>4. QED
  BY <1>2, <1>3 DEF IngestIsSound

(* The end of a review approves its candidate.                             *)
LEMMA FinishKeepsCandidates ==
  ASSUME ContentIsSound, NEW r \in Reviewers, FinishReview(r)
  PROVE  IngestIsSound'
<1> DEFINE c == review[r].cmd
<1>1. /\ review[r] # NotReviewing
      /\ candidate' = [candidate EXCEPT ![c.q].status = "approved"]
      /\ UNCHANGED <<question, cursor, page, late, ineligible>>
  BY DEF FinishReview
<1>2. c \in Reviews /\ candidate[c.q] \in CandidateRow
  BY <1>1 DEF ContentIsSound, ReviewIsSound, ReviewTyped, ReviewRow, ReviewsAreFresh
<1> HIDE DEF c
<1>3. c.q \in Questions
  BY <1>2, CommandType
<1>4. [candidate[c.q] EXCEPT !.status = "approved"] \in CandidateRow
  BY <1>2, Zenon DEF CandidateRow
<1>5. candidate' = [candidate EXCEPT ![c.q] = [candidate[c.q] EXCEPT !.status = "approved"]]
  BY <1>1
<1>6. candidate \in [Questions -> {NoCandidate} \cup CandidateRow]
  BY DEF ContentIsSound, IngestIsSound, IngestTyped
<1>7. candidate' \in [Questions -> {NoCandidate} \cup CandidateRow]
  BY <1>3, <1>4, <1>5, <1>6
<1>8. candidate'[c.q] # NoCandidate /\ \A q \in Questions : q # c.q => candidate'[q] = candidate[q]
  BY <1>3, <1>4, <1>5, <1>6, CandidateIsSome
<1>9. QED
  BY <1>1, <1>7, <1>8, IngestUndisturbed DEF ContentIsSound

(* The invariant of ingestion and review together.                         *)
LEMMA ContentStep == ContentIsSound /\ [ContentNext]_contentVars => ContentIsSound'
<1> SUFFICES ASSUME ContentIsSound, [ContentNext]_contentVars PROVE ContentIsSound'
  OBVIOUS
<1> USE DEF ContentIsSound
<1>1. IngestTyped
  BY DEF IngestIsSound
<1>2. ASSUME UNCHANGED ingestVars PROVE IngestIsSound'
  <2>1. UNCHANGED <<question, candidate, cursor, page, late, ineligible>>
    BY <1>2 DEF ingestVars
  <2>2. candidate \in [Questions -> {NoCandidate} \cup CandidateRow]
    BY <1>1 DEF IngestTyped
  <2>3. QED
    BY <2>1, <2>2, IngestUndisturbed
<1>3. ASSUME UNCHANGED reviewVars, UNCHANGED candidate PROVE ReviewIsSound'
  BY <1>3, ReviewsUndisturbed
<1>4. ASSUME NEW q \in Questions, Publish(q) \/ Edit(q) PROVE ContentIsSound'
  <2>1. UNCHANGED reviewVars /\ UNCHANGED candidate
    BY <1>4 DEF Publish, Edit
  <2>2. QED
    BY <1>3, <1>4, <2>1, PublishStep, EditStep
<1>5. ASSUME NEW w \in Ingesters, Fetch(w) \/ DropPage(w) PROVE ContentIsSound'
  <2>1. UNCHANGED reviewVars /\ UNCHANGED candidate
    BY <1>5 DEF Fetch, DropPage
  <2>2. QED
    BY <1>3, <1>5, <2>1, FetchStep, DropStep
<1>6. ASSUME NEW w \in Ingesters, ProcessOne(w) PROVE ContentIsSound'
  <2>1. UNCHANGED reviewVars
    BY <1>6 DEF ProcessOne
  <2>2. \A q \in Questions : candidate[q] \in CandidateRow => candidate'[q] = candidate[q]
    BY <1>6, CandidatesStay
  <2>3. QED
    BY <1>6, <2>1, <2>2, ProcessStep, ReviewsUndisturbed
<1>7. ASSUME NEW r \in Reviewers, NEW c \in Reviews, BeginReview(r, c) PROVE ContentIsSound'
  <2>1. UNCHANGED ingestVars
    BY <1>7 DEF BeginReview
  <2>2. QED
    BY <1>1, <1>2, <1>7, <2>1, BeginStep
<1>8. ASSUME NEW c \in Reviews, KnownAward(c) PROVE ContentIsSound'
  <2>1. /\ UNCHANGED ingestVars /\ UNCHANGED candidate
        /\ UNCHANGED <<award, reserved, released, review, today>>
    BY <1>8 DEF KnownAward, ingestVars
  <2>2. /\ ReviewTyped' /\ AwardsDated' /\ ReleasesDone' /\ AwardLimitsHold' /\ ContentWithinCap'
        /\ ReviewsAreFresh'
    BY <2>1 DEF ReviewIsSound, ReviewTyped, AwardsDated, ReleasesDone, AwardLimitsHold, ContentWithinCap,
                HeldAwards, SumUserActive, SumDailyActive, ActiveAwards, SumOf, UnitsOf, ReviewsAreFresh, ActionOf
  <2>3. QED
    BY <1>2, <2>1, <2>2 DEF ReviewIsSound
<1>9. ASSUME NEW r \in Reviewers, FinishReview(r) PROVE ContentIsSound'
  BY <1>1, <1>9, FinishStep, FinishKeepsCandidates
<1>10. ASSUME NEW r \in Reviewers, AbortReview(r) PROVE ContentIsSound'
  <2>1. UNCHANGED ingestVars
    BY <1>10 DEF AbortReview
  <2>2. QED
    BY <1>2, <1>10, <2>1, AbortStep
<1>11. ASSUME NEW a \in Actions, SettleAward(a) \/ ReleaseGrant(a) \/ ReverseAward(a) PROVE ContentIsSound'
  <2>1. UNCHANGED ingestVars
    BY <1>11 DEF SettleAward, ReleaseGrant, ReverseAward
  <2>2. QED
    BY <1>2, <1>11, <2>1, SettleAwardStep, ReleaseGrantStep, ReverseAwardStep
<1>12. ASSUME NextDay PROVE ContentIsSound'
  <2>1. UNCHANGED ingestVars
    BY <1>12 DEF NextDay
  <2>2. QED
    BY <1>2, <1>12, <2>1, NextDayStep
<1>13. ASSUME UNCHANGED contentVars PROVE ContentIsSound'
  <2>1. UNCHANGED ingestVars /\ UNCHANGED reviewVars /\ UNCHANGED candidate
    BY <1>13 DEF contentVars, ingestVars
  <2>2. QED
    BY <1>2, <1>3, <2>1
<1>14. QED
  BY <1>4, <1>5, <1>6, <1>7, <1>8, <1>9, <1>10, <1>11, <1>12, <1>13 DEF ContentNext, IngestNext, ReviewNext

(* It holds before anything is ingested or reviewed.                       *)
LEMMA ContentStarts == ContentInit => ContentIsSound
<1> SUFFICES ASSUME ContentInit PROVE ContentIsSound
  OBVIOUS
<1>1. PICK n \in {0} \cup Questions :
        /\ question = [q \in Questions |-> IF q <= n THEN [hash |-> 1, show |-> TRUE] ELSE Unpublished]
        /\ candidate = [q \in Questions |-> IF q <= n THEN [status |-> "pending", hash |-> 1] ELSE NoCandidate]
        /\ cursor = n /\ conflicts = {} /\ page = [w \in Ingesters |-> NoPage]
        /\ award = [a \in Actions |-> NoAward] /\ reviewed = {}
        /\ reserved = 0 /\ released = {}
        /\ review = [r \in Reviewers |-> NotReviewing]
        /\ today = 0 /\ edits = 0 /\ late = {} /\ ineligible = {}
  BY DEF ContentInit
<1>2. [hash |-> 1, show |-> TRUE] \in PublishedRow /\ [hash |-> 1, show |-> TRUE] # Unpublished
  <2>1. [hash |-> 1, show |-> TRUE] \in PublishedRow
    BY DEF PublishedRow
  <2>2. QED
    BY <2>1, EditedIsPublished
<1>3. [status |-> "pending", hash |-> 1] \in CandidateRow
  BY DEF CandidateRow
<1>4. n \in Nat
  BY ContentAssumption
<1>5. NoPage \in [from : Nat, rows : SUBSET PageRow] /\ NoPage.rows = {}
  BY DEF NoPage
<1>6. IngestTyped
  BY <1>1, <1>2, <1>3, <1>4, <1>5 DEF IngestTyped
<1>7. PagesComplete
  BY <1>1, <1>5 DEF PagesComplete
<1>8. CursorOnQuestion
  BY <1>1, <1>2, <1>4 DEF CursorOnQuestion, Published
<1>9. QuestionsAreSeen
  BY <1>1, <1>3, CandidateIsSome DEF QuestionsAreSeen, Published
<1>10. NoAward \in AwardRow /\ NoAward.day = 0 /\ NoAward.status = "none"
  BY DEF NoAward, AwardRow, AwardUsers
<1>11. ReviewTyped /\ AwardsDated /\ ReleasesDone /\ ReviewsAreFresh
  BY <1>1, <1>10 DEF ReviewTyped, AwardsDated, ReleasesDone, ReviewsAreFresh, AwardTables
<1>12. ActiveAwards(award) = {}
  BY <1>1, <1>10 DEF ActiveAwards
<1>13. AwardLimitsHold
  <2>1. ASSUME NEW u PROVE SumUserActive(award, u) = 0
    <3>1. {a \in ActiveAwards(award) : award[a].user = u} = {}
      BY <1>12
    <3>2. QED
      BY <3>1, SumEmpty DEF SumUserActive
  <2>2. ASSUME NEW d PROVE SumDailyActive(award, d) = 0
    <3>1. {a \in ActiveAwards(award) : award[a].day = d} = {}
      BY <1>12
    <3>2. QED
      BY <3>1, SumEmpty DEF SumDailyActive
  <2>3. reserved = SumOf(award, HeldAwards) /\ \A a \in Actions : award[a].status # "reversed"
    BY <1>1, <1>10, <1>12, SumEmpty DEF HeldAwards
  <2>4. QED
    BY <2>1, <2>2, <2>3, ContentAssumption DEF AwardLimitsHold
<1>14. ContentWithinCap
  BY <1>1, ContentAssumption DEF ContentWithinCap
<1>15. QED
  BY <1>6, <1>7, <1>8, <1>9, <1>11, <1>13, <1>14 DEF ContentIsSound, IngestIsSound, ReviewIsSound

(* Reviewers who cannot see each other's awards never award an author, or  *)
(* on a day, more than the limits allow; the budget holds the sum of those *)
(* whose grants are not reversed, between the halves of a reversal too.    *)
THEOREM AwardsStayWithinLimits == ContentSpec => []AwardLimitsHold
<1>1. ContentIsSound => AwardLimitsHold
  BY DEF ContentIsSound, ReviewIsSound
<1>2. QED
  BY <1>1, ContentStarts, ContentStep, PTL DEF ContentSpec

(* The content budget is never overdrawn.                                  *)
THEOREM ContentBudgetHolds == ContentSpec => []ContentWithinCap
<1>1. ContentIsSound => ContentWithinCap
  BY DEF ContentIsSound, ReviewIsSound
<1>2. QED
  BY <1>1, ContentStarts, ContentStep, PTL DEF ContentSpec

(* However many workers ingest, from pages of whatever age, the cursor     *)
(* passes no question that was there to be seen.                           *)
THEOREM NoQuestionIsPassed == ContentSpec => []QuestionsAreSeen
<1>1. ContentIsSound => QuestionsAreSeen
  BY DEF ContentIsSound, IngestIsSound
<1>2. QED
  BY <1>1, ContentStarts, ContentStep, PTL DEF ContentSpec

-----------------------------------------------------------------------------
(* Settings.                                                               *)

Roles == {"api", "worker"}

RecordTyped(rec) ==
  /\ rec = [revision |-> rec.revision, rewards |-> rec.rewards, patch |-> rec.patch,
            secrets |-> rec.secrets, roles |-> rec.roles]
  /\ rec.patch = [url |-> rec.patch.url, unit |-> rec.patch.unit, actions |-> rec.patch.actions,
                  shadow |-> rec.patch.shadow]
  /\ DOMAIN rec.secrets = SecretNames
  /\ DOMAIN rec.roles = Roles

CallTyped(x) ==
  \/ x = NoCall
  \/ x = [pc |-> "arrived", by |-> x.by, inforce |-> x.inforce]
  \/ x = [pc |-> "read", by |-> x.by, inforce |-> x.inforce, cfg |-> x.cfg]

SettingsTyped ==
  /\ RecordTyped(record) /\ running \subseteq Processes
  /\ DOMAIN call = Calls /\ \A c \in Calls : CallTyped(call[c])

(* What is sealed can be opened by the role that is registered.            *)
KeysOpen(rec) ==
  \A n \in SecretNames :
    rec.secrets[n] # Unstored /\ rec.secrets[n].value # Empty =>
      /\ Registered(rec, SecretRole(n))
      /\ rec.secrets[n].key = rec.roles[SecretRole(n)].key

(* Once a worker is registered the receiver of quota is pinned, and it is  *)
(* the only one that quota was ever sent to.                               *)
ReceiverPinned(rec) ==
  /\ Registered(rec, "worker") => rec.patch.url \notin {Absent, Empty}
  /\ receivers # {} => Registered(rec, "worker") /\ receivers = {rec.patch.url}

(* Settings that were read were in force since the request arrived, and    *)
(* those of now are.                                                       *)
InForce(x, rec) ==
  x # NoCall =>
    /\ Effective(x.by, rec) \in x.inforce
    /\ x.pc = "read" => x.cfg \in x.inforce
CallsInForce(rec) == \A c \in Calls : InForce(call[c], rec)

RecordIsSound(rec) == ValidRecord(rec) /\ KeysOpen(rec) /\ ReceiverPinned(rec)

SettingsAreSound == SettingsTyped /\ RecordIsSound(record) /\ CallsInForce(record) /\ NoStaleSwitch

(* A revision, and whether rewards were given, mean nothing to a process.  *)
LEMMA SameMeaning ==
  ASSUME NEW rec, NEW new,
         new.patch = rec.patch, new.secrets = rec.secrets, new.roles = rec.roles
  PROVE  /\ \A role : Registered(new, role) <=> Registered(rec, role)
         /\ \A d : Effective(d, new) = Effective(d, rec)
         /\ ValidRecord(new) <=> ValidRecord(rec)
         /\ KeysOpen(new) <=> KeysOpen(rec)
         /\ ReceiverPinned(new) <=> ReceiverPinned(rec)
<1>1. \A role : Registered(new, role) <=> Registered(rec, role)
  BY DEF Registered
<1>2. \A n : EffectiveSecret(new, n) = EffectiveSecret(rec, n)
  BY <1>1 DEF EffectiveSecret
<1>3. \A d : Effective(d, new) = Effective(d, rec)
  BY <1>2 DEF Effective
<1>4. ValidRecord(new) <=> ValidRecord(rec)
  BY <1>1, <1>2 DEF ValidRecord
<1>5. KeysOpen(new) <=> KeysOpen(rec)
  BY <1>1 DEF KeysOpen
<1>6. ReceiverPinned(new) <=> ReceiverPinned(rec)
  BY <1>1 DEF ReceiverPinned
<1>7. QED
  BY <1>1, <1>3, <1>4, <1>5, <1>6

(* A request in flight is told from none.                                  *)
LEMMA CallIsSome ==
  ASSUME NEW x, CallTyped(x)
  PROVE  /\ x # NoCall <=> x.pc \in {"arrived", "read"}
         /\ x.pc = "arrived" => x = [pc |-> "arrived", by |-> x.by, inforce |-> x.inforce]
         /\ x.pc = "read" => x = [pc |-> "read", by |-> x.by, inforce |-> x.inforce, cfg |-> x.cfg]
  BY DEF CallTyped, NoCall

(* Storing a record keeps every request among what was in force.           *)
LEMMA StoreStep ==
  ASSUME SettingsAreSound, NEW rec, RecordTyped(rec), ValidRecord(rec), KeysOpen(rec), Store(rec)
  PROVE  /\ RecordTyped(record') /\ ValidRecord(record') /\ KeysOpen(record')
         /\ record'.patch = rec.patch /\ record'.roles = rec.roles /\ record'.secrets = rec.secrets
         /\ DOMAIN call' = Calls /\ \A c \in Calls : CallTyped(call'[c]) /\ InForce(call'[c], record')
<1>1. record' = [rec EXCEPT !.revision = @ + 1]
  BY DEF Store
<1>2. /\ RecordTyped(record')
      /\ record'.patch = rec.patch /\ record'.roles = rec.roles /\ record'.secrets = rec.secrets
  BY <1>1 DEF RecordTyped
<1>3. /\ ValidRecord(record') /\ KeysOpen(record')
      /\ \A d : Effective(d, record') = Effective(d, rec)
  BY <1>2, SameMeaning
<1>4. DOMAIN call' = Calls
  BY DEF Store
<1>5. ASSUME NEW c \in Calls PROVE CallTyped(call'[c]) /\ InForce(call'[c], record')
  <2>1. CallTyped(call[c]) /\ InForce(call[c], record)
    BY DEF SettingsAreSound, SettingsTyped, CallsInForce
  <2>2. call'[c] = IF call[c] = NoCall THEN NoCall
                   ELSE [call[c] EXCEPT !.inforce = @ \cup {Effective(call[c].by, rec)}]
    BY DEF Store
  <2>3. CASE call[c] = NoCall
    BY <2>2, <2>3 DEF CallTyped, InForce
  <2>4. CASE call[c].pc = "arrived"
    <3>1. call[c] # NoCall /\ call[c] = [pc |-> "arrived", by |-> call[c].by, inforce |-> call[c].inforce]
      BY <2>1, <2>4, CallIsSome
    <3>2. call'[c] = [pc |-> "arrived", by |-> call[c].by,
                      inforce |-> call[c].inforce \cup {Effective(call[c].by, rec)}]
      BY <2>2, <3>1
    <3>3. QED
      BY <1>3, <3>2 DEF CallTyped, InForce
  <2>5. CASE call[c].pc = "read"
    <3>1. /\ call[c] # NoCall
          /\ call[c] = [pc |-> "read", by |-> call[c].by, inforce |-> call[c].inforce, cfg |-> call[c].cfg]
      BY <2>1, <2>5, CallIsSome
    <3>2. call'[c] = [pc |-> "read", by |-> call[c].by,
                      inforce |-> call[c].inforce \cup {Effective(call[c].by, rec)}, cfg |-> call[c].cfg]
      BY <2>2, <3>1
    <3>3. call[c].cfg \in call[c].inforce
      BY <2>1, <2>5, <3>1 DEF InForce
    <3>4. QED
      BY <1>3, <3>2, <3>3 DEF CallTyped, InForce
  <2>6. QED
    BY <2>1, <2>3, <2>4, <2>5, CallIsSome
<1>6. QED
  BY <1>2, <1>3, <1>4, <1>5

(* A process that registers is told from none.                             *)
LEMMA RegistrationIsSome ==
  ASSUME NEW d \in Processes
  PROVE  /\ Registration(d) # NoRole /\ Registration(d).key = d.key
         /\ d.role \in Roles /\ d.url # Absent
<1>1. d.role \in {"api", "worker"} /\ DOMAIN d.env = OwnNames(d.role) /\ d.url # Absent
  BY SettingsAssumption
<1>2. Seed \in DOMAIN d.env
  BY <1>1 DEF OwnNames
<1>3. d.env # <<>>
  BY <1>2
<1>4. QED
  BY <1>1, <1>3 DEF Registration, NoRole, Roles

(* The record with a new registration.                                     *)
LEMMA WithRoleIs ==
  ASSUME RecordTyped(record), NEW d \in Processes
  PROVE  /\ RecordTyped(WithRole(d))
         /\ WithRole(d).secrets = record.secrets
         /\ WithRole(d).roles = [record.roles EXCEPT ![d.role] = Registration(d)]
         /\ WithRole(d).patch.url = IF Pins(d) THEN d.url ELSE record.patch.url
<1> DEFINE W == [record EXCEPT !.roles[d.role] = Registration(d)]
           u == IF Pins(d) THEN d.url ELSE record.patch.url
<1>1. /\ W.roles = [record.roles EXCEPT ![d.role] = Registration(d)]
      /\ W.patch = record.patch /\ W.secrets = record.secrets
      /\ W = [revision |-> record.revision, rewards |-> record.rewards, patch |-> record.patch,
              secrets |-> record.secrets, roles |-> W.roles]
  BY DEF RecordTyped
<1>2. WithRole(d) = [W EXCEPT !.patch.url = IF Pins(d) THEN d.url ELSE @]
  BY DEF WithRole
<1> HIDE DEF W
<1>3. WithRole(d) = [W EXCEPT !.patch = [W.patch EXCEPT !.url = u]]
  BY <1>1, <1>2
<1>4. /\ WithRole(d).secrets = W.secrets /\ WithRole(d).roles = W.roles
      /\ WithRole(d).patch = [record.patch EXCEPT !.url = u]
      /\ WithRole(d) = [revision |-> record.revision, rewards |-> record.rewards, patch |-> WithRole(d).patch,
                        secrets |-> record.secrets, roles |-> W.roles]
  BY <1>1, <1>3
<1>5. /\ WithRole(d).patch.url = u
      /\ WithRole(d).patch = [url |-> u, unit |-> record.patch.unit, actions |-> record.patch.actions,
                              shadow |-> record.patch.shadow]
  BY <1>4 DEF RecordTyped
<1>6. DOMAIN W.roles = Roles
  BY <1>1 DEF RecordTyped
<1> HIDE DEF u
<1>7. RecordTyped(WithRole(d))
  BY <1>1, <1>4, <1>5, <1>6 DEF RecordTyped
<1>8. QED
  BY <1>1, <1>4, <1>5, <1>7 DEF u

(* A start: a new key that does not fit what is sealed is refused, and the *)
(* receiver is pinned by the first worker only.                            *)
LEMMA RegisterStep ==
  ASSUME SettingsAreSound, NEW d \in Processes, Register(d)
  PROVE  SettingsAreSound'
<1> DEFINE W == WithRole(d)
<1>1. /\ RecordTyped(record) /\ running \subseteq Processes
      /\ ValidRecord(record) /\ KeysOpen(record) /\ ReceiverPinned(record) /\ ~outdated
  BY DEF SettingsAreSound, SettingsTyped, RecordIsSound, NoStaleSwitch
<1>2. /\ KeyFits(d) /\ (Pins(d) => d.url # Empty) /\ (d.role = "worker" => record.patch.url # Empty)
      /\ ValidRecord(W)
      /\ Store(W) \/ UNCHANGED <<record, call>>
      /\ running' \subseteq running \cup {d} /\ UNCHANGED <<receivers, outdated>>
  BY DEF Register
<1>3. /\ RecordTyped(W) /\ W.secrets = record.secrets
      /\ W.roles = [record.roles EXCEPT ![d.role] = Registration(d)]
      /\ W.patch.url = IF Pins(d) THEN d.url ELSE record.patch.url
  BY <1>1, WithRoleIs
<1>4. Registration(d) # NoRole /\ Registration(d).key = d.key /\ d.role \in Roles /\ d.url # Absent
  BY RegistrationIsSome
<1> HIDE DEF W
<1>5. /\ W.roles[d.role] = Registration(d)
      /\ \A role \in Roles : role # d.role => W.roles[role] = record.roles[role]
      /\ "worker" \in Roles /\ "api" \in Roles
  BY <1>1, <1>3, <1>4 DEF RecordTyped, Roles
<1>6. KeysOpen(W)
  <2> SUFFICES ASSUME NEW n \in SecretNames, record.secrets[n] # Unstored, record.secrets[n].value # Empty
               PROVE  /\ Registered(W, SecretRole(n))
                      /\ record.secrets[n].key = W.roles[SecretRole(n)].key
    BY <1>3 DEF KeysOpen
  <2>1. Registered(record, SecretRole(n)) /\ record.secrets[n].key = record.roles[SecretRole(n)].key
    BY <1>1 DEF KeysOpen
  <2>2. SecretRole(n) \in Roles
    BY DEF SecretRole, Roles
  <2>3. CASE SecretRole(n) = d.role
    <3>1. record.roles[d.role].key = d.key
      BY <1>2, <2>1, <2>3 DEF KeyFits
    <3>2. QED
      BY <1>4, <1>5, <2>1, <2>3, <3>1 DEF Registered
  <2>4. CASE SecretRole(n) # d.role
    BY <1>5, <2>1, <2>2, <2>4 DEF Registered
  <2>5. QED
    BY <2>3, <2>4
<1>7. ReceiverPinned(W)
  <2>1. CASE d.role = "worker"
    <3>1. W.patch.url \notin {Absent, Empty}
      BY <1>2, <1>3, <1>4, <2>1 DEF Pins
    <3>2. Registered(W, "worker")
      BY <1>4, <1>5, <2>1 DEF Registered
    <3>3. receivers # {} => receivers = {W.patch.url}
      BY <1>1, <1>3 DEF ReceiverPinned, Pins
    <3>4. QED
      BY <3>1, <3>2, <3>3 DEF ReceiverPinned
  <2>2. CASE d.role # "worker"
    <3>1. W.patch.url = record.patch.url /\ W.roles["worker"] = record.roles["worker"]
      BY <1>3, <1>5, <2>2 DEF Pins
    <3>2. QED
      BY <1>1, <3>1 DEF ReceiverPinned, Registered
  <2>3. QED
    BY <2>1, <2>2
<1>8. CASE UNCHANGED <<record, call>>
  <2>1. running' \subseteq Processes
    BY <1>1, <1>2
  <2>2. SettingsTyped' /\ CallsInForce(record)'
    BY <1>8, <2>1 DEF SettingsAreSound, SettingsTyped, CallsInForce
  <2>3. RecordIsSound(record)' /\ NoStaleSwitch'
    BY <1>1, <1>2, <1>8 DEF RecordIsSound, ReceiverPinned, NoStaleSwitch
  <2>4. QED
    BY <2>2, <2>3 DEF SettingsAreSound
<1>9. CASE Store(W)
  <2>1. /\ RecordTyped(record') /\ ValidRecord(record') /\ KeysOpen(record')
        /\ record'.patch = W.patch /\ record'.roles = W.roles /\ record'.secrets = W.secrets
        /\ DOMAIN call' = Calls /\ \A c \in Calls : CallTyped(call'[c]) /\ InForce(call'[c], record')
    BY <1>2, <1>3, <1>6, <1>9, StoreStep
  <2>2. ReceiverPinned(record)'
    BY <1>2, <1>7, <2>1 DEF ReceiverPinned, Registered
  <2>3. running' \subseteq Processes
    BY <1>1, <1>2
  <2>4. SettingsTyped' /\ CallsInForce(record)'
    BY <2>1, <2>3 DEF SettingsTyped, CallsInForce
  <2>5. RecordIsSound(record)' /\ NoStaleSwitch'
    BY <1>1, <1>2, <2>1, <2>2 DEF RecordIsSound, NoStaleSwitch
  <2>6. QED
    BY <2>4, <2>5 DEF SettingsAreSound
<1>10. QED
  BY <1>2, <1>8, <1>9

(* The record with an update.                                              *)
LEMMA CandidateIs ==
  ASSUME RecordTyped(record), NEW c \in Updates
  PROVE  /\ RecordTyped(Candidate(c))
         /\ Candidate(c).roles = record.roles
         /\ Candidate(c).patch.url = IF c.patch.url = Absent THEN record.patch.url ELSE c.patch.url
         /\ \A n \in SecretNames :
              Candidate(c).secrets[n] =
                IF n \in DOMAIN c.set
                THEN [value |-> c.set[n], key |-> record.roles[SecretRole(n)].key]
                ELSE IF n \in c.clear THEN [value |-> Empty, key |-> Absent] ELSE record.secrets[n]
<1> DEFINE P == [f \in DOMAIN NoPatch |-> IF c.patch[f] = Absent THEN record.patch[f] ELSE c.patch[f]]
           S == [n \in SecretNames |->
                   IF n \in DOMAIN c.set
                   THEN [value |-> c.set[n], key |-> record.roles[SecretRole(n)].key]
                   ELSE IF n \in c.clear THEN [value |-> Empty, key |-> Absent] ELSE record.secrets[n]]
<1>1. Candidate(c) = [record EXCEPT !.patch = P, !.secrets = S]
  BY DEF Candidate
<1>2. DOMAIN NoPatch = {"url", "unit", "actions", "shadow"}
  BY DEF NoPatch
<1>3. P = [url |-> P.url, unit |-> P.unit, actions |-> P.actions, shadow |-> P.shadow]
  BY <1>2
<1>4. P.url = IF c.patch.url = Absent THEN record.patch.url ELSE c.patch.url
  BY <1>2
<1>5. DOMAIN S = SecretNames
  OBVIOUS
<1>6. \A n \in SecretNames :
        S[n] = IF n \in DOMAIN c.set
               THEN [value |-> c.set[n], key |-> record.roles[SecretRole(n)].key]
               ELSE IF n \in c.clear THEN [value |-> Empty, key |-> Absent] ELSE record.secrets[n]
  OBVIOUS
<1> HIDE DEF P, S
<1>7. /\ Candidate(c).patch = P /\ Candidate(c).secrets = S /\ Candidate(c).roles = record.roles
      /\ Candidate(c) = [revision |-> record.revision, rewards |-> record.rewards, patch |-> P,
                         secrets |-> S, roles |-> record.roles]
  BY <1>1 DEF RecordTyped
<1>8. DOMAIN record.roles = Roles
  BY DEF RecordTyped
<1>9. RecordTyped(Candidate(c))
  BY <1>3, <1>5, <1>7, <1>8 DEF RecordTyped
<1>10. QED
  BY <1>4, <1>6, <1>7, <1>9

(* An update never loses a secret, and never moves the receiver of a       *)
(* worker that is registered.                                              *)
LEMMA UpdateStep ==
  ASSUME SettingsAreSound, NEW d \in Processes, NEW c \in Updates, NEW seen, Update(d, c, seen)
  PROVE  SettingsAreSound'
<1> DEFINE C == Candidate(c)
<1>1. /\ RecordTyped(record) /\ running \subseteq Processes
      /\ ValidRecord(record) /\ KeysOpen(record) /\ ReceiverPinned(record) /\ ~outdated
  BY DEF SettingsAreSound, SettingsTyped, RecordIsSound, NoStaleSwitch
<1>2. /\ ReceiverFree(d, c) /\ Store(C) /\ ValidRecord(C)
      /\ \A n \in DOMAIN c.set : Registered(record, SecretRole(n))
      /\ UNCHANGED <<running, receivers, outdated>>
  BY DEF Update, Current, Readable
<1>3. /\ RecordTyped(C) /\ C.roles = record.roles
      /\ C.patch.url = IF c.patch.url = Absent THEN record.patch.url ELSE c.patch.url
      /\ \A n \in SecretNames :
           C.secrets[n] = IF n \in DOMAIN c.set
                          THEN [value |-> c.set[n], key |-> record.roles[SecretRole(n)].key]
                          ELSE IF n \in c.clear THEN [value |-> Empty, key |-> Absent] ELSE record.secrets[n]
  BY <1>1, CandidateIs
<1> HIDE DEF C
<1>4. KeysOpen(C)
  <2> SUFFICES ASSUME NEW n \in SecretNames, C.secrets[n] # Unstored, C.secrets[n].value # Empty
               PROVE  Registered(record, SecretRole(n)) /\ C.secrets[n].key = record.roles[SecretRole(n)].key
    BY <1>3 DEF KeysOpen, Registered
  <2>1. CASE n \in DOMAIN c.set
    <3>1. C.secrets[n] = [value |-> c.set[n], key |-> record.roles[SecretRole(n)].key]
      BY <1>3, <2>1, Zenon
    <3>2. QED
      BY <1>2, <2>1, <3>1
  <2>2. CASE n \notin DOMAIN c.set
    <3>1. C.secrets[n] = IF n \in c.clear THEN [value |-> Empty, key |-> Absent] ELSE record.secrets[n]
      BY <1>3, <2>2, Zenon
    <3>2. C.secrets[n] = record.secrets[n]
      BY <3>1
    <3>3. QED
      BY <1>1, <3>2 DEF KeysOpen
  <2>3. QED
    BY <2>1, <2>2
<1>5. ReceiverPinned(C)
  <2>1. CASE Registered(record, "worker")
    <3>1. record.patch.url # Absent
      BY <1>1, <2>1 DEF ReceiverPinned
    <3>2. Effective(d, record).url = record.patch.url
      BY <3>1 DEF Effective, Over
    <3>3. c.patch.url \in {Absent, record.patch.url}
      BY <1>2, <2>1, <3>2 DEF ReceiverFree
    <3>4. C.patch.url = record.patch.url
      BY <1>3, <3>3
    <3>5. QED
      BY <1>1, <1>3, <3>4 DEF ReceiverPinned, Registered
  <2>2. CASE ~Registered(record, "worker")
    BY <1>1, <1>3, <2>2 DEF ReceiverPinned, Registered
  <2>3. QED
    BY <2>1, <2>2
<1>6. /\ RecordTyped(record') /\ ValidRecord(record') /\ KeysOpen(record')
      /\ record'.patch = C.patch /\ record'.roles = C.roles /\ record'.secrets = C.secrets
      /\ DOMAIN call' = Calls /\ \A x \in Calls : CallTyped(call'[x]) /\ InForce(call'[x], record')
  BY <1>2, <1>3, <1>4, StoreStep
<1>7. ReceiverPinned(record)'
  BY <1>2, <1>5, <1>6 DEF ReceiverPinned, Registered
<1>8. SettingsTyped' /\ CallsInForce(record)'
  BY <1>1, <1>2, <1>6 DEF SettingsTyped, CallsInForce
<1>9. RecordIsSound(record)' /\ NoStaleSwitch'
  BY <1>1, <1>2, <1>6, <1>7 DEF RecordIsSound, NoStaleSwitch
<1>10. QED
  BY <1>8, <1>9 DEF SettingsAreSound

(* Steps that leave the record and the receivers alone.                    *)
LEMMA CallStep ==
  ASSUME SettingsAreSound, UNCHANGED <<record, receivers>>,
         running' \subseteq Processes, DOMAIN call' = Calls,
         \A c \in Calls : CallTyped(call'[c]) /\ InForce(call'[c], record), outdated' = FALSE
  PROVE  SettingsAreSound'
<1>1. SettingsTyped'
  BY DEF SettingsAreSound, SettingsTyped
<1>2. RecordIsSound(record)'
  BY DEF SettingsAreSound, RecordIsSound, ReceiverPinned
<1>3. CallsInForce(record)' /\ NoStaleSwitch'
  BY DEF CallsInForce, NoStaleSwitch
<1>4. QED
  BY <1>1, <1>2, <1>3 DEF SettingsAreSound

(* A request is served with what it has read itself.                       *)
LEMMA RequestStep ==
  ASSUME SettingsAreSound, NEW c \in Calls,
         (\E d \in Processes : Arrive(c, d)) \/ ReadCurrent(c) \/ Serve(c)
  PROVE  SettingsAreSound'
<1>1. /\ running \subseteq Processes /\ DOMAIN call = Calls /\ outdated = FALSE
      /\ \A x \in Calls : CallTyped(call[x]) /\ InForce(call[x], record)
  BY DEF SettingsAreSound, SettingsTyped, CallsInForce, NoStaleSwitch
<1>2. UNCHANGED <<record, running, receivers>>
  BY DEF Arrive, ReadCurrent, Serve
<1>3. CallTyped(NoCall) /\ InForce(NoCall, record)
  BY DEF CallTyped, InForce
<1>4. ASSUME NEW new, call' = [call EXCEPT ![c] = new], CallTyped(new), InForce(new, record), outdated' = FALSE
      PROVE  SettingsAreSound'
  <2>1. DOMAIN call' = Calls /\ \A x \in Calls : CallTyped(call'[x]) /\ InForce(call'[x], record)
    BY <1>1, <1>4
  <2>2. running' \subseteq Processes
    BY <1>1, <1>2
  <2>3. QED
    BY <1>2, <1>4, <2>1, <2>2, CallStep
<1>5. ASSUME NEW d \in Processes, Arrive(c, d) PROVE SettingsAreSound'
  <2> DEFINE new == [pc |-> "arrived", by |-> d, inforce |-> {Effective(d, record)}]
  <2>1. call' = [call EXCEPT ![c] = new] /\ outdated' = FALSE
    BY <1>1, <1>5 DEF Arrive
  <2>2. CallTyped(new) /\ InForce(new, record)
    BY DEF CallTyped, InForce
  <2>3. QED
    BY <1>4, <2>1, <2>2
<1>6. CASE ReadCurrent(c)
  <2> DEFINE d == call[c].by
             new == [pc |-> "read", by |-> d, inforce |-> call[c].inforce, cfg |-> Effective(d, record)]
  <2>1. call[c].pc = "arrived" /\ outdated' = FALSE
    BY <1>1, <1>6 DEF ReadCurrent
  <2>2. call' = [call EXCEPT ![c] = new] \/ call' = [call EXCEPT ![c] = NoCall]
    BY <1>6 DEF ReadCurrent
  <2>3. CallTyped(call[c]) /\ InForce(call[c], record)
    BY <1>1
  <2>4. Effective(d, record) \in call[c].inforce
    BY <2>1, <2>3, CallIsSome DEF InForce
  <2>5. CallTyped(new) /\ InForce(new, record)
    BY <2>4 DEF CallTyped, InForce
  <2> HIDE DEF new
  <2>6. QED
    BY <1>3, <1>4, <2>1, <2>2, <2>5
<1>7. CASE Serve(c)
  <2>1. /\ call[c].pc = "read" /\ call' = [call EXCEPT ![c] = NoCall]
        /\ outdated' = (outdated \/ call[c].cfg \notin call[c].inforce)
    BY <1>7 DEF Serve, RouterFor
  <2>2. call[c].cfg \in call[c].inforce
    BY <1>1, <2>1, CallIsSome DEF InForce
  <2>3. outdated' = FALSE
    BY <1>1, <2>1, <2>2
  <2>4. QED
    BY <1>3, <1>4, <2>1, <2>3
<1>8. QED
  BY <1>5, <1>6, <1>7

(* A job sends its quota to the receiver that is pinned.                   *)
LEMMA JobStep ==
  ASSUME SettingsAreSound, NEW d \in Processes, RunJob(d)
  PROVE  SettingsAreSound'
<1>1. /\ d.role = "worker" /\ record.roles["worker"] = Registration(d)
      /\ receivers' = receivers \cup {Effective(d, record).url}
      /\ UNCHANGED <<record, running, call, outdated>>
  BY DEF RunJob, Current, Readable
<1>2. ReceiverPinned(record)
  BY DEF SettingsAreSound, RecordIsSound
<1>3. Registered(record, "worker")
  BY <1>1, RegistrationIsSome DEF Registered
<1>4. Effective(d, record).url = record.patch.url
  BY <1>2, <1>3 DEF ReceiverPinned, Effective, Over
<1>5. ReceiverPinned(record)'
  BY <1>1, <1>2, <1>3, <1>4 DEF ReceiverPinned, Registered
<1>6. QED
  BY <1>1, <1>5 DEF SettingsAreSound, SettingsTyped, RecordIsSound, CallsInForce, NoStaleSwitch

(* The end of a process drops its requests.                                *)
LEMMA StopStep ==
  ASSUME SettingsAreSound, NEW d \in Processes, Stop(d)
  PROVE  SettingsAreSound'
<1>1. /\ running' = running \ {d} /\ UNCHANGED <<record, receivers, outdated>>
      /\ call' = [c \in Calls |-> IF call[c] # NoCall /\ call[c].by = d THEN NoCall ELSE call[c]]
  BY DEF Stop
<1>2. /\ running \subseteq Processes /\ outdated = FALSE
      /\ \A x \in Calls : CallTyped(call[x]) /\ InForce(call[x], record)
  BY DEF SettingsAreSound, SettingsTyped, CallsInForce, NoStaleSwitch
<1>3. CallTyped(NoCall) /\ InForce(NoCall, record)
  BY DEF CallTyped, InForce
<1>4. running' \subseteq Processes /\ outdated' = FALSE
  BY <1>1, <1>2
<1>5. DOMAIN call' = Calls /\ \A x \in Calls : call'[x] = NoCall \/ call'[x] = call[x]
  BY <1>1
<1>6. \A x \in Calls : CallTyped(call'[x]) /\ InForce(call'[x], record)
  BY <1>2, <1>3, <1>5
<1>7. QED
  BY <1>1, <1>4, <1>5, <1>6, CallStep

(* The first reward changes what updates may do, and no setting.           *)
LEMMA RewardStep ==
  ASSUME SettingsAreSound, FirstReward
  PROVE  SettingsAreSound'
<1>1. /\ record' = [record EXCEPT !.rewards = TRUE]
      /\ UNCHANGED <<running, call, receivers, outdated>>
  BY DEF FirstReward
<1>2. RecordTyped(record)
  BY DEF SettingsAreSound, SettingsTyped
<1>3. /\ record'.patch = record.patch /\ record'.secrets = record.secrets /\ record'.roles = record.roles
      /\ RecordTyped(record')
  BY <1>1, <1>2 DEF RecordTyped
<1>4. /\ ValidRecord(record') /\ KeysOpen(record') /\ ReceiverPinned(record')
      /\ \A d : Effective(d, record') = Effective(d, record)
  BY <1>3, SameMeaning DEF SettingsAreSound, RecordIsSound
<1>5. RecordIsSound(record)'
  BY <1>1, <1>4 DEF RecordIsSound, ReceiverPinned
<1>6. SettingsTyped' /\ CallsInForce(record)' /\ NoStaleSwitch'
  BY <1>1, <1>3, <1>4 DEF SettingsAreSound, SettingsTyped, CallsInForce, InForce, NoStaleSwitch
<1>7. QED
  BY <1>5, <1>6 DEF SettingsAreSound

(* The invariant of the settings is inductive.                             *)
LEMMA SettingsStep == SettingsAreSound /\ [SettingsNext]_settingsVars => SettingsAreSound'
<1> SUFFICES ASSUME SettingsAreSound, [SettingsNext]_settingsVars PROVE SettingsAreSound'
  OBVIOUS
<1>1. CASE UNCHANGED settingsVars
  BY <1>1 DEF settingsVars, SettingsAreSound, SettingsTyped, RecordIsSound, ReceiverPinned, CallsInForce,
              NoStaleSwitch
<1>2. CASE SettingsNext
  BY <1>2, RegisterStep, StopStep, JobStep, UpdateStep, RewardStep, RequestStep DEF SettingsNext
<1>3. QED
  BY <1>1, <1>2

(* Before the first start nothing is stored.                               *)
LEMMA SettingsStart == SettingsInit => SettingsAreSound
<1> SUFFICES ASSUME SettingsInit PROVE SettingsAreSound
  OBVIOUS
<1>1. /\ record = [revision |-> 0, rewards |-> FALSE, patch |-> NoPatch,
                   secrets |-> [n \in SecretNames |-> Unstored],
                   roles |-> [r \in {"api", "worker"} |-> NoRole]]
      /\ running = {} /\ receivers = {} /\ outdated = FALSE
      /\ call = [c \in Calls |-> NoCall]
  BY DEF SettingsInit
<1>2. \A role \in Roles : ~Registered(record, role)
  BY <1>1 DEF Registered, Roles
<1>3. \A n \in SecretNames : record.secrets[n] = Unstored
  BY <1>1
<1>4. \A n \in SecretNames \cup {Seed} : EffectiveSecret(record, n) = Empty
  BY <1>2, <1>3 DEF EffectiveSecret, SecretRole, Roles
<1>5. ValidRecord(record)
  BY <1>2, <1>4 DEF ValidRecord, Roles, SecretNames
<1>6. KeysOpen(record)
  BY <1>3 DEF KeysOpen
<1>7. ReceiverPinned(record)
  BY <1>1, <1>2 DEF ReceiverPinned, Roles
<1>8. SettingsTyped
  BY <1>1 DEF SettingsTyped, RecordTyped, CallTyped, NoPatch, Roles
<1>9. CallsInForce(record) /\ NoStaleSwitch
  BY <1>1 DEF CallsInForce, InForce, NoStaleSwitch
<1>10. QED
  BY <1>5, <1>6, <1>7, <1>8, <1>9 DEF SettingsAreSound, RecordIsSound

(* The only settings that are not valid for a process lack a unit.         *)
LEMMA OnlyUnitLacks ==
  ASSUME NEW d \in Processes, NEW rec, ~UnitKnown(Effective(d, rec))
  PROVE  LacksUnit(d, rec)
<1>1. Over(rec.patch.actions, d.actions) = "on" /\ Over(rec.patch.unit, d.unit) = Absent
  BY DEF UnitKnown, Effective
<1>2. rec.patch.unit = Absent /\ d.unit = Absent
  BY <1>1 DEF Over
<1>3. d.actions # "on"
  BY <1>2, SettingsAssumption DEF UnitKnown
<1>4. QED
  BY <1>1, <1>2, <1>3 DEF LacksUnit, Over

(* No order of starts and updates takes the settings from a registered     *)
(* process, but for a unit of quota that it lacks; and quota only ever     *)
(* goes to one receiver.                                                   *)
THEOREM SettingsAlwaysUsable == SettingsSpec => []SettingsStayUsable
<1>1. ASSUME SettingsAreSound PROVE SettingsStayUsable
  <2>1. ValidRecord(record) /\ KeysOpen(record) /\ ReceiverPinned(record)
    BY <1>1 DEF SettingsAreSound, SettingsTyped, RecordIsSound
  <2>2. ASSUME NEW d \in Processes, record.roles[d.role] = Registration(d)
        PROVE  /\ Readable(d, record) /\ (Current(d, record) \/ LacksUnit(d, record))
               /\ d.role = "worker" => Effective(d, record).url # Empty
    <3>1. Registration(d) # NoRole /\ Registration(d).key = d.key
      BY <2>1, RegistrationIsSome
    <3>2. Readable(d, record)
      BY <2>1, <2>2, <3>1 DEF Readable, KeysOpen
    <3>3. ASSUME d.role = "worker" PROVE Effective(d, record).url # Empty
      <4>1. Registered(record, "worker")
        BY <2>2, <3>1, <3>3 DEF Registered
      <4>2. QED
        BY <2>1, <4>1 DEF ReceiverPinned, Effective, Over
    <3>4. Current(d, record) \/ LacksUnit(d, record)
      BY <2>1, <2>2, <3>2, OnlyUnitLacks DEF Current
    <3>5. QED
      BY <3>2, <3>3, <3>4
  <2>3. Cardinality(receivers) <= 1
    <3>1. CASE receivers = {}
      BY <3>1, FS_EmptySet
    <3>2. CASE receivers # {}
      <4>1. receivers = {record.patch.url}
        BY <2>1, <3>2 DEF ReceiverPinned
      <4>2. Cardinality(receivers) = 1
        BY <4>1, FS_Singleton, Zenon
      <4>3. QED
        BY <4>2
    <3>3. QED
      BY <3>1, <3>2
  <2>4. QED
    BY <2>2, <2>3 DEF SettingsStayUsable
<1>2. QED
  BY <1>1, SettingsStart, SettingsStep, PTL DEF SettingsSpec

(* A request never passes by settings that were replaced before it came.   *)
THEOREM SwitchesAreNeverStale == SettingsSpec => []NoStaleSwitch
<1>1. SettingsAreSound => NoStaleSwitch
  BY DEF SettingsAreSound
<1>2. QED
  BY <1>1, SettingsStart, SettingsStep, PTL DEF SettingsSpec
=============================================================================
