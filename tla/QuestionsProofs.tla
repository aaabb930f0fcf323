-------------------------- MODULE QuestionsProofs ---------------------------
(***************************************************************************)
(* Proofs about what callers are told and what is made of what they say:   *)
(* the hints of DuplicateHints, for any filers, texts, scores and caps;    *)
(* the calls of TicketRefs, for any projects, prefixes and lists; and the  *)
(* questions to the searches of ClosePath, from the proofs about those.    *)
(***************************************************************************)
EXTENDS QuestionsMC, ClosePathProofs

----------------------------------------------------------------------------
(* Small sets *)

LEMMA AtMostOne ==
  ASSUME NEW S, \A x, y \in S : x = y
  PROVE  Cardinality(S) \in 0..1
<1>1. CASE S = {}
  BY <1>1, FS_EmptySet
<1>2. CASE S # {}
  <2>1. PICK x \in S : S = {x}
    BY <1>2
  <2>2. QED  BY <2>1, FS_Singleton
<1>3. QED  BY <1>1, <1>2

LEMMA MoreThanOne ==
  ASSUME NEW S, IsFiniteSet(S), NEW x \in S, NEW y \in S, x # y
  PROVE  Cardinality(S) > 1
<1>1. IsFiniteSet({x}) /\ Cardinality({x}) = 1 /\ {x} \in SUBSET S /\ {x} # S
  BY FS_Singleton
<1>2. Cardinality({x}) =< Cardinality(S) /\ Cardinality({x}) # Cardinality(S)
  BY <1>1, FS_Subset
<1>3. Cardinality(S) \in Nat
  BY FS_CardinalityType
<1>4. QED  BY <1>1, <1>2, <1>3

\* What a function of finitely many arguments can be.
LEMMA FiniteImage ==
  ASSUME NEW n \in Nat, NEW f, DOMAIN f = 1..n
  PROVE  IsFiniteSet({ f[i] : i \in 1..n })
<1> DEFINE image == { f[i] : i \in 1..n }
           g == [i \in 1..n |-> f[i]]
<1>1. g \in Surjection(1..n, image)
  BY DEF Surjection
<1>2. IsFiniteSet(1..n)
  BY FS_Interval
<1> HIDE DEF g, image
<1>3. IsFiniteSet(image)
  BY <1>1, <1>2, FS_Surjection
<1>4. QED  BY <1>3 DEF image

LEMMA MinOfTwo ==
  ASSUME NEW m \in Nat, NEW n \in Nat
  PROVE  Min({m, n}) \in Nat /\ Min({m, n}) =< m /\ Min({m, n}) =< n
<1>1. \E least \in {m, n} : \A other \in {m, n} : least =< other
  OBVIOUS
<1>2. QED  BY <1>1 DEF Min

\* No finite set has room for more rows than it has.
LEMMA NoRoom ==
  ASSUME NEW S, IsFiniteSet(S), NEW T \in SUBSET S, NEW x \in S, x \notin T
  PROVE  Cardinality(T) < Cardinality(S)
<1>1. IsFiniteSet(T) /\ Cardinality(T) =< Cardinality(S) /\ Cardinality(T) # Cardinality(S)
  BY FS_Subset
<1>2. Cardinality(T) \in Nat /\ Cardinality(S) \in Nat
  BY <1>1, FS_CardinalityType
<1>3. QED  BY <1>1, <1>2

----------------------------------------------------------------------------
(* ORDER BY rank DESC LIMIT n *)

\* What fits within the limit is all brought.
LEMMA TopOfFew ==
  ASSUME NEW rows, IsFiniteSet(rows), NEW n \in Nat, Cardinality(rows) =< n,
         NEW rank, NEW top \in Top(rows, n, rank)
  PROVE  top = rows
<1>1. Cardinality(rows) \in Nat
  BY FS_CardinalityType
<1>2. top \in SUBSET rows /\ Cardinality(top) = Cardinality(rows)
  BY <1>1 DEF Top, kSubset
<1>3. QED  BY <1>2, FS_Subset

LEMMA TopIsOf ==
  ASSUME NEW rows, NEW n, NEW rank, NEW top \in Top(rows, n, rank)
  PROVE  top \subseteq rows
BY DEF Top, kSubset

\* A row is left out only when as many rows as the limit rank at least as high.
LEMMA TopHasTheFirst ==
  ASSUME NEW rows, IsFiniteSet(rows), NEW n \in Nat, NEW rank,
         NEW top \in Top(rows, n, rank), NEW row \in rows,
         NEW first, IsFiniteSet(first), row \in first, Cardinality(first) =< n,
         \A other \in rows : rank[row] =< rank[other] => other \in first
  PROVE  row \in top
<1>1. SUFFICES ASSUME row \notin top PROVE FALSE
  OBVIOUS
<1>2. Cardinality(rows) \in Nat /\ Cardinality(first) \in Nat
  BY FS_CardinalityType
<1>3. top \in SUBSET rows /\ Cardinality(top) = IF n < Cardinality(rows) THEN n ELSE Cardinality(rows)
  BY DEF Top, kSubset
<1>4. Cardinality(top) < Cardinality(rows)
  BY <1>1, <1>3, NoRoom
<1>5. Cardinality(top) = n
  BY <1>2, <1>3, <1>4
<1>6. top \in SUBSET first
  BY <1>1, <1>3 DEF Top
<1>7. Cardinality(top) < Cardinality(first)
  BY <1>1, <1>6, NoRoom
<1>8. QED  BY <1>2, <1>5, <1>7

----------------------------------------------------------------------------
(* The query for duplicates *)

\* The invariant, part by part: the types; what the filer of a ticket knows of
\* it; that who has checked has been seen; that only a ticket that was put
\* away is not open; and that of two twins one was told of the other.
FilingTypes ==
  /\ filed \in Seq(FiledRow) /\ Len(filed) =< MaxFiled
  /\ filer \in [Filers -> Filing]
  /\ told \in [Ids -> Answer]

FilersKnow ==
  \A f \in Filers :
    /\ filer[f].pc # "idle" => filer[f].id \in DOMAIN filed
    /\ filer[f].pc = "committed" => filed[filer[f].id].shown

CheckedAreShown ==
  \A id \in Ids : told[id].state = "checked" => id \in DOMAIN filed /\ filed[id].shown

OpenUnlessAway == \A id \in DOMAIN filed : filed[id].open \/ filed[id].away

Twins(i, j) == i # j /\ filed[i].hash = filed[j].hash
Settled(id) == told[id].state = "checked" /\ ~filed[id].away /\ ~told[id].crowded
TwinsAreTold ==
  \A i, j \in DOMAIN filed :
    Twins(i, j) /\ Settled(i) /\ Settled(j) => j \in told[i].hints \/ i \in told[j].hints

FilingInv == FilingTypes /\ FilersKnow /\ CheckedAreShown /\ OpenUnlessAway /\ TwinsAreTold

LEMMA FiledIds ==
  ASSUME FilingTypes
  PROVE  /\ DOMAIN filed = 1..Len(filed) /\ Len(filed) \in Nat
         /\ DOMAIN filed \subseteq Ids /\ Ids \subseteq Nat /\ MaxFiled \in Nat
         /\ \A id \in DOMAIN filed : filed[id] \in FiledRow
BY HintCapsAssumption DEF FilingTypes, Ids

LEMMA SimilarityRange ==
  ASSUME FilingTypes, NEW id \in DOMAIN filed, NEW text \in Texts
  PROVE  /\ Similarity(id, text) \in 0..100
         /\ BodyScore[<<filed[id].text, text>>] \in 0..100
<1>1. filed[id].text \in Texts
  BY FiledIds DEF FiledRow
<1>2. BodyScore[<<filed[id].text, text>>] \in 0..100 /\ TitleScore[<<filed[id].text, text>>] \in 0..100
  <2>1. <<filed[id].text, text>> \in Texts \X Texts
    BY <1>1
  <2>2. QED  BY <2>1, HintScoresAssumption
<1>3. QED  BY SMTT(30), <1>2 DEF Similarity

\* What an equal similarity means for the order of the best hints.
LEMMA RankIsOfSimilarity ==
  ASSUME NEW m \in Nat, NEW s \in 0..100, NEW other \in 1..m, NEW id \in 1..m,
         100 * (m + 1) + id =< s * (m + 1) + other
  PROVE  s = 100
<1>1. SUFFICES ASSUME s =< 99 PROVE FALSE
  OBVIOUS
<1>2. s * (m + 1) =< 99 * (m + 1)
  BY <1>1
<1>3. QED  BY <1>2

\* However the caps cut, while they do not crowd anybody out, an open ticket
\* that was filed with the same text is among the hints.
LEMMA TwinIsAmongTheHints ==
  ASSUME FilingTypes, NEW id \in DOMAIN filed, NEW text \in Texts,
         NEW twin \in OpenOthers(id), Exact(twin, text), ~Crowded(id, text),
         NEW candidates \in Candidates(id), NEW pool \in Pooled(candidates, text),
         NEW hints \in Best(pool, text)
  PROVE  twin \in hints
<1> DEFINE alike == { other \in OpenOthers(id) : Similarity(other, text) = 100 }
           pooling == [other \in candidates |->
                         IF Exact(other, text) THEN 101 ELSE BodyScore[<<filed[other].text, text>>]]
           similar == { other \in pool : Similarity(other, text) >= Threshold }
           ranking == [other \in similar |->
                         Similarity(other, text) * (MaxFiled + 1) + other]
<1>1. OpenOthers(id) \subseteq DOMAIN filed /\ OpenOthers(id) \subseteq Ids
  BY FiledIds DEF OpenOthers
<1>2. IsFiniteSet(Ids)
  <2>1. 1 \in Int /\ MaxFiled \in Int
    BY HintCapsAssumption
  <2>2. QED  BY <2>1, FS_Interval DEF Ids
<1>3. IsFiniteSet(OpenOthers(id)) /\ IsFiniteSet(alike)
  <2>1. alike \in SUBSET Ids
    BY <1>1
  <2>2. QED  BY <1>1, <1>2, <2>1, FS_Subset
<1>4. /\ Cardinality(OpenOthers(id)) =< MaxCandidates
      /\ Cardinality(alike) =< Pool /\ Cardinality(alike) =< MaxHints
  <2>1. Cardinality(OpenOthers(id)) \in Nat /\ Cardinality(alike) \in Nat
    BY <1>3, FS_CardinalityType
  <2>2. ~(Cardinality(OpenOthers(id)) > MaxCandidates)
    BY DEF Crowded
  <2>3. ~(Cardinality(alike) > Min({MaxHints, Pool}))
    BY DEF Crowded
  <2>4. Min({MaxHints, Pool}) \in Nat /\ Min({MaxHints, Pool}) =< MaxHints
                                    /\ Min({MaxHints, Pool}) =< Pool
    BY MinOfTwo, HintCapsAssumption
  <2> HIDE DEF alike
  <2>5. QED  BY <2>1, <2>2, <2>3, <2>4, HintCapsAssumption
<1>5. candidates = OpenOthers(id)
  BY <1>3, <1>4, TopOfFew, HintCapsAssumption DEF Candidates
<1>6. twin \in alike
  BY DEF Similarity
<1>7. twin \in pool
  <2>1. pool \in Top(candidates, Pool, pooling)
    BY DEF Pooled
  <2>2. \A other \in candidates : pooling[twin] =< pooling[other] => other \in alike
    <3>1. SUFFICES ASSUME NEW other \in candidates, pooling[twin] =< pooling[other]
                   PROVE  other \in alike
      OBVIOUS
    <3>2. pooling[twin] = 101
      BY <1>5
    <3>3. other \in DOMAIN filed /\ BodyScore[<<filed[other].text, text>>] \in 0..100
      BY <1>1, <1>5, SimilarityRange
    <3>4. Exact(other, text)
      BY <3>1, <3>2, <3>3
    <3>5. QED  BY <1>5, <3>4 DEF Similarity
  <2> HIDE DEF alike, pooling
  <2>3. QED  BY <1>3, <1>4, <1>5, <1>6, <2>1, <2>2, TopHasTheFirst, HintCapsAssumption
<1>8. pool \subseteq OpenOthers(id)
  BY <1>5, TopIsOf DEF Pooled
<1>9. twin \in similar
  BY <1>6, <1>7, HintThresholdAssumption
<1>10. hints \in Top(similar, MaxHints, ranking)
  BY DEF Best
<1>11. IsFiniteSet(similar)
  <2>1. similar \in SUBSET OpenOthers(id)
    BY <1>8
  <2> HIDE DEF similar
  <2>2. QED  BY <1>3, <2>1, FS_Subset
<1>12. \A other \in similar : ranking[twin] =< ranking[other] => other \in alike
  <2>1. SUFFICES ASSUME NEW other \in similar, ranking[twin] =< ranking[other]
                 PROVE  other \in alike
    OBVIOUS
  <2>2. other \in OpenOthers(id) /\ other \in 1..MaxFiled /\ twin \in 1..MaxFiled
    BY <1>1, <1>8 DEF Ids
  <2>3. Similarity(other, text) \in 0..100
    BY <1>1, <2>2, SimilarityRange
  <2>4. ranking[twin] = 100 * (MaxFiled + 1) + twin
    BY <1>6, <1>9
  <2>5. 100 * (MaxFiled + 1) + twin =< Similarity(other, text) * (MaxFiled + 1) + other
    BY <2>1, <2>4
  <2>6. Similarity(other, text) = 100
    BY <2>2, <2>3, <2>5, RankIsOfSimilarity, HintCapsAssumption
  <2>7. QED  BY <2>2, <2>6
<1> HIDE DEF alike, similar, ranking
<1>13. QED  BY <1>3, <1>4, <1>6, <1>9, <1>10, <1>11, <1>12, TopHasTheFirst, HintCapsAssumption

----------------------------------------------------------------------------
(* The invariant holds *)

LEMMA FilingInitInv == FilingInit => FilingInv
<1>1. SUFFICES ASSUME FilingInit PROVE FilingInv
  OBVIOUS
<1>2. filed = <<>> /\ filed \in Seq(FiledRow) /\ Len(filed) = 0 /\ DOMAIN filed = {}
  BY <1>1 DEF FilingInit
<1>3. NotFiling \in Filing /\ NotFiling.pc = "idle"
  BY HintCapsAssumption DEF NotFiling, Filing
<1>4. NoAnswer \in Answer /\ NoAnswer.state = "none"
  BY DEF NoAnswer, Answer
<1>5. FilingTypes
  BY <1>1, <1>2, <1>3, <1>4, HintCapsAssumption DEF FilingInit, FilingTypes
<1>6. FilersKnow /\ CheckedAreShown
  BY <1>1, <1>3, <1>4 DEF FilingInit, FilersKnow, CheckedAreShown
<1>7. OpenUnlessAway /\ TwinsAreTold
  BY <1>2 DEF OpenUnlessAway, TwinsAreTold
<1>8. QED  BY <1>5, <1>6, <1>7 DEF FilingInv

LEMMA InsertKeeps ==
  ASSUME FilingInv, NEW f \in Filers, NEW text \in Texts, InsertTicket(f, text)
  PROVE  FilingInv'
<1> DEFINE row == [text |-> text, hash |-> text, shown |-> FALSE, open |-> TRUE, away |-> FALSE]
           n == Len(filed) + 1
<1> USE DEF FilingInv
<1>1. row \in FiledRow /\ row.open
  BY DEF FiledRow
<1>2. /\ filed \in Seq(FiledRow) /\ filed' = Append(filed, row) /\ told' = told
      /\ filer' = [filer EXCEPT ![f] = [pc |-> "inserted", id |-> n]] /\ filer[f].pc = "idle"
      /\ Len(filed) < MaxFiled
  BY DEF InsertTicket, FilingTypes
<1> HIDE DEF row
<1>3. /\ filed' \in Seq(FiledRow) /\ Len(filed') = n /\ DOMAIN filed' = DOMAIN filed \cup {n}
      /\ n \notin DOMAIN filed /\ filed'[n] = row
      /\ \A id \in DOMAIN filed : filed'[id] = filed[id]
  BY <1>1, <1>2
<1>4. n \in 0..MaxFiled /\ n \in Ids /\ n =< MaxFiled
  BY <1>2, FiledIds DEF Ids
<1>5. FilingTypes'
  BY <1>2, <1>3, <1>4 DEF FilingTypes, Filing
<1>6. FilersKnow'
  BY <1>2, <1>3 DEF FilersKnow, FilingTypes
<1>7. CheckedAreShown'
  BY <1>2, <1>3 DEF CheckedAreShown, Ids
<1>8. OpenUnlessAway'
  BY <1>1, <1>3 DEF OpenUnlessAway
<1>9. TwinsAreTold'
  <2>1. told'[n].state # "checked"
    BY <1>2, <1>3, <1>4 DEF CheckedAreShown
  <2>2. SUFFICES ASSUME NEW i \in DOMAIN filed', NEW j \in DOMAIN filed',
                        Twins(i, j)', Settled(i)', Settled(j)'
                 PROVE  j \in told'[i].hints \/ i \in told'[j].hints
    BY DEF TwinsAreTold
  <2>3. i \in DOMAIN filed /\ j \in DOMAIN filed
    BY <1>3, <2>1, <2>2 DEF Settled
  <2>4. QED  BY <1>2, <1>3, <2>2, <2>3 DEF TwinsAreTold, Twins, Settled
<1>10. QED  BY <1>5, <1>6, <1>7, <1>8, <1>9

\* A step that leaves the ids, the hashes and what was told, that hides no row
\* and that closes none without a trace, keeps the rows' parts of the invariant.
LEMMA RowsKeep ==
  ASSUME FilingInv, FilingTypes', told' = told, DOMAIN filed' = DOMAIN filed,
         \A id \in DOMAIN filed :
           /\ filed'[id].hash = filed[id].hash
           /\ filed[id].shown => filed'[id].shown
           /\ filed[id].away => filed'[id].away
           /\ filed'[id].open \/ filed'[id].away
  PROVE  CheckedAreShown' /\ OpenUnlessAway' /\ TwinsAreTold'
<1>1. CheckedAreShown'
  BY DEF FilingInv, CheckedAreShown, Ids
<1>2. OpenUnlessAway'
  BY DEF OpenUnlessAway
<1>3. TwinsAreTold'
  <2>1. SUFFICES ASSUME NEW i \in DOMAIN filed, NEW j \in DOMAIN filed,
                        Twins(i, j)', Settled(i)', Settled(j)'
                 PROVE  j \in told'[i].hints \/ i \in told'[j].hints
    BY DEF TwinsAreTold
  <2>2. Twins(i, j) /\ Settled(i) /\ Settled(j)
    BY <2>1 DEF Twins, Settled
  <2>3. QED  BY <2>2 DEF FilingInv, TwinsAreTold
<1>4. QED  BY <1>1, <1>2, <1>3

LEMMA CommitKeeps ==
  ASSUME FilingInv, NEW f \in Filers, CommitTicket(f)
  PROVE  FilingInv'
<1> USE DEF FilingInv
<1> DEFINE id == filer[f].id
<1>1. /\ filed \in Seq(FiledRow) /\ id \in DOMAIN filed /\ told' = told
      /\ filed' = [filed EXCEPT ![id] = [filed[id] EXCEPT !.shown = TRUE]]
      /\ filer' = [filer EXCEPT ![f] = [filer[f] EXCEPT !.pc = "committed"]]
  BY DEF CommitTicket, FilersKnow, FilingTypes
<1>2. [filed[id] EXCEPT !.shown = TRUE] \in FiledRow
  BY <1>1, FiledIds DEF FiledRow
<1>3. filed' \in Seq(FiledRow) /\ Len(filed') = Len(filed) /\ DOMAIN filed' = DOMAIN filed
  BY <1>1, <1>2
<1>4. FilingTypes'
  BY <1>1, <1>3 DEF FilingTypes, Filing
<1>5. ASSUME NEW other \in DOMAIN filed, other # id PROVE filed'[other] = filed[other]
  BY <1>1, <1>5
<1>6. filed'[id] = [filed[id] EXCEPT !.shown = TRUE]
  BY <1>1
<1>7. FilersKnow'
  BY <1>1, <1>3, <1>5, <1>6, FiledIds DEF FilersKnow, FilingTypes, Filing, FiledRow
<1>8. \A other \in DOMAIN filed :
        /\ filed'[other].hash = filed[other].hash
        /\ filed[other].shown => filed'[other].shown
        /\ filed[other].away => filed'[other].away
        /\ filed'[other].open \/ filed'[other].away
  <2>1. SUFFICES ASSUME NEW other \in DOMAIN filed
                 PROVE  /\ filed'[other].hash = filed[other].hash
                        /\ filed[other].shown => filed'[other].shown
                        /\ filed'[other].open = filed[other].open
                        /\ filed'[other].away = filed[other].away
    BY DEF OpenUnlessAway
  <2>2. CASE other = id
    <3>1. filed[other] \in FiledRow /\ filed'[other] = [filed[other] EXCEPT !.shown = TRUE]
      BY <1>6, <2>2, FiledIds
    <3>2. QED  BY <3>1 DEF FiledRow
  <2>3. CASE other # id
    <3>1. filed'[other] = filed[other]
      BY <1>5, <2>3
    <3>2. QED  BY <3>1
  <2>4. QED  BY <2>2, <2>3
<1>9. QED  BY <1>1, <1>3, <1>4, <1>7, <1>8, RowsKeep

LEMMA ChangeKeeps ==
  ASSUME FilingInv, NEW id \in DOMAIN filed, NEW row \in FiledRow, Change(id, row),
         row.hash = filed[id].hash, row.shown = filed[id].shown,
         filed[id].away => row.away, row.open \/ row.away
  PROVE  FilingInv'
<1> USE DEF FilingInv
<1>1. filed \in Seq(FiledRow) /\ filed' = [filed EXCEPT ![id] = row] /\ told' = told /\ filer' = filer
  BY DEF Change, FilingTypes
<1>2. filed' \in Seq(FiledRow) /\ Len(filed') = Len(filed) /\ DOMAIN filed' = DOMAIN filed
  BY <1>1
<1>3. FilingTypes'
  BY <1>1, <1>2 DEF FilingTypes
<1>4. \A other \in DOMAIN filed :
        /\ filed'[other].hash = filed[other].hash
        /\ filed'[other].shown = filed[other].shown
        /\ filed[other].away => filed'[other].away
        /\ filed'[other].open \/ filed'[other].away
  BY <1>1 DEF OpenUnlessAway
<1>5. FilersKnow'
  BY <1>1, <1>2, <1>4 DEF FilersKnow
<1>6. QED  BY <1>1, <1>2, <1>3, <1>4, <1>5, RowsKeep

LEMMA ChangesKeep ==
  ASSUME FilingInv, NEW id \in DOMAIN filed,
         \/ PutAway(id) \/ BringBack(id)
         \/ \E text \in Texts : EditText(id, text)
  PROVE  FilingInv'
<1>1. filed[id] \in FiledRow /\ (filed[id].open \/ filed[id].away)
  BY FiledIds DEF FilingInv, OpenUnlessAway
<1>2. CASE PutAway(id)
  <2> DEFINE row == [filed[id] EXCEPT !.open = FALSE, !.away = TRUE]
  <2>1. row \in FiledRow /\ row.hash = filed[id].hash /\ row.shown = filed[id].shown /\ row.away
    BY <1>1 DEF FiledRow
  <2>2. Change(id, row)
    BY <1>2 DEF PutAway
  <2> HIDE DEF row
  <2>3. QED  BY <2>1, <2>2, ChangeKeeps
<1>3. CASE BringBack(id)
  <2> DEFINE row == [filed[id] EXCEPT !.open = TRUE]
  <2>1. /\ row \in FiledRow /\ row.hash = filed[id].hash /\ row.shown = filed[id].shown
        /\ row.open /\ row.away = filed[id].away
    BY <1>1 DEF FiledRow
  <2>2. Change(id, row)
    BY <1>3 DEF BringBack
  <2> HIDE DEF row
  <2>3. QED  BY <2>1, <2>2, ChangeKeeps
<1>4. CASE \E text \in Texts : EditText(id, text)
  <2>1. PICK text \in Texts : EditText(id, text)
    BY <1>4
  <2> DEFINE row == [filed[id] EXCEPT !.text = text]
  <2>2. /\ row \in FiledRow /\ row.hash = filed[id].hash /\ row.shown = filed[id].shown
        /\ row.open = filed[id].open /\ row.away = filed[id].away
    BY <1>1 DEF FiledRow
  <2>3. Change(id, row)
    BY <2>1 DEF EditText
  <2> HIDE DEF row
  <2>4. QED  BY <1>1, <2>2, <2>3, ChangeKeeps
<1>5. QED  BY <1>2, <1>3, <1>4

LEMMA CheckKeeps ==
  ASSUME FilingInv, NEW f \in Filers, CheckDuplicates(f)
  PROVE  FilingInv'
<1> USE DEF FilingInv
<1> DEFINE id == filer[f].id
           text == filed[id].hash
<1>1. id \in DOMAIN filed /\ filed[id].shown /\ text \in Texts /\ id \in Ids
  BY FiledIds DEF CheckDuplicates, FilersKnow, FiledRow
<1> DEFINE answer(hints) == [state |-> "checked", hints |-> hints, crowded |-> Crowded(id, text)]
<1>2. PICK candidates \in Candidates(id) :
        \E pool \in Pooled(candidates, text) : \E hints \in Best(pool, text) :
          told' = [told EXCEPT ![id] = answer(hints)]
  BY DEF CheckDuplicates
<1>3. PICK pool \in Pooled(candidates, text) : \E hints \in Best(pool, text) :
          told' = [told EXCEPT ![id] = answer(hints)]
  BY <1>2
<1>4. PICK hints \in Best(pool, text) : told' = [told EXCEPT ![id] = answer(hints)]
  BY <1>3
<1>5. filed' = filed /\ filer' = [filer EXCEPT ![f] = NotFiling]
  BY DEF CheckDuplicates
<1>6. /\ told'[id] = answer(hints)
      /\ \A other \in Ids \ {id} : told'[other] = told[other]
  BY <1>1, <1>4 DEF FilingTypes
<1>7. hints \subseteq Ids /\ Crowded(id, text) \in BOOLEAN
  <2>1. hints \subseteq pool /\ pool \subseteq candidates /\ candidates \subseteq OpenOthers(id)
    BY TopIsOf DEF Best, Pooled, Candidates
  <2>2. QED  BY <2>1, FiledIds DEF OpenOthers, Crowded
<1>8. FilingTypes'
  <2>1. answer(hints) \in Answer
    BY <1>7 DEF Answer
  <2>2. NotFiling \in Filing
    BY HintCapsAssumption DEF NotFiling, Filing
  <2>3. QED  BY <1>4, <1>5, <2>1, <2>2 DEF FilingTypes
<1>9. FilersKnow'
  BY <1>5 DEF FilersKnow, FilingTypes, NotFiling
<1>10. CheckedAreShown'
  BY <1>1, <1>5, <1>6 DEF CheckedAreShown
<1>11. OpenUnlessAway'
  BY <1>5 DEF OpenUnlessAway
<1>12. ASSUME NEW twin \in DOMAIN filed, Twins(id, twin), Settled(twin), ~Crowded(id, text)
       PROVE  twin \in hints
  <2>1. filed[twin].shown /\ filed[twin].open
    BY <1>12, FiledIds DEF Settled, CheckedAreShown, OpenUnlessAway
  <2>2. twin \in OpenOthers(id) /\ Exact(twin, text)
    BY <1>12, <2>1 DEF OpenOthers, Exact, Twins
  <2>3. QED  BY <1>1, <1>12, <2>2, TwinIsAmongTheHints
<1>13. TwinsAreTold'
  <2>1. SUFFICES ASSUME NEW i \in DOMAIN filed, NEW j \in DOMAIN filed,
                        Twins(i, j)', Settled(i)', Settled(j)'
                 PROVE  j \in told'[i].hints \/ i \in told'[j].hints
    BY <1>5 DEF TwinsAreTold
  <2>2. Twins(i, j) /\ Twins(j, i) /\ i \in Ids /\ j \in Ids
    BY <1>5, <2>1, FiledIds DEF Twins
  <2>3. CASE i = id
    <3>1. Settled(j) /\ ~Crowded(id, text)
      BY <1>5, <1>6, <2>1, <2>2, <2>3 DEF Settled, Twins
    <3>2. QED  BY <1>6, <1>12, <2>2, <2>3, <3>1
  <2>4. CASE j = id
    <3>1. Settled(i) /\ ~Crowded(id, text)
      BY <1>5, <1>6, <2>1, <2>2, <2>4 DEF Settled, Twins
    <3>2. QED  BY <1>6, <1>12, <2>2, <2>4, <3>1
  <2>5. CASE i # id /\ j # id
    BY <1>5, <1>6, <2>1, <2>2, <2>5 DEF Settled, TwinsAreTold
  <2>6. QED  BY <2>3, <2>4, <2>5
<1>14. QED  BY <1>8, <1>9, <1>10, <1>11, <1>13

\* A filer that goes away leaves its ticket without an answer of the query.
LEMMA LeaveKeeps ==
  ASSUME FilingInv, NEW f \in Filers, CheckFails(f) \/ LeaveFiling(f)
  PROVE  FilingInv'
<1> USE DEF FilingInv
<1>1. /\ filed' = filed /\ filer' = [filer EXCEPT ![f] = NotFiling]
      /\ \A id \in Ids : told'[id] = told[id] \/ told'[id] = [told[id] EXCEPT !.state = "unavailable"]
      /\ told' \in [Ids -> Answer]
  <2>1. \A id \in Ids : told[id] \in Answer /\ [told[id] EXCEPT !.state = "unavailable"] \in Answer
    BY DEF FilingTypes, Answer
  <2>2. CASE CheckFails(f)
    BY <2>1, <2>2 DEF CheckFails, FilingTypes
  <2>3. CASE LeaveFiling(f)
    BY <2>3 DEF LeaveFiling, FilingTypes
  <2>4. QED  BY <2>2, <2>3
<1>2. \A id \in Ids : told'[id].state = "checked" => told'[id] = told[id]
  BY <1>1 DEF FilingTypes, Answer
<1>3. FilingTypes'
  <2>1. NotFiling \in Filing
    BY HintCapsAssumption DEF NotFiling, Filing
  <2>2. QED  BY <1>1, <2>1 DEF FilingTypes
<1>4. FilersKnow' /\ OpenUnlessAway'
  BY <1>1 DEF FilersKnow, OpenUnlessAway, FilingTypes, NotFiling
<1>5. CheckedAreShown'
  BY <1>1, <1>2 DEF CheckedAreShown
<1>6. TwinsAreTold'
  BY <1>1, <1>2, FiledIds DEF TwinsAreTold, Twins, Settled
<1>7. QED  BY <1>3, <1>4, <1>5, <1>6

LEMMA FilingStepInv == FilingInv /\ [FilingNext]_filingVars => FilingInv'
<1>1. SUFFICES ASSUME FilingInv, [FilingNext]_filingVars PROVE FilingInv'
  OBVIOUS
<1>2. ASSUME NEW f \in Filers, NEW text \in Texts, InsertTicket(f, text) PROVE FilingInv'
  BY <1>1, <1>2, InsertKeeps
<1>3. ASSUME NEW f \in Filers, CommitTicket(f) PROVE FilingInv'
  BY <1>1, <1>3, CommitKeeps
<1>4. ASSUME NEW f \in Filers, CheckDuplicates(f) PROVE FilingInv'
  BY <1>1, <1>4, CheckKeeps
<1>5. ASSUME NEW f \in Filers, CheckFails(f) \/ LeaveFiling(f) PROVE FilingInv'
  BY <1>1, <1>5, LeaveKeeps
<1>6. ASSUME NEW id \in DOMAIN filed,
             PutAway(id) \/ BringBack(id) \/ \E text \in Texts : EditText(id, text)
      PROVE  FilingInv'
  BY <1>1, <1>6, ChangesKeep
<1>7. CASE UNCHANGED filingVars
  BY <1>1, <1>7 DEF filingVars, FilingInv, FilingTypes, FilersKnow, CheckedAreShown,
     OpenUnlessAway, TwinsAreTold, Twins, Settled
<1>8. QED  BY <1>1, <1>2, <1>3, <1>4, <1>5, <1>6, <1>7 DEF FilingNext

LEMMA FilingInvariant == FilingSpec => []FilingInv
BY FilingInitInv, FilingStepInv, PTL DEF FilingSpec

LEMMA OneIsTold == FilingInv => OnlyOneIsNotTold
<1>1. SUFFICES ASSUME FilingInv, NEW text \in Texts
               PROVE  LET twins == { id \in DOMAIN filed : filed[id].hash = text }
                          answered == { id \in twins : told[id].state = "checked" /\ ~filed[id].away }
                      IN  Cardinality({ id \in answered : ~told[id].crowded
                                           /\ told[id].hints \cap (twins \ {id}) = {} }) =< 1
  BY DEF OnlyOneIsNotTold
<1> DEFINE twins == { id \in DOMAIN filed : filed[id].hash = text }
           answered == { id \in twins : told[id].state = "checked" /\ ~filed[id].away }
           unaware == { id \in answered : ~told[id].crowded
                                           /\ told[id].hints \cap (twins \ {id}) = {} }
<1>2. ASSUME NEW i \in unaware, NEW j \in unaware, i # j PROVE FALSE
  <2>1. /\ i \in DOMAIN filed /\ j \in DOMAIN filed /\ Twins(i, j) /\ Settled(i) /\ Settled(j)
        /\ i \in twins \ {j} /\ j \in twins \ {i}
    BY <1>2 DEF Twins, Settled
  <2>2. j \in told[i].hints \/ i \in told[j].hints
    BY <1>1, <2>1 DEF FilingInv, TwinsAreTold
  <2>3. QED  BY <2>1, <2>2
<1> HIDE DEF unaware
<1>3. Cardinality(unaware) \in 0..1
  BY <1>2, AtMostOne
<1>4. QED  BY <1>3 DEF unaware

\* Of the agents that file one text, whatever the scores and the caps, at most
\* one is told of no other's ticket, unless tickets were put away or a cap was
\* reached (find_possible_duplicates after the commit of create_ticket).
THEOREM OneIsNotToldAtMost == FilingSpec => []OnlyOneIsNotTold
BY FilingInvariant, OneIsTold, PTL

----------------------------------------------------------------------------
(* What one reference says *)

CallTypes ==
  /\ call.project \in Arguments
  /\ call.ref \in Refs
  /\ call.others \in Seq(Refs)

LEMMA AbsentIsRead ==
  ASSUME NEW ref \in Refs, ref.form = "absent"
  PROVE  ref = Absent
BY DEF Refs, Ref, WellFormed, IsText, Absent, Forms

\* The project that a reference ends up with is the one it names, or else the
\* one it is passed on with; what cannot be read is refused.
LEMMA CoerceTells ==
  ASSUME NEW ref \in Refs, NEW project \in Arguments
  PROVE  LET coerced == Coerce(ref, project)
         IN  /\ coerced.refused <=> ~Readable(ref)
             /\ coerced.refused => coerced = Refused
             /\ ~coerced.refused =>
                  /\ coerced = Meant(coerced.project, coerced.id)
                  /\ \/ Names(ref) = {} /\ coerced.project = project
                     \/ Names(ref) = {coerced.project} /\ coerced.project \in Projects
                  /\ coerced.id = IF ref = Absent THEN NoId ELSE ref.seq
                  /\ coerced.id = NoId <=> ref = Absent
             /\ \A named \in Names(ref) : Names(ref) = {named} /\ named \in Projects
<1> DEFINE coerced == Coerce(ref, project)
<1>1. /\ ref.form \in Forms /\ ref.seq \in 0..MaxId + 1 /\ ref.prefix \in KnownPrefixes
      /\ ref.wrapping \in Wrappings /\ ref.site \in Projects /\ WellFormed(ref)
  BY DEF Refs, Ref
<1>2. Absent.form = "absent"
  BY DEF Absent
<1>3. CASE ref.form = "absent"
  <2>1. ref = Absent /\ Names(ref) = {} /\ coerced = Meant(project, NoId)
    BY <1>3, AbsentIsRead DEF Names, Coerce
  <2>2. QED  BY <2>1 DEF Meant, Readable
<1>4. ASSUME ref.form # "absent", ~Parses(ref) PROVE coerced = Refused /\ ~Readable(ref)
  BY <1>2, <1>4 DEF Coerce, Readable
<1>5. ASSUME Parses(ref) PROVE ref.form \in {"number", "digits", "prefixed"} /\ ref.seq \in 0..MaxId
  BY <1>1, <1>5 DEF Parses, Forms
<1>6. ASSUME ref.form = "prefixed", ref.prefix \in DOMAIN Owner
      PROVE  Names(ref) = {Owner[ref.prefix]} /\ Owner[ref.prefix] \in Projects
  BY <1>6, RefOwnerAssumption DEF Names, Range
<1>7. CASE Parses(ref) /\ ref.form = "prefixed"
  <2>1. CASE ref.prefix \in DOMAIN Owner
    <3>1. coerced = Meant(Owner[ref.prefix], ref.seq)
      BY <1>7, <2>1 DEF Coerce
    <3>2. Readable(ref) /\ ref # Absent
      BY <1>2, <1>6, <1>7, <2>1 DEF Readable
    <3>3. QED  BY <1>5, <1>6, <1>7, <2>1, <3>1, <3>2, RefMaxIdAssumption DEF Meant, NoId
  <2>2. CASE ref.prefix \notin DOMAIN Owner
    <3>1. coerced = Refused /\ Names(ref) = {}
      BY <1>7, <2>2 DEF Coerce, Names
    <3>2. QED  BY <1>2, <1>7, <3>1 DEF Readable, Refused
  <2>3. QED  BY <2>1, <2>2
<1>8. CASE Parses(ref) /\ ref.form \in {"number", "digits"}
  <2>1. coerced = Meant(SiteProject(ref, project), ref.seq)
    BY <1>8 DEF Coerce
  <2>2. Readable(ref) /\ ref # Absent
    BY <1>2, <1>8 DEF Readable
  <2>3. ref.wrapping = "ours" => ref.form = "digits"
    BY <1>1, <1>8 DEF WellFormed, IsText
  <2>4. \/ Names(ref) = {} /\ SiteProject(ref, project) = project
        \/ Names(ref) = {ref.site} /\ SiteProject(ref, project) = ref.site
    BY <1>8, <2>3 DEF Names, SiteProject
  <2>5. QED  BY <1>1, <1>5, <1>8, <2>1, <2>2, <2>4, RefMaxIdAssumption DEF Meant, NoId
<1>9. CASE ref.form # "absent" /\ ~Parses(ref)
  <2>1. \A named \in Names(ref) : Names(ref) = {named} /\ named \in Projects
    BY <1>1, <1>6 DEF Names
  <2>2. QED  BY <1>4, <1>9, <2>1 DEF Refused
<1>10. QED  BY <1>3, <1>5, <1>7, <1>8, <1>9

----------------------------------------------------------------------------
(* What a whole call says *)

Differ(S) == \E x, y \in S : x # y
Argument(project) == {project} \ {NoProject}

LEMMA JoinedTells ==
  ASSUME NEW ref \in Refs, NEW project \in Arguments
  PROVE  LET single == Joined(project, Coerce(ref, project))
             names == Argument(project) \cup Names(ref)
         IN  /\ single.refused \in BOOLEAN
             /\ single.refused => single = Refused /\ (~Readable(ref) \/ Differ(names))
             /\ ~single.refused =>
                  /\ Readable(ref)
                  /\ single.project \in Arguments /\ Argument(single.project) = names
                  /\ single.id = IF ref = Absent THEN NoId ELSE ref.seq
<1> DEFINE coerced == Coerce(ref, project)
           single == Joined(project, coerced)
           names == Argument(project) \cup Names(ref)
<1>1. CASE coerced.refused
  BY <1>1, CoerceTells DEF Joined, Refused
<1>2. CASE ~coerced.refused /\ coerced.project # project /\ project # NoProject
  <2>1. Names(ref) = {coerced.project}
    BY <1>2, CoerceTells
  <2>2. project \in names /\ coerced.project \in names
    BY <1>2, <2>1 DEF Argument
  <2>3. single = Refused
    BY <1>2 DEF Joined
  <2>4. QED  BY <1>2, <2>2, <2>3 DEF Differ, Refused
<1>3. CASE ~coerced.refused /\ (coerced.project = project \/ project = NoProject)
  <2>1. single = coerced
    BY <1>3 DEF Joined
  <2>2. coerced = Meant(coerced.project, coerced.id) /\ Readable(ref)
    BY <1>3, CoerceTells
  <2>3. coerced.refused = FALSE
    BY <2>2 DEF Meant
  <2>4. \/ Names(ref) = {} /\ coerced.project = project
        \/ Names(ref) = {coerced.project} /\ coerced.project \in Projects
    BY <1>3, CoerceTells
  <2>5. coerced.project \in Arguments /\ Argument(coerced.project) = names
    BY <1>3, <2>4, RefNoProjectAssumption DEF Argument, Arguments
  <2>6. coerced.id = IF ref = Absent THEN NoId ELSE ref.seq
    BY <1>3, CoerceTells
  <2>7. QED  BY <2>1, <2>2, <2>3, <2>5, <2>6
<1>4. QED  BY <1>1, <1>2, <1>3

LEMMA BatchTells ==
  ASSUME NEW batch \in Seq(Refs), batch # <<>>, NEW project \in Arguments
  PROVE  LET many == BatchJoined(project, batch)
             names == Argument(project) \cup UNION { Names(batch[i]) : i \in DOMAIN batch }
             readable == \A i \in DOMAIN batch : Readable(batch[i])
         IN  /\ many.refused \in BOOLEAN
             /\ many.refused => ~readable \/ Differ(names)
             /\ ~many.refused => readable /\ Argument(many.project) = names
<1> DEFINE many == BatchJoined(project, batch)
           names == Argument(project) \cup UNION { Names(batch[i]) : i \in DOMAIN batch }
           coerced == [i \in DOMAIN batch |-> Coerce(batch[i], project)]
           named == { coerced[i].project : i \in DOMAIN coerced } \ {NoProject}
           projects == BatchProjects(project, coerced)
           only == CHOOSE one \in projects : TRUE
<1>1. DOMAIN batch = 1..Len(batch) /\ Len(batch) \in Nat /\ \A i \in DOMAIN batch : batch[i] \in Refs
  OBVIOUS
<1>2. /\ projects = IF named = {} THEN {project} ELSE named
      /\ projects # {}
  BY DEF BatchProjects
<1>3. IsFiniteSet(projects)
  <2> DEFINE f == [i \in 1..Len(batch) |-> coerced[i].project]
  <2>1. IsFiniteSet({ f[i] : i \in 1..Len(batch) })
    BY <1>1, FiniteImage
  <2>2. named \in SUBSET { f[i] : i \in 1..Len(batch) }
    BY <1>1
  <2>3. IsFiniteSet(named)
    BY <2>1, <2>2, FS_Subset
  <2>4. QED  BY ZenonT(60), <1>2, <2>3, FS_Singleton
<1>4. many = IF \E i \in DOMAIN batch : coerced[i].refused THEN Refused
             ELSE IF Cardinality(projects) > 1 THEN Refused
             ELSE Joined(project, Meant(only, NoId))
  BY DEF BatchJoined
<1>5. ASSUME NEW i \in DOMAIN batch
      PROVE  /\ coerced[i].refused <=> ~Readable(batch[i])
             /\ ~coerced[i].refused =>
                  \/ Names(batch[i]) = {} /\ coerced[i].project = project
                  \/ Names(batch[i]) = {coerced[i].project} /\ coerced[i].project \in Projects
  BY <1>1, CoerceTells
<1> HIDE DEF coerced, many, projects
<1>6. CASE \E i \in DOMAIN batch : coerced[i].refused
  <2>1. many = Refused /\ many.refused = TRUE
    BY <1>4, <1>6 DEF Refused
  <2>2. ~ \A i \in DOMAIN batch : Readable(batch[i])
    BY <1>5, <1>6
  <2>3. QED  BY <2>1, <2>2 DEF many
<1>7. CASE \A i \in DOMAIN batch : ~coerced[i].refused
  <2>1. \A i \in DOMAIN batch : Readable(batch[i])
    BY <1>5, <1>7
  <2>2. DOMAIN coerced = DOMAIN batch
    BY DEF coerced
  <2>3. named \subseteq names
    BY <1>5, <1>7, <2>2 DEF Argument
  <2>4. projects \ {NoProject} \subseteq names
    BY <1>2, <2>3 DEF Argument
  <2>5. NoProject \in projects => projects = {NoProject}
    BY <1>2
  <2>6. CASE Cardinality(projects) > 1
    <3>1. \E x, y \in projects : x # y
      BY <2>6, AtMostOne
    <3>2. Differ(names)
      BY <2>4, <2>5, <3>1 DEF Differ
    <3>3. QED  BY <1>4, <1>7, <2>6, <3>2 DEF many, Refused
  <2>7. CASE ~(Cardinality(projects) > 1)
    <3>1. only \in projects /\ projects = {only}
      BY <1>2, <1>3, <2>7, MoreThanOne
    <3>2. many = Joined(project, Meant(only, NoId))
      BY <1>4, <1>7, <2>7
    <3>3. CASE only # project /\ project # NoProject
      <4>1. only # NoProject
        BY <1>2, <3>1, <3>3
      <4>2. Differ(names)
        BY <2>4, <3>1, <3>3, <4>1 DEF Differ, Argument
      <4>3. many = Refused /\ many.refused = TRUE
        BY <3>2, <3>3 DEF Joined, Meant, Refused
      <4>4. QED  BY <4>2, <4>3 DEF many
    <3>4. CASE only = project \/ project = NoProject
      <4>1. many = Meant(only, NoId)
        BY <3>2, <3>4 DEF Joined, Meant
      <4>2. many.refused = FALSE /\ many.project = only
        BY <4>1 DEF Meant
      <4>3. Argument(only) \subseteq names
        BY <2>4, <3>1 DEF Argument
      <4>4. Argument(project) \subseteq Argument(only)
        BY <3>4 DEF Argument
      <4>5. ASSUME NEW i \in DOMAIN batch PROVE Names(batch[i]) \subseteq Argument(only)
        <5>1. Names(batch[i]) # {} => coerced[i].project \in named
          BY <1>5, <1>7, <2>2, RefNoProjectAssumption
        <5>2. QED  BY <1>2, <1>5, <1>7, <3>1, <5>1 DEF Argument
      <4>6. names = Argument(only)
        BY <4>3, <4>4, <4>5
      <4>7. QED  BY <2>1, <4>2, <4>6 DEF many
    <3>5. QED  BY <3>3, <3>4
  <2>8. QED  BY <2>6, <2>7
<1>8. QED  BY <1>6, <1>7

----------------------------------------------------------------------------
(* Calls *)

LEMMA CallInitTypes == CallInit => CallTypes
<1>1. Absent \in Refs
  <2>1. (CHOOSE project \in Projects : TRUE) \in Projects
    BY RefProjectsAssumption
  <2>2. UnknownPrefix \in KnownPrefixes /\ 0 \in 0..MaxId + 1
    BY RefMaxIdAssumption DEF KnownPrefixes
  <2>3. Absent \in Ref
    BY <2>1, <2>2 DEF Ref, Absent, Forms, Wrappings
  <2>4. QED  BY <2>3 DEF Refs, WellFormed, IsText, Absent
<1>2. QED  BY <1>1 DEF CallInit, NoCall, CallTypes, Arguments

LEMMA CallStepTypes == CallTypes /\ [AskCall]_call => CallTypes'
BY RefListsAssumption DEF CallTypes, AskCall, Calls

\* The projects that a call names are finitely many.
LEMMA NamedIsFinite ==
  ASSUME CallTypes
  PROVE  IsFiniteSet(Named)
<1> DEFINE n == Len(call.others)
           f == [i \in 1..n |-> IF Names(call.others[i]) = {} THEN NoProject
                                ELSE CHOOSE named \in Names(call.others[i]) : TRUE]
           image == { f[i] : i \in 1..n }
<1>1. n \in Nat /\ DOMAIN call.others = 1..n /\ \A i \in 1..n : call.others[i] \in Refs
  BY DEF CallTypes
<1>2. IsFiniteSet(image)
  BY <1>1, FiniteImage
<1>3. \A ref \in Refs : \A named \in Names(ref) : Names(ref) = {named}
  <2>1. NoProject \in Arguments
    BY DEF Arguments
  <2>2. QED  BY <2>1, CoerceTells
<1>4. ASSUME NEW i \in 1..n PROVE Names(call.others[i]) \subseteq image
  <2>1. f[i] \in image
    OBVIOUS
  <2>2. ASSUME NEW named \in Names(call.others[i]) PROVE named = f[i]
    BY <1>1, <1>3
  <2> HIDE DEF image
  <2>3. QED  BY <2>1, <2>2
<1> HIDE DEF f
<1>5. UNION { Names(ref) : ref \in All } \subseteq image \cup Names(call.ref)
  BY <1>1, <1>4 DEF All
<1>6. IsFiniteSet(Names(call.ref)) /\ IsFiniteSet({call.project})
  <2>1. Names(call.ref) = {} \/ \E named : Names(call.ref) = {named}
    BY <1>3 DEF CallTypes
  <2>2. IsFiniteSet({}) /\ \A named : IsFiniteSet({named})
    BY FS_EmptySet, FS_Singleton
  <2>3. QED  BY <2>1, <2>2
<1> HIDE DEF image
<1>7. IsFiniteSet((image \cup Names(call.ref)) \cup {call.project})
  BY <1>2, <1>6, FS_Union
<1>8. Named \in SUBSET ((image \cup Names(call.ref)) \cup {call.project})
  BY <1>5 DEF Named
<1>9. QED  BY <1>7, <1>8, FS_Subset

\* To name two projects is what Cardinality says it is.
LEMMA NamesTwo ==
  ASSUME CallTypes
  PROVE  Cardinality(Named) > 1 <=> Differ(Named)
<1>1. Differ(Named) => Cardinality(Named) > 1
  BY NamedIsFinite, MoreThanOne DEF Differ
<1>2. ~Differ(Named) => Cardinality(Named) \in 0..1
  BY AtMostOne DEF Differ
<1>3. QED  BY <1>1, <1>2

LEMMA CallsAreRead == CallTypes => CallsReachTheProjectTheyName
<1>1. SUFFICES ASSUME CallTypes PROVE CallsReachTheProjectTheyName
  OBVIOUS
<1> DEFINE single == Joined(call.project, Coerce(call.ref, call.project))
           names == Argument(call.project) \cup Names(call.ref)
           listed == UNION { Names(call.others[i]) : i \in DOMAIN call.others }
           many == BatchJoined(single.project, call.others)
<1>2. call.project \in Arguments /\ call.ref \in Refs /\ call.others \in Seq(Refs)
  BY <1>1 DEF CallTypes
<1>3. Named = names \cup listed
  BY DEF Named, All, Argument
<1>4. (\E ref \in All : ~Readable(ref)) <=>
        ~Readable(call.ref) \/ \E i \in DOMAIN call.others : ~Readable(call.others[i])
  BY DEF All
<1>5. /\ single.refused \in BOOLEAN
      /\ single.refused => single = Refused /\ (~Readable(call.ref) \/ Differ(names))
      /\ ~single.refused =>
           /\ Readable(call.ref)
           /\ single.project \in Arguments /\ Argument(single.project) = names
           /\ single.id = IF call.ref = Absent THEN NoId ELSE call.ref.seq
  BY <1>2, JoinedTells
<1>6. Carried = IF single.refused THEN Refused
                ELSE IF call.others = <<>> THEN single
                ELSE IF many.refused THEN Refused
                ELSE Meant(many.project, single.id)
  BY DEF Carried, TicketCall
<1>7. Refused.refused = TRUE
  BY DEF Refused
<1>8. Differ(names) => Differ(Named)
  BY <1>3 DEF Differ
<1>9. \A project \in Arguments : ~Differ(Argument(project))
  BY DEF Differ, Argument
<1> HIDE DEF single, names, listed, many
<1>10. CASE single.refused
  <2>1. Carried.refused = TRUE
    BY <1>6, <1>7, <1>10
  <2>2. (\E ref \in All : ~Readable(ref)) \/ Differ(Named)
    BY <1>4, <1>5, <1>8, <1>10
  <2>3. QED  BY <1>1, <2>1, <2>2, NamesTwo DEF CallsReachTheProjectTheyName
<1>11. CASE ~single.refused /\ call.others = <<>>
  <2>1. Carried = single /\ listed = {}
    BY <1>6, <1>11 DEF listed
  <2>2. ~Differ(Named) /\ Argument(Carried.project) = Named
    BY <1>3, <1>5, <1>9, <1>11, <2>1
  <2>3. ~ \E ref \in All : ~Readable(ref)
    BY <1>4, <1>5, <1>11
  <2>4. QED  BY <1>1, <1>5, <1>11, <2>1, <2>2, <2>3, NamesTwo DEF CallsReachTheProjectTheyName, Argument
<1>12. CASE ~single.refused /\ call.others # <<>>
  <2>1. /\ many.refused \in BOOLEAN
        /\ many.refused => \/ \E i \in DOMAIN call.others : ~Readable(call.others[i])
                           \/ Differ(names \cup listed)
        /\ ~many.refused => /\ \A i \in DOMAIN call.others : Readable(call.others[i])
                            /\ Argument(many.project) = names \cup listed
    BY <1>2, <1>5, <1>12, BatchTells DEF many, listed
  <2>2. CASE many.refused
    <3>1. Carried.refused = TRUE
      BY <1>6, <1>7, <1>12, <2>2
    <3>2. (\E ref \in All : ~Readable(ref)) \/ Differ(Named)
      BY <1>3, <1>4, <2>1, <2>2
    <3>3. QED  BY <1>1, <3>1, <3>2, NamesTwo DEF CallsReachTheProjectTheyName
  <2>3. CASE ~many.refused
    <3>1. Carried = Meant(many.project, single.id)
      BY <1>6, <1>12, <2>3
    <3>2. Carried.refused = FALSE /\ Carried.project = many.project /\ Carried.id = single.id
      BY <3>1 DEF Meant
    <3>3. Argument(Carried.project) = Named /\ ~Differ(Named)
      BY <1>3, <2>1, <2>3, <3>2 DEF Differ, Argument
    <3>4. ~ \E ref \in All : ~Readable(ref)
      BY <1>4, <1>5, <1>12, <2>1, <2>3
    <3>5. QED  BY <1>1, <1>5, <1>12, <3>2, <3>3, <3>4, NamesTwo DEF CallsReachTheProjectTheyName, Argument
  <2>4. QED  BY <2>2, <2>3
<1>13. QED  BY <1>10, <1>11, <1>12

LEMMA LinksAreRead == CallTypes => LinkEndsShareAProject
<1>1. SUFFICES ASSUME CallTypes, Len(call.others) < 2, ~Link.refused
               PROVE  /\ Argument(Link.project) = Named
                      /\ Names(call.ref) # {} /\ call.project = NoProject =>
                           \A i \in DOMAIN call.others :
                             call.others[i] = Absent \/ Names(call.others[i]) # {}
  BY DEF LinkEndsShareAProject, Argument
<1> DEFINE target == IF call.others = <<>> THEN Absent ELSE call.others[1]
           from == Joined(call.project, Coerce(call.ref, call.project))
           to == Coerce(target, call.project)
<1>2. call.project \in Arguments /\ call.ref \in Refs /\ call.others \in Seq(Refs)
  BY <1>1 DEF CallTypes
<1>3. /\ call.others = <<>> => DOMAIN call.others = {}
      /\ call.others # <<>> => DOMAIN call.others = {1} /\ call.others[1] \in Refs
  BY <1>1, <1>2
<1>4. Names(Absent) = {}
  BY DEF Names, Absent
<1>5. Named = Argument(call.project) \cup Names(call.ref) \cup Names(target)
  BY <1>3, <1>4 DEF Named, All, Argument
<1>6. /\ Link = from /\ ~from.refused /\ ~to.refused
      /\ to.id = NoId \/ to.project = from.project
  BY <1>1 DEF Link, LinkCall, SameProject, Refused
<1>7. /\ from.project \in Arguments
      /\ Argument(from.project) = Argument(call.project) \cup Names(call.ref)
  BY <1>2, <1>6, JoinedTells
<1>8. CASE target = Absent
  BY <1>3, <1>4, <1>5, <1>6, <1>7, <1>8
<1>9. CASE target # Absent
  <2>1. target \in Refs /\ DOMAIN call.others = {1} /\ target = call.others[1]
    BY <1>3, <1>9
  <2>2. /\ \/ Names(target) = {} /\ to.project = call.project
           \/ Names(target) = {to.project} /\ to.project \in Projects
        /\ to.id # NoId
    BY <1>2, <1>6, <1>9, <2>1, CoerceTells
  <2>3. to.project = from.project
    BY <1>6, <2>2
  <2>4. Argument(Link.project) = Named
    BY <1>5, <1>6, <1>7, <2>2, <2>3, RefNoProjectAssumption DEF Argument
  <2>5. Names(call.ref) # {} /\ call.project = NoProject => Names(target) # {}
    <3>1. ASSUME Names(call.ref) # {}, call.project = NoProject, Names(target) = {} PROVE FALSE
      BY <1>7, <2>2, <2>3, <3>1 DEF Argument
    <3>2. QED  BY <3>1
  <2>6. QED  BY <2>1, <2>4, <2>5
<1>10. QED  BY <1>8, <1>9

LEMMA CallInvariant == CallSpec => []CallTypes
BY CallInitTypes, CallStepTypes, PTL DEF CallSpec

\* Whatever projects, prefixes and lists of references there are, a call of the
\* ticket tool is carried out in the one project that it names, and refused
\* exactly when it names two or cannot be read (coerce_ticket_ref, ticket).
THEOREM CallsAreCarriedOutWhereTheySay == CallSpec => []CallsReachTheProjectTheyName
BY CallInvariant, CallsAreRead, PTL

\* A link never joins tickets of two projects (ticket_link).
THEOREM LinksStayInAProject == CallSpec => []LinkEndsShareAProject
BY CallInvariant, LinksAreRead, PTL

----------------------------------------------------------------------------
(* The searches *)

QueryTypes == query \in Queries

LEMMA QueryInvariant == Spec => []QueryTypes
<1>1. Init => QueryTypes
  BY DEF Init, QueryTypes
<1>2. QueryTypes /\ [Ask]_query => QueryTypes'
  BY DEF Ask, QueryTypes
<1>3. QED  BY <1>1, <1>2, PTL DEF Spec

LEMMA HintsAreShort == QueryTypes => HintIsShortestWalk
<1>1. SUFFICES ASSUME QueryTypes, query.target # NoResolution, query.target # query.current
               PROVE  /\ Legal(query.type, query.current, HintPath)
                      /\ Len(HintPath) = Distance(query.type, query.current, {query.target})
                      /\ HintPath # NoPath => Last(HintPath) = query.target
  BY DEF HintIsShortestWalk
<1>2. query.type \in TypeNames /\ query.current \in StatusNames /\ query.target \in StatusNames
  BY <1>1 DEF QueryTypes, Queries
<1>3. QED  BY <1>1, <1>2, HintsAreShortestWalks DEF HintPath, Last

LEMMA ClosesReach == QueryTypes => CloseReachesItsResolution
<1> DEFINE wanted == IF Resolution = NoResolution THEN PositiveTerminal[query.type] ELSE Resolution
           passed == { ClosingPath[i] : i \in 1..Len(ClosingPath) - 1 }
<1>1. SUFFICES ASSUME QueryTypes, Closable
               PROVE  /\ query.current \in AllStatuses(query.type) =>
                           /\ ClosingPath # NoPath
                           /\ Legal(query.type, query.current, ClosingPath)
                           /\ Last(ClosingPath) = wanted
                           /\ Len(ClosingPath) = Distance(query.type, query.current, {wanted})
                      /\ passed \cap HiddenStatuses(query.type) = {}
  BY DEF CloseReachesItsResolution
<1>2. /\ query.type \in TypeNames
      /\ query.current \in StatusNames \ TerminalStatuses[query.type]
      /\ Resolution \in TerminalStatuses[query.type] \cup {NoResolution}
  BY <1>1 DEF QueryTypes, Queries, Closable
<1>3. IF query.current \in AllStatuses(query.type)
      THEN /\ Shortest(query.type, query.current, {wanted}, ClosingPath)
           /\ Len(ClosingPath) =< MaxPasses(query.type)
           /\ \A i \in 1..Len(ClosingPath) - 1 : ClosingPath[i] \notin HiddenStatuses(query.type)
      ELSE ClosingPath = NoPath
  BY <1>2, CloseWalk DEF ClosingPath
<1> HIDE DEF wanted
<1>4. CASE query.current \in AllStatuses(query.type)
  <2>1. Len(ClosingPath) = Distance(query.type, query.current, {wanted})
    BY <1>2, <1>3, <1>4, ShortestIsAtDistance
  <2>2. QED  BY <1>3, <1>4, <2>1 DEF Shortest, Last
<1>5. CASE query.current \notin AllStatuses(query.type)
  <2>1. ClosingPath = <<>>
    BY <1>3, <1>5 DEF NoPath
  <2>2. Len(ClosingPath) = 0
    BY <2>1
  <2>3. passed = {}
    BY <2>2
  <2>4. QED  BY <1>5, <2>3
<1>6. QED  BY <1>4, <1>5

\* A refused move quotes a way that can be walked, as short as any, and none
\* only when there is none (find_transition_path).
THEOREM HintsCanBeWalked == Spec => []HintIsShortestWalk
BY QueryInvariant, HintsAreShort, PTL

\* A close of any open ticket walks legally, without a detour, to the
\* resolution asked for and commits no parked or closed status on its way
\* (_find_close_path).
THEOREM ClosesReachTheirResolution == Spec => []CloseReachesItsResolution
BY QueryInvariant, ClosesReach, PTL

----------------------------------------------------------------------------
(* The specification that the run checks *)

LEMMA PartsOfTheRun == QuestionsSpec => Spec /\ CallSpec /\ FilingSpec
<1>1. QuestionsInit => Init /\ CallInit /\ FilingInit
  BY DEF QuestionsInit
<1>2. [AskPath \/ MakeCall \/ File]_<<query, call, filingVars>>
        => [Ask]_query /\ [AskCall]_call /\ [FilingNext]_filingVars
  BY DEF AskPath, MakeCall, File, NobodyFiles
<1>3. QED  BY <1>1, <1>2, PTL DEF QuestionsSpec, Spec, CallSpec, FilingSpec

\* All that is said of the answers holds of the three put together.
THEOREM AllQuestionsAreAnswered ==
  QuestionsSpec => [](/\ HintIsShortestWalk /\ CloseReachesItsResolution
                      /\ CallsReachTheProjectTheyName /\ LinkEndsShareAProject
                      /\ OnlyOneIsNotTold)
BY PartsOfTheRun, HintsCanBeWalked, ClosesReachTheirResolution, CallsAreCarriedOutWhereTheySay,
   LinksStayInAProject, OneIsNotToldAtMost, PTL

=============================================================================
