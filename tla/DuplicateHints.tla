--------------------------- MODULE DuplicateHints ---------------------------
(***************************************************************************)
(* The open tickets that a create is told it may repeat                    *)
(* (stompy_ticketing/duplicates.py, find_possible_duplicates, called by    *)
(* the ticket tool after create_ticket).                                   *)
(*                                                                         *)
(* Agents file at the same time, and tickets are edited, closed and        *)
(* reopened between one filing and the next.  The hash of a ticket is of   *)
(* the text it was filed with, its search vector of the text it has.       *)
(***************************************************************************)
EXTENDS Naturals, Sequences, FiniteSets, FiniteSetsExt

CONSTANTS
  Filers,         \* calls that can run at the same time
  Texts,          \* titles with their descriptions
  BodyScore,      \* of any two texts, in hundredths
  TitleScore,
  Threshold,      \* SIMILARITY_THRESHOLD, in hundredths
  MaxHints,
  MaxCandidates,
  Pool,           \* TITLE_RERANK_POOL
  MaxFiled,       \* bound: tickets
  MaxChanges      \* bound: edits, closes and reopenings

ASSUME HintScoresAssumption == {BodyScore, TitleScore} \subseteq [Texts \X Texts -> 0..100]
ASSUME HintThresholdAssumption == Threshold \in 0..100
ASSUME HintCapsAssumption ==
  {MaxHints, MaxCandidates, Pool, MaxFiled, MaxChanges} \subseteq Nat

VARIABLES
  filed,     \* the rows by id, the ones not committed included
  filer,     \* the call of each filer
  told,      \* what the filer of each ticket was told of others
  changes    \* made so far

filingVars == <<filed, filer, told, changes>>

----------------------------------------------------------------------------

Ids == 1..MaxFiled

\* hash: the text of the INSERT; away: history, it was closed or archived once.
FiledRow == [text : Texts, hash : Texts, shown : BOOLEAN, open : BOOLEAN, away : BOOLEAN]

Filing == [pc : {"idle", "inserted", "committed"}, id : 0..MaxFiled]
NotFiling == [pc |-> "idle", id |-> 0]

\* crowded: history, a cap has cut off what could have been named.
Answer == [state : {"none", "unavailable", "checked"}, hints : SUBSET Ids, crowded : BOOLEAN]
NoAnswer == [state |-> "none", hints |-> {}, crowded |-> FALSE]

FilingTypeOK ==
  /\ filed \in Seq(FiledRow) /\ Len(filed) =< MaxFiled
  /\ filer \in [Filers -> Filing]
  /\ told \in [Ids -> Answer]
  /\ changes \in 0..MaxChanges

----------------------------------------------------------------------------
(* The query *)

\* Mutant of OpenOthers: a ticket can only repeat an older one.
OpenOthersOlder(id) == { other \in 1..id - 1 : filed[other].shown /\ filed[other].open }

\* The open tickets but the one just filed.
OpenOthers(id) == { other \in DOMAIN filed \ {id} : filed[other].shown /\ filed[other].open }

\* Mutant of Exact: the hash follows the edits.
ExactNow(other, text) == filed[other].text = text

Exact(other, text) == filed[other].hash = text

Similarity(other, text) ==
  IF Exact(other, text) THEN 100
  ELSE (BodyScore[<<filed[other].text, text>>] + TitleScore[<<filed[other].text, text>>]) \div 2

\* ORDER BY rank DESC LIMIT n: the sets of rows that this can bring.
Top(rows, n, rank) ==
  { top \in kSubset(IF n < Cardinality(rows) THEN n ELSE Cardinality(rows), rows) :
      \A row \in top, left \in rows \ top : rank[left] =< rank[row] }

\* The most recently updated of the others; which they are is left open.
Candidates(id) == Top(OpenOthers(id), MaxCandidates, [other \in OpenOthers(id) |-> 0])

Pooled(candidates, text) ==
  Top(candidates, Pool, [other \in candidates |->
        IF Exact(other, text) THEN 101 ELSE BodyScore[<<filed[other].text, text>>]])

\* At or above the threshold, the most similar first, then the newer id.
Best(pool, text) ==
  LET similar == { other \in pool : Similarity(other, text) >= Threshold }
  IN  Top(similar, MaxHints, [other \in similar |->
            Similarity(other, text) * (MaxFiled + 1) + other])

\* A cap cuts off others, or some that are as similar as can be.
Crowded(id, text) ==
  \/ Cardinality(OpenOthers(id)) > MaxCandidates
  \/ Cardinality({ other \in OpenOthers(id) : Similarity(other, text) = 100 }) > Min({MaxHints, Pool})

----------------------------------------------------------------------------
(* A create *)

\* The INSERT takes the next id, which nobody else will get.
InsertTicket(f, text) ==
  /\ filer[f].pc = "idle"
  /\ Len(filed) < MaxFiled
  /\ filed' = Append(filed, [text |-> text, hash |-> text,
                             shown |-> FALSE, open |-> TRUE, away |-> FALSE])
  /\ filer' = [filer EXCEPT ![f] = [pc |-> "inserted", id |-> Len(filed) + 1]]
  /\ UNCHANGED <<told, changes>>

CommitTicket(f) ==
  /\ filer[f].pc = "inserted"
  /\ filed' = [filed EXCEPT ![filer[f].id].shown = TRUE]
  /\ filer' = [filer EXCEPT ![f].pc = "committed"]
  /\ UNCHANGED <<told, changes>>

\* find_possible_duplicates, with the text of the call, then the answer.
CheckDuplicates(f) ==
  /\ filer[f].pc = "committed"
  /\ LET id == filer[f].id
         text == filed[id].hash
     IN  \E candidates \in Candidates(id) : \E pool \in Pooled(candidates, text) :
           \E hints \in Best(pool, text) :
             told' = [told EXCEPT ![id] = [state |-> "checked", hints |-> hints,
                                           crowded |-> Crowded(id, text)]]
  /\ filer' = [filer EXCEPT ![f] = NotFiling]
  /\ UNCHANGED <<filed, changes>>

\* The query fails: the rollback after it finds nothing to undo.
CheckFails(f) ==
  /\ filer[f].pc = "committed"
  /\ told' = [told EXCEPT ![filer[f].id].state = "unavailable"]
  /\ filer' = [filer EXCEPT ![f] = NotFiling]
  /\ UNCHANGED <<filed, changes>>

\* The call dies, or is one of the REST route, which does not ask for hints.  A
\* row that is not committed stays unseen, and its id unused.
LeaveFiling(f) ==
  /\ filer[f].pc # "idle"
  /\ filer' = [filer EXCEPT ![f] = NotFiling]
  /\ UNCHANGED <<filed, told, changes>>

----------------------------------------------------------------------------
(* What happens to tickets meanwhile *)

\* An edit of the text leaves the hash.
Change(id, row) ==
  /\ filed[id].shown
  /\ changes < MaxChanges
  /\ changes' = changes + 1
  /\ filed' = [filed EXCEPT ![id] = row]
  /\ UNCHANGED <<filer, told>>

EditText(id, text) == Change(id, [filed[id] EXCEPT !.text = text])
PutAway(id) == filed[id].open /\ Change(id, [filed[id] EXCEPT !.open = FALSE, !.away = TRUE])
BringBack(id) == ~filed[id].open /\ Change(id, [filed[id] EXCEPT !.open = TRUE])

FilingInit ==
  /\ filed = <<>>
  /\ filer = [f \in Filers |-> NotFiling]
  /\ told = [id \in Ids |-> NoAnswer]
  /\ changes = 0

FilingNext ==
  \/ \E f \in Filers : \/ CommitTicket(f) \/ CheckDuplicates(f) \/ CheckFails(f) \/ LeaveFiling(f)
  \/ \E f \in Filers, text \in Texts : InsertTicket(f, text)
  \/ \E id \in DOMAIN filed : PutAway(id) \/ BringBack(id)
  \/ \E id \in DOMAIN filed, text \in Texts : EditText(id, text)

FilingSpec == FilingInit /\ [][FilingNext]_filingVars

----------------------------------------------------------------------------
(* Properties *)

\* Of the agents that file the same text at the same time, at most one is not
\* told of another's ticket, whatever has become of the tickets' texts since,
\* unless a ticket was closed or a cap was reached (duplicates.py, "Run it
\* after the create commits"; "A byte-identical re-file scores 1.0").
OnlyOneIsNotTold ==
  \A text \in Texts :
    LET twins == { id \in DOMAIN filed : filed[id].hash = text }
        answered == { id \in twins : told[id].state = "checked" /\ ~filed[id].away }
    IN  Cardinality({ id \in answered : ~told[id].crowded
                                     /\ told[id].hints \cap (twins \ {id}) = {} }) =< 1

=============================================================================
