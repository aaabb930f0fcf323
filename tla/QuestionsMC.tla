---------------------------- MODULE QuestionsMC ----------------------------
(***************************************************************************)
(* What callers are told, and what is made of what they say: the questions *)
(* of ClosePathMC, every question that can be put to TicketRefs (a project *)
(* argument, a reference, and a list of references or the target of a      *)
(* link), and the hints of DuplicateHints.  The three share no state, so   *)
(* each is explored while the others rest.                                 *)
(***************************************************************************)
EXTENDS ClosePathMC, TicketRefs, DuplicateHints

BothOwners == [STOMPY |-> CHOOSE project \in Projects : TRUE,
               BUG |-> CHOOSE project \in Projects : project # CHOOSE one \in Projects : TRUE]

\* What differs between references of one list: the project they name.
Telling == { ref \in Refs : /\ IsText(ref)
                            /\ ref.seq =< 1
                            /\ ref.wrapping \in {"plain", "ours"} }

Others == { <<>> } \cup { <<ref>> : ref \in Refs } \cup { <<a, b>> : a, b \in Telling }

\* Texts that say the same in other words are alike to the stemmer, and a text
\* of stop words has nothing to compare.
Scores == [pair \in Texts \X Texts |-> IF "stopwords" \in {pair[1], pair[2]} THEN 0 ELSE 100]
FilerSymmetry == Permutations(Filers)

AtRest == Init /\ query.target = NoResolution
NobodyFiles == filed = <<>> /\ UNCHANGED filingVars

QuestionsInit == Init /\ CallInit /\ FilingInit
AskPath == NobodyFiles /\ call = NoCall /\ Ask /\ UNCHANGED call
MakeCall == NobodyFiles /\ call = NoCall /\ AtRest /\ AskCall /\ UNCHANGED query
File == AtRest /\ call = NoCall /\ FilingNext /\ UNCHANGED <<query, call>>
QuestionsSpec == QuestionsInit /\ [][AskPath \/ MakeCall \/ File]_<<query, call, filingVars>>

=============================================================================
