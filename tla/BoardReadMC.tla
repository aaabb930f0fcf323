---------------------------- MODULE BoardReadMC ----------------------------
(* Instances of BoardRead that TLC can exhaust.  What changes in a column,  *)
(* in the catalogs and in the backlogs does not meet in one statement, so   *)
(* each is varied while the others rest.                                    *)
EXTENDS BoardRead

Resting == [readers |-> Readers, asked |-> {"board"}, views |-> {"kanban"},
            aging |-> FALSE, moving |-> FALSE, pending |-> {}, faulty |-> TRUE]

Maintenance == [Resting EXCEPT !.asked = {"search"}, !.aging = TRUE]
Columns     == [Resting EXCEPT !.readers = {CHOOSE r \in Readers : TRUE},
                                !.asked = {"board", "list"}, !.views = Views, !.moving = TRUE]
Migrations  == { [Resting EXCEPT !.pending = {rel}, !.faulty = FALSE] : rel \in Relations }

AllScenarios == {Maintenance, Columns} \cup Migrations
OneBoard     == {Resting}
=============================================================================
