------------------------------- MODULE TextMC -------------------------------
(* Instances of TicketText that TLC can exhaust. *)
EXTENDS TicketText

ValueSymmetry == Permutations(Notes) \cup Permutations(Titles)
=============================================================================
