------------------------------ MODULE LinksMC ------------------------------
(* Instances of TicketLinks that TLC can exhaust. *)
EXTENDS TicketLinks, TLC

TicketSymmetry == Permutations(Tickets) \cup Permutations(Sessions)
=============================================================================
