------------------------------ MODULE LeaseMC ------------------------------
(* Instances of TicketLease that TLC can exhaust. *)
EXTENDS TicketLease, TLC

SessionSymmetry == Permutations(Sessions) \cup Permutations(Holders)
=============================================================================
