----------------------------- MODULE ArchiveMC -----------------------------
(* Instances of TicketArchive that TLC can exhaust. *)
EXTENDS TicketArchive

SessionSymmetry == Permutations(Sessions)
=============================================================================
