---------------------------- MODULE LifecycleMC ----------------------------
(* Instances of TicketLifecycle that TLC can exhaust. *)
EXTENDS TicketLifecycle, TLC

SessionSymmetry == Permutations(Sessions)

\* Metadata with another key and a "parked" key, and metadata with none.  The
\* clock is at 1 when the first move reads: the key is that of a park, still
\* there or long over, or one that nobody has written.
SentInRaces == {[note |-> "n1", stamp |-> 1], NoMetadata}
=============================================================================
