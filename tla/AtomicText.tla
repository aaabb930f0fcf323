----------------------------- MODULE AtomicText -----------------------------
(***************************************************************************)
(* What the writers of a ticket's description are promised: each append,   *)
(* edit and read takes effect at one instant, whatever the calls behind    *)
(* them are doing in between.                                              *)
(***************************************************************************)
EXTENDS Sequences, SequencesExt

CONSTANTS
  Clients,      \* agents and people working on the ticket
  Notes,        \* pieces of text
  Titles,       \* values of the other fields an update may set
  Overwriters,  \* clients that pass confirm: they may replace a description
  Guarded       \* clients that pass the updated_at they last read

VARIABLES
  text,     \* the description
  title,    \* the other fields
  copy      \* what each client last read or was answered

avars == <<text, title, copy>>

Snapshot == [text |-> text, title |-> title]

\* The substring test of the replace guard, on whole pieces of text.
Within(old, new) == old \in SubSeqs(new)

Keeps(old, new) == old = <<>> \/ Within(old, new)

AInit ==
  /\ text = <<>>
  /\ title \in Titles
  /\ copy = [c \in Clients |-> Snapshot]

Look(c) ==
  /\ copy' = [copy EXCEPT ![c] = Snapshot]
  /\ UNCHANGED <<text, title>>

\* An append lands at the end of the description as it is at that instant.
Add(c) ==
  /\ \E note \in Notes : text' = Append(text, note)
  /\ copy' = [copy EXCEPT ![c] = Snapshot']
  /\ UNCHANGED title

\* An edit keeps the description it finds unless its caller confirmed, and a
\* guarded caller edits only what it has read.
Edit(c) ==
  /\ c \in Guarded => copy[c] = Snapshot
  /\ text' # text => c \in Overwriters \/ Keeps(text, text')
  /\ title' \in Titles
  /\ copy' = [copy EXCEPT ![c] = Snapshot']

ANext == \E c \in Clients : Look(c) \/ Add(c) \/ Edit(c)

ASpec == AInit /\ [][ANext]_avars

=============================================================================
