----------------------------- MODULE TicketText -----------------------------
(***************************************************************************)
(* How several clients write the description and the other plain fields of *)
(* one ticket (stompy_ticketing/service.py: append_description and         *)
(* update_ticket, with the get_ticket that feeds them and the moves that   *)
(* touch the same updated_at).                                             *)
(*                                                                         *)
(* update_ticket reads the row, decides, and writes with a compare-and-    *)
(* swap: on updated_at when the caller passes one, on the description when *)
(* the description is written.  append_description reads nothing.  Every   *)
(* writer takes its time before its UPDATE, so updated_at can go back.     *)
(*                                                                         *)
(* "title" stands for every field that update_ticket writes without a      *)
(* guard of its own.  A description is a sequence of pieces, none of which *)
(* contains another; NULL and '' are both the empty sequence.              *)
(***************************************************************************)
EXTENDS AtomicText, Integers

CONSTANTS
  MaxText,  \* bound: pieces in a description
  MaxCalls  \* bound: calls started in one behaviour

ASSUME ClientsAssumption == Overwriters \subseteq Clients /\ Guarded \subseteq Clients
ASSUME TextBoundsAssumption == {MaxText, MaxCalls} \subseteq Nat

VARIABLES
  stamp,    \* updated_at
  history,  \* the ticket_history rows, in commit order
  basis,    \* the updated_at that came with each client's copy
  call,     \* what each client's call is doing
  answer,   \* what its last call answered
  clock,    \* time.time()
  calls     \* calls started so far

vars == <<text, title, copy, stamp, history, basis, call, answer, clock, calls>>

----------------------------------------------------------------------------
(* State *)

Texts == Seq(Notes)

Content == [text : Texts, title : Titles]

\* What a call holds: a row's content, or a piece of text and no title.
NoTitle == "none"
Draft == [text : Texts, title : Titles \cup {NoTitle}]
Blank == [text |-> <<>>, title |-> NoTitle]

HistoryRow == [field : {"title"}, old : Titles, new : Titles]
              \cup [field : {"description"}, old : Texts, new : Texts]
              \cup [field : {"description_appended"}, new : Notes]

\* write:  the call is about to send its UPDATE
\* missed: the UPDATE matched no row and the call is about to read updated_at
PCs == {"idle", "write", "missed"}

\* seen is the row update_ticket read, new the same row with the changes asked
\* for, changed the columns in which they differ.
Call == [pc : PCs, op : {"none", "append", "update", "move"}, changed : SUBSET {"text", "title"},
         seen : Draft, seenAt : Nat, new : Draft, now : Nat]

\* The answers of update_ticket that a property is about; "other" is none yet,
\* a refusal, an error, or the answer of another call.
Answers == {"other", "updated", "conflict"}

NoConflict == [kind |-> "other", expected |-> 0, current |-> 0]

TypeOK ==
  /\ text \in Texts
  /\ title \in Titles
  /\ copy \in [Clients -> Content]
  /\ stamp \in Nat
  /\ history \in Seq(HistoryRow)
  /\ basis \in [Clients -> Nat]
  /\ call \in [Clients -> Call]
  /\ answer \in [Clients -> [kind : Answers, expected : Nat, current : Nat]]
  /\ clock \in Nat
  /\ calls \in Nat

Idle == [pc |-> "idle", op |-> "none", changed |-> {}, seen |-> Blank, seenAt |-> 0,
         new |-> Blank, now |-> 0]

Init ==
  /\ AInit
  /\ stamp = 0
  /\ history = <<>>
  /\ basis = [c \in Clients |-> 0]
  /\ call = [c \in Clients |-> Idle]
  /\ answer = [c \in Clients |-> NoConflict]
  /\ clock = 0
  /\ calls = 0

----------------------------------------------------------------------------

Begin(c) ==
  /\ call[c].pc = "idle"
  /\ calls < MaxCalls
  /\ calls' = calls + 1

\* The response carries the whole row.
Receive(c) ==
  /\ copy' = [copy EXCEPT ![c] = Snapshot']
  /\ basis' = [basis EXCEPT ![c] = stamp']

Answer(c, kind) == answer' = [answer EXCEPT ![c] = [NoConflict EXCEPT !.kind = kind]]

Return(c) == call' = [call EXCEPT ![c] = Idle]

\* get_ticket.
Get(c) ==
  /\ Begin(c)
  /\ UNCHANGED <<text, title, stamp, history, call, clock>>
  /\ Receive(c)
  /\ Answer(c, "other")

\* The time a call takes on the way to its UPDATE.
TakeTime(c, request) ==
  /\ clock' = clock + 1
  /\ Answer(c, "other")
  /\ call' = [call EXCEPT ![c] = [request EXCEPT !.pc = "write", !.now = clock + 1]]

\* append_description takes its time, and may then wait for the row lock.
AppendStart(c, note) ==
  /\ Begin(c)
  /\ TakeTime(c, [Idle EXCEPT !.op = "append", !.new.text = <<note>>])
  /\ UNCHANGED <<text, title, copy, stamp, history, basis>>

\* Mutant of Restamp: the writer leaves updated_at alone.
RestampNever(now) == UNCHANGED stamp

\* SET updated_at = %s, in the same statement as the columns it dates.
Restamp(now) == stamp' = now

\* Mutant of Appended: the text was put together from the caller's copy.
AppendedToCopy(c) == copy[c].text \o call[c].new.text

\* Mutant of Appended: the text goes in as one piece inside another.
AppendedNested(c) == Append(text, call[c].new.text)

\* description || separator || text, evaluated under the row lock.
Appended(c) == text \o call[c].new.text

AppendWrite(c) ==
  /\ call[c].pc = "write"
  /\ call[c].op = "append"
  /\ text' = Appended(c)
  /\ UNCHANGED title
  /\ Restamp(call[c].now)
  /\ history' = Append(history, [field |-> "description_appended", new |-> Head(call[c].new.text)])
  /\ Receive(c)
  /\ Answer(c, "other")
  /\ Return(c)
  /\ UNCHANGED <<clock, calls>>

\* transition_ticket, as far as it touches this row (module TicketLifecycle has
\* the rest): the columns it does not name keep their values.
MoveStart(c) ==
  /\ Begin(c)
  /\ TakeTime(c, [Idle EXCEPT !.op = "move"])
  /\ UNCHANGED <<text, title, copy, stamp, history, basis>>

MoveWrite(c) ==
  /\ call[c].pc = "write"
  /\ call[c].op = "move"
  /\ Restamp(call[c].now)
  /\ UNCHANGED <<text, title>>
  /\ Receive(c)
  /\ Answer(c, "other")
  /\ Return(c)
  /\ UNCHANGED <<history, clock, calls>>

----------------------------------------------------------------------------
(* update_ticket *)

WouldReplace(old, new) == ~ Keeps(old, new)

\* The SELECT and what is decided from it: nothing to write, a replacement
\* nobody confirmed, or an UPDATE to send.
UpdateRead(c, new) ==
  LET changed == { column \in {"text", "title"} : new[column] # Snapshot[column] }
      refused == /\ "text" \in changed
                 /\ WouldReplace(text, new.text)
                 /\ c \notin Overwriters
  IN  /\ Begin(c)
      /\ UNCHANGED <<text, title, stamp, history>>
      /\ \/ /\ changed = {}
            /\ Receive(c)
            /\ Answer(c, "updated")
            /\ UNCHANGED <<call, clock>>
         \/ /\ refused
            /\ Answer(c, "other")
            /\ UNCHANGED <<copy, basis, call, clock>>
         \/ /\ changed # {}
            /\ ~ refused
            /\ TakeTime(c, [Idle EXCEPT !.op = "update", !.changed = changed,
                                        !.seen = Snapshot, !.seenAt = stamp, !.new = new])
            /\ UNCHANGED <<copy, basis>>

\* Mutant of Matches: only the caller's guard is in the WHERE clause.
MatchesStampOnly(c) == c \in Guarded => stamp = basis[c]

\* The WHERE clause.
Matches(c) ==
  /\ c \in Guarded => stamp = basis[c]
  /\ "text" \in call[c].changed => text = call[c].seen.text

UpdateEntries(k) ==
  (IF "title" \in k.changed
   THEN <<[field |-> "title", old |-> k.seen.title, new |-> k.new.title]>> ELSE <<>>) \o
  (IF "text" \in k.changed
   THEN <<[field |-> "description", old |-> k.seen.text, new |-> k.new.text]>> ELSE <<>>)

UpdateWrite(c) ==
  LET k == call[c]
  IN  /\ k.pc = "write"
      /\ k.op = "update"
      /\ Matches(c)
      /\ text' = IF "text" \in k.changed THEN k.new.text ELSE text
      /\ title' = IF "title" \in k.changed THEN k.new.title ELSE title
      /\ Restamp(k.now)
      /\ history' = history \o UpdateEntries(k)
      /\ Receive(c)
      /\ Answer(c, "updated")
      /\ Return(c)
      /\ UNCHANGED <<clock, calls>>

\* Zero rows: another client wrote first.
UpdateMissed(c) ==
  /\ call[c].pc = "write"
  /\ call[c].op = "update"
  /\ ~ Matches(c)
  /\ call' = [call EXCEPT ![c].pc = "missed"]
  /\ UNCHANGED <<text, title, copy, stamp, history, basis, answer, clock, calls>>

\* The updated_at the conflict blames: the caller's, or the row's when the
\* caller passed none.
Expected(c) == IF c \in Guarded THEN basis[c] ELSE call[c].seenAt

UpdateConflict(c) ==
  /\ call[c].pc = "missed"
  /\ answer' = [answer EXCEPT ![c] =
       [kind |-> "conflict", expected |-> Expected(c), current |-> stamp]]
  /\ Return(c)
  /\ UNCHANGED <<text, title, copy, stamp, history, basis, clock, calls>>

\* A statement fails or the process dies: the transaction is rolled back.
Abort(c) ==
  /\ call[c].pc # "idle"
  /\ Answer(c, "other")
  /\ Return(c)
  /\ UNCHANGED <<text, title, copy, stamp, history, basis, clock, calls>>

\* What a client asks for: its own copy extended, a text put together from
\* nothing, or an unchanged description, with any title.
NewTexts(c) ==
  {copy[c].text, <<>>} \cup
  UNION { {<<note>>, Append(copy[c].text, note)} : note \in Notes }

Fits(new) == Len(new) =< MaxText

Next == \E c \in Clients :
  \/ Get(c)
  \/ \E note \in Notes : AppendStart(c, note)
  \/ Fits(text \o call[c].new.text) /\ AppendWrite(c)
  \/ MoveStart(c)
  \/ MoveWrite(c)
  \/ \E new \in [text : NewTexts(c), title : Titles] : Fits(new.text) /\ UpdateRead(c, new)
  \/ UpdateWrite(c)
  \/ UpdateMissed(c)
  \/ UpdateConflict(c)
  \/ Abort(c)

Spec == Init /\ [][Next]_vars

----------------------------------------------------------------------------
(* Properties *)

\* Appends and edits are atomic, an edit that nobody confirmed keeps the text
\* it finds, appended notes included, and a guarded edit lands only on what
\* its caller has read: the promises of module AtomicText.
WritesAreAtomic == ASpec

\* updated_at identifies what the row holds: a client whose copy has the row's
\* updated_at has the row's content, though updated_at may have gone back.
StampNamesTheContent ==
  \A c \in Clients : basis[c] = stamp => copy[c] = Snapshot

Replay(was, entry) ==
  CASE entry.field = "description"          -> entry.new
    [] entry.field = "description_appended" -> Append(was, entry.new)
    [] OTHER                                -> was

\* The description as the first n history rows tell it.
Rebuilt[n \in 0..Len(history)] ==
  IF n = 0 THEN <<>> ELSE Replay(Rebuilt[n - 1], history[n])

\* The description can be rebuilt from the history rows in commit order, and
\* the old value of every description row is what had been built before it.
HistoryRebuildsTheText ==
  /\ Rebuilt[Len(history)] = text
  /\ \A i \in DOMAIN history :
       history[i].field = "description" => history[i].old = Rebuilt[i - 1]

\* A conflict tells its caller of a change: the two updated_at it carries
\* differ.
ConflictShowsTheChange ==
  \A c \in Clients : answer[c].kind = "conflict" => answer[c].expected # answer[c].current

=============================================================================
