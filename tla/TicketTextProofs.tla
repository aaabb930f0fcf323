-------------------------- MODULE TicketTextProofs --------------------------
(***************************************************************************)
(* Proofs about TicketText: whatever the number of clients and calls, the  *)
(* handlers implement AtomicText, and updated_at can be trusted.           *)
(***************************************************************************)
EXTENDS TicketText, SequenceTheorems, TLAPS

(* The invariant *)

\* The types a step relies on: TypeOK without the history.
Types ==
  /\ text \in Texts
  /\ title \in Titles
  /\ copy \in [Clients -> Content]
  /\ stamp \in Nat
  /\ basis \in [Clients -> Nat]
  /\ call \in [Clients -> Call]
  /\ answer \in [Clients -> [kind : Answers, expected : Nat, current : Nat]]
  /\ clock \in Nat

\* Every time in use has been on the clock.
TimesHavePassed ==
  /\ stamp =< clock
  /\ \A c \in Clients : basis[c] =< clock /\ call[c].seenAt =< clock /\ call[c].now =< clock

\* The time a call is about to write is in no other place.
FreshTime(c) ==
  call[c].pc = "write" =>
    /\ call[c].now # 0
    /\ call[c].now # stamp
    /\ \A d \in Clients : /\ call[c].now # basis[d]
                          /\ call[c].now # call[d].seenAt
                          /\ d # c => call[c].now # call[d].now

TimesAreFresh == \A c \in Clients : FreshTime(c)

\* What a call is about to write, and what an update knows of the row.
Prepared(c) ==
  /\ call[c].pc = "idle" => call[c].op = "none"
  /\ call[c].pc = "write" /\ call[c].op = "append" =>
       \E note \in Notes : call[c].new.text = <<note>>
  /\ call[c].op = "update" =>
       /\ call[c].new.title \in Titles /\ call[c].seen.title \in Titles
       /\ "text" \in call[c].changed =>
            c \in Overwriters \/ Keeps(call[c].seen.text, call[c].new.text)
       /\ call[c].seenAt = stamp => call[c].seen = Snapshot
       /\ basis[c] = stamp => call[c].seenAt = stamp
  /\ call[c].pc = "missed" => call[c].op = "update" /\ Expected(c) # stamp

CallsArePrepared == \A c \in Clients : Prepared(c)

TextInv == /\ Types /\ TimesHavePassed /\ TimesAreFresh /\ CallsArePrepared
           /\ StampNamesTheContent /\ ConflictShowsTheChange

----------------------------------------------------------------------------

LEMMA IdleType == Idle \in Call
BY DEF Idle, Call, PCs, Draft, Blank, Texts, NoTitle

LEMMA InitHolds == ASSUME Init PROVE TextInv
<1>1. Snapshot \in Content
  BY DEF Init, AInit, Snapshot, Content, Texts
<1>2. Types
  BY <1>1, IdleType DEF Init, AInit, Types, Texts, Snapshot, NoConflict, Answers
<1>3. TimesHavePassed /\ TimesAreFresh /\ CallsArePrepared
  BY DEF Init, Idle, TimesHavePassed, TimesAreFresh, FreshTime, CallsArePrepared, Prepared
<1>4. StampNamesTheContent /\ ConflictShowsTheChange
  BY DEF Init, AInit, StampNamesTheContent, ConflictShowsTheChange, NoConflict
<1> QED BY <1>2, <1>3, <1>4 DEF TextInv

\* A step of one client.
ClientNext(c) ==
  \/ Get(c)
  \/ \E note \in Notes : AppendStart(c, note)
  \/ AppendWrite(c)
  \/ MoveStart(c)
  \/ MoveWrite(c)
  \/ \E new \in [text : NewTexts(c), title : Titles] : UpdateRead(c, new)
  \/ UpdateWrite(c)
  \/ UpdateMissed(c)
  \/ UpdateConflict(c)
  \/ Abort(c)

LEMMA NextIsAClients == ASSUME Next PROVE \E c \in Clients : ClientNext(c)
BY DEF Next, ClientNext

LEMMA NewTextType ==
  ASSUME Types, NEW c \in Clients, NEW new \in [text : NewTexts(c), title : Titles]
  PROVE  new \in Content
<1>1. copy[c].text \in Texts
  BY DEF Types, Content
<1>2. \A note \in Notes : <<note>> \in Texts /\ Append(copy[c].text, note) \in Texts
  BY <1>1 DEF Texts
<1>3. <<>> \in Texts
  BY DEF Texts
<1>4. NewTexts(c) \subseteq Texts
  BY ZenonT(60), <1>1, <1>2, <1>3 DEF NewTexts
<1> QED BY <1>4 DEF Content

LEMMA TakeTimeTypes ==
  ASSUME Types, NEW c \in Clients, NEW request \in Call, TakeTime(c, request)
  PROVE  /\ call' \in [Clients -> Call]
         /\ clock' \in Nat
         /\ answer' \in [Clients -> [kind : Answers, expected : Nat, current : Nat]]
<1> DEFINE moment == clock + 1
<1>0. moment \in Nat
  BY DEF Types
<1> HIDE DEF moment
<1>1. [request EXCEPT !.pc = "write", !.now = moment] \in Call
  BY <1>0 DEF Call, PCs
<1> USE DEF moment
<1> QED BY <1>0, <1>1 DEF TakeTime, Answer, Types, NoConflict, Answers

LEMMA ReceiveTypes ==
  ASSUME Types, NEW c \in Clients, Receive(c),
         text' \in Texts, title' \in Titles, stamp' \in Nat
  PROVE  copy' \in [Clients -> Content] /\ basis' \in [Clients -> Nat]
<1>1. Snapshot' \in Content
  BY DEF Snapshot, Content
<1> QED BY <1>1 DEF Receive, Types

LEMMA AnswerTypes ==
  ASSUME Types, NEW c \in Clients, NEW kind \in Answers, Answer(c, kind)
  PROVE  answer' \in [Clients -> [kind : Answers, expected : Nat, current : Nat]]
BY DEF Types, Answer, NoConflict

LEMMA ReturnTypes ==
  ASSUME Types, NEW c \in Clients, Return(c)
  PROVE  call' \in [Clients -> Call]
BY IdleType DEF Types, Return

LEMMA AppendRequest ==
  ASSUME NEW note \in Notes
  PROVE  [Idle EXCEPT !.op = "append", !.new.text = <<note>>] \in Call
<1> DEFINE piece == <<note>>
<1>1. piece \in Texts
  BY DEF Texts
<1> HIDE DEF piece
<1>2. [Blank EXCEPT !.text = piece] \in Draft
  BY <1>1 DEF Blank, Draft, NoTitle
<1>3. [Idle EXCEPT !.op = "append", !.new.text = piece] \in Call
  BY <1>2, IdleType DEF Idle, Call, PCs
<1> QED BY <1>3 DEF piece

LEMMA UpdateRequest ==
  ASSUME Types, NEW c \in Clients, NEW new \in [text : NewTexts(c), title : Titles],
         NEW changed \in SUBSET {"text", "title"}
  PROVE  [Idle EXCEPT !.op = "update", !.changed = changed,
                      !.seen = Snapshot, !.seenAt = stamp, !.new = new] \in Call
<1>1. new \in Draft /\ Snapshot \in Draft
  BY NewTextType DEF Content, Draft, Snapshot, Types
<1> QED BY <1>1, IdleType DEF Call, Types

\* What an append is about to write makes one more piece.
LEMMA AppendedText ==
  ASSUME Types, CallsArePrepared, NEW c \in Clients, AppendWrite(c)
  PROVE  text' \in Texts /\ \E note \in Notes : text' = Append(text, note)
<1>1. PICK note \in Notes : call[c].new.text = <<note>>
  BY DEF CallsArePrepared, Prepared, AppendWrite
<1>2. text' = text \o <<note>>
  BY <1>1 DEF AppendWrite, Appended
<1>3. text \in Seq(Notes)
  BY DEF Types, Texts
<1>4. text \o <<note>> = Append(text, note)
  BY <1>3, AppendIsConcat
<1> QED BY <1>2, <1>3, <1>4 DEF Texts

LEMMA TypesStep == ASSUME TextInv, NEW c \in Clients, ClientNext(c) PROVE Types'
<1> USE DEF TextInv
<1> "other" \in Answers /\ "updated" \in Answers /\ "conflict" \in Answers
  BY DEF Answers
<1>1. CASE Get(c)
  BY <1>1, ReceiveTypes, AnswerTypes DEF Get, Types
<1>2. ASSUME NEW note \in Notes, AppendStart(c, note) PROVE Types'
  <2>1. [Idle EXCEPT !.op = "append", !.new.text = <<note>>] \in Call
    BY AppendRequest
  <2> QED BY <1>2, <2>1, TakeTimeTypes DEF AppendStart, Types
<1>3. CASE AppendWrite(c)
  <2>1. stamp' \in Nat
    BY <1>3 DEF AppendWrite, Restamp, Types, Call
  <2> QED BY <1>3, <2>1, AppendedText, ReceiveTypes, AnswerTypes, ReturnTypes DEF AppendWrite, Types
<1>4. CASE MoveStart(c)
  <2>1. [Idle EXCEPT !.op = "move"] \in Call
    BY IdleType DEF Call
  <2> QED BY <1>4, <2>1, TakeTimeTypes DEF MoveStart, Types
<1>5. CASE MoveWrite(c)
  <2>1. stamp' \in Nat
    BY <1>5 DEF MoveWrite, Restamp, Types, Call
  <2> QED BY <1>5, <2>1, ReceiveTypes, AnswerTypes, ReturnTypes DEF MoveWrite, Types
<1>6. ASSUME NEW new \in [text : NewTexts(c), title : Titles], UpdateRead(c, new) PROVE Types'
  <2> DEFINE changed == { column \in {"text", "title"} : new[column] # Snapshot[column] }
             request == [Idle EXCEPT !.op = "update", !.changed = changed,
                                     !.seen = Snapshot, !.seenAt = stamp, !.new = new]
  <2>2. request \in Call
    BY UpdateRequest
  <2>3. UNCHANGED <<text, title, stamp>>
    BY <1>6 DEF UpdateRead
  <2>4. CASE Receive(c) /\ Answer(c, "updated") /\ UNCHANGED <<call, clock>>
    BY <2>3, <2>4, ReceiveTypes, AnswerTypes DEF Types
  <2>5. CASE Answer(c, "other") /\ UNCHANGED <<copy, basis, call, clock>>
    BY <2>3, <2>5, AnswerTypes DEF Types
  <2>6. CASE TakeTime(c, request) /\ UNCHANGED <<copy, basis>>
    <3> HIDE DEF request
    <3> QED BY <2>2, <2>3, <2>6, TakeTimeTypes DEF Types
  <2> QED BY <1>6, <2>4, <2>5, <2>6 DEF UpdateRead
<1>7. CASE UpdateWrite(c)
  <2>1. stamp' \in Nat /\ text' \in Texts
    BY <1>7 DEF UpdateWrite, Restamp, Types, Call, Draft
  <2>2. title' \in Titles
    BY <1>7 DEF UpdateWrite, Types, CallsArePrepared, Prepared
  <2> QED BY <1>7, <2>1, <2>2, ReceiveTypes, AnswerTypes, ReturnTypes DEF UpdateWrite, Types
<1>8. CASE UpdateMissed(c)
  <2>1. [call[c] EXCEPT !.pc = "missed"] \in Call
    BY ZenonT(60) DEF Types, Call, PCs
  <2> QED BY <1>8, <2>1 DEF UpdateMissed, Types
<1>9. CASE UpdateConflict(c)
  <2>1. Expected(c) \in Nat
    BY DEF Expected, Types, Call
  <2> QED BY <1>9, <2>1, ReturnTypes DEF UpdateConflict, Types
<1>10. CASE Abort(c)
  BY <1>10, AnswerTypes, ReturnTypes DEF Abort, Types
<1> QED BY <1>1, <1>2, <1>3, <1>4, <1>5, <1>6, <1>7, <1>8, <1>9, <1>10 DEF ClientNext

----------------------------------------------------------------------------
(* What a step does, as far as times and copies go: it takes a time, it    *)
(* writes with the time it took, or it does neither.                       *)

\* c takes a time for the request that it will write.
Starts(c) ==
  /\ clock' = clock + 1
  /\ call[c].pc = "idle"
  /\ call'[c].pc = "write" /\ call'[c].now = clock + 1 /\ call'[c].seenAt \in {0, stamp}
  /\ \A d \in Clients \ {c} : call'[d] = call[d]
  /\ answer'[c].kind = "other"
  /\ \A d \in Clients \ {c} : answer'[d] = answer[d]
  /\ UNCHANGED <<text, title, copy, stamp, basis>>

\* c writes, and has the row it wrote.
Writes(c) ==
  /\ call[c].pc = "write"
  /\ stamp' = call[c].now
  /\ basis'[c] = stamp' /\ copy'[c] = Snapshot'
  /\ \A d \in Clients \ {c} : basis'[d] = basis[d] /\ copy'[d] = copy[d]
  /\ call'[c] = Idle
  /\ \A d \in Clients \ {c} : call'[d] = call[d]
  /\ answer'[c].kind \in {"other", "updated"}
  /\ \A d \in Clients \ {c} : answer'[d] = answer[d]
  /\ UNCHANGED clock

\* c reads, fails, is refused or told of a conflict: the row stays as it is.
Reads(c) ==
  /\ UNCHANGED <<text, title, stamp, clock>>
  /\ \/ UNCHANGED <<basis, copy>>
     \/ /\ basis'[c] = stamp /\ copy'[c] = Snapshot
        /\ \A d \in Clients \ {c} : basis'[d] = basis[d] /\ copy'[d] = copy[d]
        /\ call[c].pc = "idle"
  /\ call'[c] \in {call[c], Idle, [call[c] EXCEPT !.pc = "missed"]}
  /\ call'[c] # call[c] /\ call'[c] # Idle =>
       call[c].pc = "write" /\ call[c].op = "update" /\ ~ Matches(c)
  /\ \A d \in Clients \ {c} : call'[d] = call[d]
  /\ \/ answer'[c] = answer[c]
     \/ answer'[c].kind \in {"other", "updated"}
     \/ /\ answer'[c] = [kind |-> "conflict", expected |-> Expected(c), current |-> stamp]
        /\ call[c].pc = "missed"
  /\ \A d \in Clients \ {c} : answer'[d] = answer[d]

LEMMA TakingTimeStarts ==
  ASSUME Types, NEW c \in Clients, NEW request \in Call, TakeTime(c, request),
         call[c].pc = "idle", request.seenAt \in {0, stamp},
         UNCHANGED <<text, title, copy, stamp, basis>>
  PROVE  Starts(c)
<1> DEFINE moment == clock + 1
<1> HIDE DEF moment
<1>1. [request EXCEPT !.pc = "write", !.now = moment].pc = "write"
      /\ [request EXCEPT !.pc = "write", !.now = moment].now = moment
      /\ [request EXCEPT !.pc = "write", !.now = moment].seenAt = request.seenAt
  BY DEF Call
<1>2. call' = [call EXCEPT ![c] = [request EXCEPT !.pc = "write", !.now = moment]]
  BY DEF TakeTime, moment
<1>3. call'[c] = [request EXCEPT !.pc = "write", !.now = moment]
      /\ \A d \in Clients \ {c} : call'[d] = call[d]
  BY <1>2 DEF Types
<1>4. answer'[c].kind = "other" /\ \A d \in Clients \ {c} : answer'[d] = answer[d]
  BY DEF TakeTime, Answer, Types, NoConflict
<1>5. clock' = moment
  BY DEF TakeTime, moment
<1>6. call'[c].pc = "write" /\ call'[c].now = moment /\ call'[c].seenAt \in {0, stamp}
  BY <1>1, <1>3
<1> QED BY <1>3, <1>4, <1>5, <1>6 DEF Starts, moment

LEMMA WritingWrites ==
  ASSUME Types, NEW c \in Clients, NEW kind \in {"other", "updated"}, call[c].pc = "write",
         Restamp(call[c].now), Receive(c), Answer(c, kind), Return(c), UNCHANGED clock
  PROVE  Writes(c)
BY DEF Types, Restamp, Receive, Answer, Return, Writes, NoConflict

LEMMA StepHasOneEffect ==
  ASSUME Types, NEW c \in Clients, ClientNext(c)
  PROVE  Starts(c) \/ Writes(c) \/ Reads(c)
<1>1. CASE Get(c)
  BY <1>1 DEF Get, Begin, Receive, Answer, Snapshot, Reads, Types, NoConflict
<1>2. ASSUME NEW note \in Notes, AppendStart(c, note) PROVE Starts(c)
  <2> DEFINE request == [Idle EXCEPT !.op = "append", !.new.text = <<note>>]
  <2>1. request \in Call /\ request.seenAt = 0
    BY AppendRequest DEF Idle
  <2> HIDE DEF request
  <2>2. TakeTime(c, request) /\ call[c].pc = "idle" /\ UNCHANGED <<text, title, copy, stamp, basis>>
    BY <1>2 DEF AppendStart, Begin, request
  <2> QED BY <2>1, <2>2, TakingTimeStarts
<1>3. CASE AppendWrite(c)
  BY <1>3, WritingWrites DEF AppendWrite
<1>4. CASE MoveStart(c)
  <2> DEFINE request == [Idle EXCEPT !.op = "move"]
  <2>1. request \in Call /\ request.seenAt = 0
    BY IdleType DEF Call, Idle
  <2> HIDE DEF request
  <2>2. TakeTime(c, request) /\ call[c].pc = "idle" /\ UNCHANGED <<text, title, copy, stamp, basis>>
    BY <1>4 DEF MoveStart, Begin, request
  <2> QED BY <2>1, <2>2, TakingTimeStarts
<1>5. CASE MoveWrite(c)
  BY <1>5, WritingWrites DEF MoveWrite
<1>6. ASSUME NEW new \in [text : NewTexts(c), title : Titles], UpdateRead(c, new)
      PROVE  Starts(c) \/ Reads(c)
  <2> DEFINE changed == { column \in {"text", "title"} : new[column] # Snapshot[column] }
             request == [Idle EXCEPT !.op = "update", !.changed = changed,
                                     !.seen = Snapshot, !.seenAt = stamp, !.new = new]
  <2>1. call[c].pc = "idle" /\ UNCHANGED <<text, title, stamp>>
    BY <1>6 DEF UpdateRead, Begin
  <2>2. CASE Receive(c) /\ Answer(c, "updated") /\ UNCHANGED <<call, clock>>
    BY <2>1, <2>2 DEF Receive, Answer, Snapshot, Reads, Types, NoConflict
  <2>3. CASE Answer(c, "other") /\ UNCHANGED <<copy, basis, call, clock>>
    BY <2>1, <2>3 DEF Answer, Reads, Types, NoConflict
  <2>4. CASE TakeTime(c, request) /\ UNCHANGED <<copy, basis>>
    <3>1. request \in Call /\ request.seenAt = stamp
      BY UpdateRequest DEF Idle
    <3> HIDE DEF request
    <3> QED BY <2>1, <2>4, <3>1, TakingTimeStarts
  <2> QED BY <1>6, <2>2, <2>3, <2>4 DEF UpdateRead
<1>7. CASE UpdateWrite(c)
  BY <1>7, WritingWrites DEF UpdateWrite
<1>8. CASE UpdateMissed(c)
  BY <1>8 DEF UpdateMissed, Reads, Types
<1>9. CASE UpdateConflict(c)
  BY <1>9 DEF UpdateConflict, Return, Reads, Types
<1>10. CASE Abort(c)
  BY <1>10 DEF Abort, Answer, Return, Reads, Types, NoConflict
<1> QED BY <1>1, <1>2, <1>3, <1>4, <1>5, <1>6, <1>7, <1>8, <1>9, <1>10 DEF ClientNext

LEMMA TimesStep ==
  ASSUME TextInv, NEW c \in Clients, Starts(c) \/ Writes(c) \/ Reads(c)
  PROVE  TimesHavePassed' /\ TimesAreFresh'
<1> USE DEF TextInv
<1>0. /\ stamp \in Nat /\ clock \in Nat /\ Idle.now = 0 /\ Idle.seenAt = 0 /\ Idle.pc = "idle"
      /\ \A d \in Clients : basis[d] \in Nat /\ call[d].now \in Nat /\ call[d].seenAt \in Nat
  BY DEF Types, Call, Idle
<1>1. CASE Starts(c)
  BY <1>0, <1>1 DEF Starts, TimesHavePassed, TimesAreFresh, FreshTime
<1>2. CASE Writes(c)
  BY <1>0, <1>2 DEF Writes, TimesHavePassed, TimesAreFresh, FreshTime
<1>3. CASE Reads(c)
  <2>1. /\ call'[c].pc = "write" => call[c].pc = "write"
        /\ call'[c].now \in {0, call[c].now} /\ call'[c].seenAt \in {0, call[c].seenAt}
        /\ call'[c].pc = "write" => call'[c] = call[c]
    BY <1>0, <1>3 DEF Reads, Types, Call
  <2> QED BY <1>0, <1>3, <2>1 DEF Reads, TimesHavePassed, TimesAreFresh, FreshTime
<1> QED BY <1>1, <1>2, <1>3

\* The request of an update that is to be written.
LEMMA UpdateIsPrepared ==
  ASSUME Types, NEW c \in Clients, NEW new \in [text : NewTexts(c), title : Titles],
         UpdateRead(c, new), clock' # clock
  PROVE  /\ call'[c].op = "update" /\ call'[c].pc = "write"
         /\ call'[c].new.title \in Titles /\ call'[c].seen.title \in Titles
         /\ "text" \in call'[c].changed =>
              c \in Overwriters \/ Keeps(call'[c].seen.text, call'[c].new.text)
         /\ call'[c].seen = Snapshot
         /\ call'[c].seenAt = stamp
<1> DEFINE changed == { column \in {"text", "title"} : new[column] # Snapshot[column] }
           refused == /\ "text" \in changed
                      /\ WouldReplace(text, new.text)
                      /\ c \notin Overwriters
           request == [Idle EXCEPT !.op = "update", !.changed = changed,
                                   !.seen = Snapshot, !.seenAt = stamp, !.new = new]
           moment == clock + 1
<1>1. ~refused /\ TakeTime(c, request)
  BY DEF UpdateRead
<1>2. /\ request.op = "update" /\ request.changed = changed /\ request.seen = Snapshot
      /\ request.seenAt = stamp /\ request.new = new /\ request \in Call
  BY UpdateRequest DEF Idle
<1>3. "text" \in changed => c \in Overwriters \/ Keeps(text, new.text)
  BY <1>1 DEF WouldReplace
<1>4. call' = [call EXCEPT ![c] = [request EXCEPT !.pc = "write", !.now = moment]]
  BY <1>1 DEF TakeTime
<1> HIDE DEF request, changed, moment
<1>5. /\ call'[c].op = "update" /\ call'[c].pc = "write" /\ call'[c].new = new
      /\ call'[c].changed = changed /\ call'[c].seen = Snapshot /\ call'[c].seenAt = stamp
  BY <1>2, <1>4 DEF Types, Call
<1>6. Snapshot.text = text /\ new.title \in Titles /\ Snapshot.title \in Titles
  BY DEF Snapshot, Types
<1> QED BY <1>3, <1>5, <1>6

LEMMA PreparedWhenStarting ==
  ASSUME TextInv, NEW c \in Clients, ClientNext(c), Starts(c)
  PROVE  Prepared(c)'
<1> USE DEF TextInv
<1>0. clock' # clock /\ call[c].pc = "idle" /\ call'[c].pc = "write" /\ UNCHANGED <<text, title, stamp, basis>>
  BY DEF Starts, Types
<1>1. ASSUME NEW note \in Notes, AppendStart(c, note) PROVE Prepared(c)'
  <2> DEFINE request == [Idle EXCEPT !.op = "append", !.new.text = <<note>>]
             moment == clock + 1
  <2>1. call' = [call EXCEPT ![c] = [request EXCEPT !.pc = "write", !.now = moment]]
    BY <1>1 DEF AppendStart, TakeTime
  <2>2. request.op = "append" /\ request.new.text = <<note>> /\ request \in Call
    BY AppendRequest DEF Idle, Blank
  <2> HIDE DEF request, moment
  <2>3. call'[c].op = "append" /\ call'[c].new.text = <<note>>
    BY <2>1, <2>2 DEF Types, Call
  <2> QED BY <1>0, <2>3 DEF Prepared
<1>2. CASE MoveStart(c)
  <2> DEFINE request == [Idle EXCEPT !.op = "move"]
             moment == clock + 1
  <2>1. call' = [call EXCEPT ![c] = [request EXCEPT !.pc = "write", !.now = moment]]
    BY <1>2 DEF MoveStart, TakeTime
  <2>2. request.op = "move" /\ request \in Call
    BY IdleType DEF Idle, Call
  <2> HIDE DEF request, moment
  <2>3. call'[c].op = "move"
    BY <2>1, <2>2 DEF Types, Call
  <2> QED BY <1>0, <2>3 DEF Prepared
<1>3. ASSUME NEW new \in [text : NewTexts(c), title : Titles], UpdateRead(c, new)
      PROVE  Prepared(c)'
  <2>1. /\ call'[c].op = "update"
        /\ call'[c].new.title \in Titles /\ call'[c].seen.title \in Titles
        /\ "text" \in call'[c].changed =>
             c \in Overwriters \/ Keeps(call'[c].seen.text, call'[c].new.text)
        /\ call'[c].seen = Snapshot /\ call'[c].seenAt = stamp
    BY <1>0, <1>3, UpdateIsPrepared
  <2>2. Snapshot' = Snapshot
    BY <1>0 DEF Snapshot
  <2> QED BY <1>0, <2>1, <2>2 DEF Prepared
<1> QED BY <1>0, <1>1, <1>2, <1>3
        DEF ClientNext, Get, AppendWrite, MoveWrite, UpdateWrite, UpdateMissed, UpdateConflict,
            Abort, Begin

LEMMA PreparedStep ==
  ASSUME TextInv, NEW c \in Clients, ClientNext(c)
  PROVE  CallsArePrepared'
<1> USE DEF TextInv
<1>0. Idle.pc = "idle" /\ Idle.op = "none"
  BY DEF Idle
<1>1. CASE Starts(c)
  <2>1. ASSUME NEW d \in Clients, d # c PROVE Prepared(d)'
    <3>1. call'[d] = call[d] /\ UNCHANGED <<text, title, stamp, basis>> /\ Prepared(d)
      BY <1>1, <2>1 DEF Starts, CallsArePrepared
    <3> QED BY <3>1 DEF Prepared, Expected, Snapshot
  <2> QED BY <1>1, <2>1, PreparedWhenStarting DEF CallsArePrepared
<1>2. CASE Writes(c)
  <2>1. Prepared(c)'
    BY <1>0, <1>2 DEF Writes, Prepared
  <2>2. ASSUME NEW d \in Clients, d # c PROVE Prepared(d)'
    <3>1. call'[d] = call[d] /\ basis'[d] = basis[d] /\ Prepared(d)
      BY <1>2, <2>2 DEF Writes, CallsArePrepared
    <3>2. stamp' # basis[d] /\ stamp' # call[d].seenAt
      BY <1>2, <2>2 DEF Writes, TimesAreFresh, FreshTime
    <3> QED BY <3>1, <3>2 DEF Prepared, Expected
  <2> QED BY <2>1, <2>2 DEF CallsArePrepared
<1>3. CASE Reads(c)
  <2>1. UNCHANGED <<text, title, stamp>> /\ Snapshot' = Snapshot
    BY <1>3 DEF Reads, Snapshot
  <2>2. ASSUME NEW d \in Clients, d # c PROVE Prepared(d)'
    <3>1. call'[d] = call[d] /\ basis'[d] = basis[d] /\ Prepared(d)
      BY <1>3, <2>2 DEF Reads, CallsArePrepared
    <3> QED BY <2>1, <3>1 DEF Prepared, Expected
  <2>3. Prepared(c)'
    <3>1. CASE call'[c] = call[c]
      <4>1. Prepared(c) /\ (basis'[c] = basis[c] \/ call[c].pc = "idle")
        BY <1>3 DEF CallsArePrepared, Reads
      <4>2. call[c].pc = "idle" => call[c].op # "update"
        BY DEF CallsArePrepared, Prepared
      <4> QED BY <2>1, <3>1, <4>1, <4>2 DEF Prepared, Expected
    <3>2. CASE call'[c] = Idle
      BY <1>0, <3>2 DEF Prepared
    <3>3. CASE call'[c] # call[c] /\ call'[c] # Idle
      <4>1. /\ call[c].pc = "write" /\ call[c].op = "update" /\ ~ Matches(c)
            /\ call'[c] = [call[c] EXCEPT !.pc = "missed"] /\ basis'[c] = basis[c]
        BY <1>3, <3>3 DEF Reads
      <4>2. /\ call'[c].op = "update" /\ call'[c].seen = call[c].seen
            /\ call'[c].seenAt = call[c].seenAt /\ call'[c].new = call[c].new
            /\ call'[c].changed = call[c].changed /\ call'[c].pc = "missed"
        BY <4>1 DEF Types, Call
      <4>3. Prepared(c)
        BY DEF CallsArePrepared
      <4>4. Expected(c) # stamp
        BY <4>1, <4>3 DEF Matches, Expected, Prepared, Snapshot
      <4>5. Expected(c)' = Expected(c)
        BY <4>1, <4>2 DEF Expected
      <4> QED BY <2>1, <4>1, <4>2, <4>3, <4>4, <4>5 DEF Prepared
    <3> QED BY <3>1, <3>2, <3>3
  <2> QED BY <2>2, <2>3 DEF CallsArePrepared
<1> QED BY <1>1, <1>2, <1>3, StepHasOneEffect

LEMMA NamesStep ==
  ASSUME TextInv, NEW c \in Clients, Starts(c) \/ Writes(c) \/ Reads(c)
  PROVE  StampNamesTheContent' /\ ConflictShowsTheChange'
<1> USE DEF TextInv
<1>1. ASSUME NEW d \in Clients, basis'[d] = stamp' PROVE copy'[d] = Snapshot'
  <2>1. CASE Starts(c)
    BY <1>1, <2>1 DEF Starts, Snapshot, StampNamesTheContent
  <2>2. CASE Writes(c)
    <3>1. d # c => stamp' # basis[d] /\ basis'[d] = basis[d]
      BY <2>2 DEF Writes, TimesAreFresh, FreshTime
    <3> QED BY <1>1, <2>2, <3>1 DEF Writes
  <2>3. CASE Reads(c)
    BY <1>1, <2>3 DEF Reads, Snapshot, StampNamesTheContent
  <2> QED BY <2>1, <2>2, <2>3
<1>2. ASSUME NEW d \in Clients, answer'[d].kind = "conflict"
      PROVE  answer'[d].expected # answer'[d].current
  <2>1. CASE answer'[d] = answer[d]
    BY <1>2, <2>1 DEF ConflictShowsTheChange
  <2>2. CASE answer'[d] # answer[d]
    <3>1. d = c /\ Reads(c)
      BY <1>2, <2>2 DEF Starts, Writes, Reads
    <3>2. /\ answer'[d] = [kind |-> "conflict", expected |-> Expected(c), current |-> stamp]
          /\ call[c].pc = "missed"
      BY <1>2, <2>2, <3>1 DEF Reads
    <3>3. Expected(c) # stamp
      BY <3>2 DEF CallsArePrepared, Prepared
    <3> QED BY <3>2, <3>3
  <2> QED BY <2>1, <2>2
<1> QED BY <1>1, <1>2 DEF StampNamesTheContent, ConflictShowsTheChange

LEMMA InvStep == ASSUME TextInv, [Next]_vars PROVE TextInv'
<1>1. CASE Next
  <2>1. PICK c \in Clients : ClientNext(c)
    BY <1>1, NextIsAClients
  <2>2. Types'
    BY <2>1, TypesStep
  <2>3. Starts(c) \/ Writes(c) \/ Reads(c)
    BY <2>1, StepHasOneEffect DEF TextInv
  <2>4. CallsArePrepared'
    BY <2>1, PreparedStep
  <2>5. TimesHavePassed' /\ TimesAreFresh'
    BY <2>3, TimesStep
  <2>6. StampNamesTheContent' /\ ConflictShowsTheChange'
    BY <2>3, NamesStep
  <2> QED BY <2>2, <2>4, <2>5, <2>6 DEF TextInv
<1>2. CASE UNCHANGED vars
  <2>1. Types' /\ TimesHavePassed'
    BY <1>2 DEF vars, TextInv, Types, TimesHavePassed
  <2>2. TimesAreFresh'
    BY <1>2 DEF vars, TextInv, TimesAreFresh, FreshTime
  <2>3. CallsArePrepared'
    BY <1>2 DEF vars, TextInv, CallsArePrepared, Prepared, Expected, Snapshot
  <2>4. StampNamesTheContent' /\ ConflictShowsTheChange'
    BY <1>2 DEF vars, TextInv, StampNamesTheContent, ConflictShowsTheChange, Snapshot
  <2> QED BY <2>1, <2>2, <2>3, <2>4 DEF TextInv
<1> QED BY <1>1, <1>2

----------------------------------------------------------------------------
(* Every step is a step of AtomicText or leaves its variables alone.  The  *)
(* one step that depends on the invariant is the UPDATE of update_ticket:  *)
(* its WHERE clause has to stand for "the caller has read this row".       *)

LEMMA UpdateWriteIsAnEdit ==
  ASSUME TextInv, NEW c \in Clients, UpdateWrite(c)
  PROVE  Edit(c)
<1>1. Prepared(c) /\ call[c].op = "update" /\ Matches(c)
  BY DEF TextInv, CallsArePrepared, UpdateWrite
<1>2. c \in Guarded => copy[c] = Snapshot
  BY <1>1 DEF Matches, TextInv, StampNamesTheContent
<1>3. ASSUME text' # text PROVE c \in Overwriters \/ Keeps(text, text')
  <2>1. "text" \in call[c].changed /\ text' = call[c].new.text
    BY <1>3 DEF UpdateWrite
  <2>2. text = call[c].seen.text
    BY <1>1, <2>1 DEF Matches
  <2> QED BY <1>1, <2>1, <2>2 DEF Prepared
<1>4. title' \in Titles
  BY <1>1 DEF Prepared, UpdateWrite, TextInv, Types
<1>5. copy' = [copy EXCEPT ![c] = Snapshot']
  BY DEF UpdateWrite, Receive
<1> QED BY <1>2, <1>3, <1>4, <1>5 DEF Edit

LEMMA StepIsAtomic ==
  ASSUME TextInv, NEW c \in Clients, ClientNext(c)
  PROVE  ANext \/ UNCHANGED avars
<1>1. ASSUME UNCHANGED <<text, title>>, Receive(c) PROVE Look(c)
  BY <1>1 DEF Receive, Look, Snapshot
<1>2. CASE Get(c)
  BY <1>1, <1>2 DEF Get, ANext
<1>3. CASE \E note \in Notes : AppendStart(c, note)
  BY <1>3 DEF AppendStart, avars
<1>4. CASE AppendWrite(c)
  <2>1. \E note \in Notes : text' = Append(text, note)
    BY <1>4, AppendedText DEF TextInv
  <2> QED BY <1>4, <2>1 DEF AppendWrite, Receive, Add, ANext
<1>5. CASE MoveStart(c)
  BY <1>5 DEF MoveStart, avars
<1>6. CASE MoveWrite(c)
  BY <1>1, <1>6 DEF MoveWrite, ANext
<1>7. ASSUME NEW new \in [text : NewTexts(c), title : Titles], UpdateRead(c, new)
      PROVE  ANext \/ UNCHANGED avars
  <2>1. UNCHANGED <<text, title>> /\ (Receive(c) \/ UNCHANGED copy)
    BY <1>7 DEF UpdateRead
  <2> QED BY <1>1, <2>1 DEF ANext, avars
<1>8. CASE UpdateWrite(c)
  BY <1>8, UpdateWriteIsAnEdit DEF ANext
<1>9. CASE UpdateMissed(c) \/ UpdateConflict(c) \/ Abort(c)
  BY <1>9 DEF UpdateMissed, UpdateConflict, Abort, avars
<1> QED BY <1>2, <1>3, <1>4, <1>5, <1>6, <1>7, <1>8, <1>9 DEF ClientNext

----------------------------------------------------------------------------

(* The history rows: what is appended to them is a row of its field. *)

LEMMA HistoryStep ==
  ASSUME TextInv, history \in Seq(HistoryRow), NEW c \in Clients, ClientNext(c)
  PROVE  history' \in Seq(HistoryRow)
<1> USE DEF TextInv
<1>1. CASE AppendWrite(c)
  <2> DEFINE row == [field |-> "description_appended", new |-> Head(call[c].new.text)]
  <2>1. PICK note \in Notes : call[c].new.text = <<note>>
    BY <1>1 DEF CallsArePrepared, Prepared, AppendWrite
  <2>2. row \in HistoryRow
    BY <2>1 DEF HistoryRow
  <2>3. history' = Append(history, row)
    BY <1>1 DEF AppendWrite
  <2> HIDE DEF row
  <2> QED BY <2>2, <2>3
<1>2. CASE UpdateWrite(c)
  <2> DEFINE k == call[c]
             titleRow == [field |-> "title", old |-> k.seen.title, new |-> k.new.title]
             textRow == [field |-> "description", old |-> k.seen.text, new |-> k.new.text]
  <2>1. /\ k.new.title \in Titles /\ k.seen.title \in Titles
        /\ k.new.text \in Texts /\ k.seen.text \in Texts
    BY <1>2 DEF CallsArePrepared, Prepared, UpdateWrite, Types, Call, Draft
  <2>2. titleRow \in HistoryRow /\ textRow \in HistoryRow
    BY <2>1 DEF HistoryRow
  <2>3. history' = history \o UpdateEntries(k)
    BY <1>2 DEF UpdateWrite
  <2>4. UpdateEntries(k) = (IF "title" \in k.changed THEN <<titleRow>> ELSE <<>>)
                           \o (IF "text" \in k.changed THEN <<textRow>> ELSE <<>>)
    BY DEF UpdateEntries
  <2> HIDE DEF k, titleRow, textRow
  <2>5. UpdateEntries(k) \in Seq(HistoryRow)
    BY <2>2, <2>4
  <2> QED BY <2>3, <2>5
<1>3. CASE UNCHANGED history
  BY <1>3
<1> QED BY <1>1, <1>2, <1>3
        DEF ClientNext, Get, AppendStart, MoveStart, MoveWrite, UpdateRead, UpdateMissed,
            UpdateConflict, Abort

(* What the history rows tell of the description.  Which rows are there is a *)
(* fact about the whole behaviour, so that Rebuilt is a function at all is   *)
(* one too: both are shown to stay true as rows are appended.                *)

IsReplay(f, rows) ==
  f = [n \in 0..Len(rows) |-> IF n = 0 THEN <<>> ELSE Replay(f[n - 1], rows[n])]

\* Replaying these rows ends in this text, by way of every old value.
Tells(rows, was) ==
  /\ \E f : IsReplay(f, rows)
  /\ \A f : IsReplay(f, rows) =>
       /\ f[Len(rows)] = was
       /\ \A i \in DOMAIN rows : rows[i].field = "description" => rows[i].old = f[i - 1]

LEMMA NothingIsTold == Tells(<<>>, <<>>)
<1> DEFINE rows == <<>>
           f == [n \in 0..Len(rows) |-> <<>>]
<1>1. Len(rows) = 0 /\ DOMAIN rows = {} /\ 0..Len(rows) = {0}
  OBVIOUS
<1>2. IsReplay(f, rows)
  BY <1>1 DEF IsReplay
<1>3. ASSUME NEW g, IsReplay(g, rows) PROVE g[0] = <<>>
  BY <1>1, <1>3 DEF IsReplay
<1> HIDE DEF f
<1> QED BY <1>1, <1>2, <1>3 DEF Tells

LEMMA OneRowMore ==
  ASSUME NEW rows \in Seq(HistoryRow), NEW was, Tells(rows, was),
         NEW row \in HistoryRow, row.field = "description" => row.old = was
  PROVE  Tells(Append(rows, row), Replay(was, row))
<1> DEFINE more == Append(rows, row)
           N == Len(rows)
<1>1. /\ N \in Nat /\ Len(more) = N + 1 /\ more[N + 1] = row /\ DOMAIN more = 1..N + 1
      /\ \A i \in 1..N : more[i] = rows[i]
      /\ DOMAIN rows = 1..N
  OBVIOUS
<1> HIDE DEF more, N
<1>2. PICK f : IsReplay(f, rows)
  BY DEF Tells
<1>3. f = [n \in 0..N |-> IF n = 0 THEN <<>> ELSE Replay(f[n - 1], rows[n])]
  BY <1>2 DEF IsReplay, N
<1>4. \E g : IsReplay(g, more)
  <2> DEFINE g == [n \in 0..N + 1 |-> IF n = N + 1 THEN Replay(f[N], row) ELSE f[n]]
  <2>1. ASSUME NEW n \in 0..N + 1
        PROVE  g[n] = IF n = 0 THEN <<>> ELSE Replay(g[n - 1], more[n])
    <3>1. CASE n = N + 1
      BY <1>1, <3>1
    <3>2. CASE n # N + 1
      <4>1. n \in 0..N /\ g[n] = f[n] /\ (n # 0 => g[n - 1] = f[n - 1] /\ more[n] = rows[n])
        BY <1>1, <3>2
      <4>2. f[n] = IF n = 0 THEN <<>> ELSE Replay(f[n - 1], rows[n])
        BY <1>3, <4>1
      <4> QED BY <4>1, <4>2
    <3> QED BY <3>1, <3>2
  <2>2. g = [n \in 0..N + 1 |-> g[n]]
    OBVIOUS
  <2> HIDE DEF g
  <2>3. g = [n \in 0..N + 1 |-> IF n = 0 THEN <<>> ELSE Replay(g[n - 1], more[n])]
    BY <2>1, <2>2
  <2>4. IsReplay(g, more)
    BY <1>1, <2>3 DEF IsReplay
  <2> QED BY <2>4
<1>5. ASSUME NEW g, IsReplay(g, more)
      PROVE  /\ g[N + 1] = Replay(was, row)
             /\ \A i \in 1..N + 1 : more[i].field = "description" => more[i].old = g[i - 1]
  <2>1. g = [n \in 0..N + 1 |-> IF n = 0 THEN <<>> ELSE Replay(g[n - 1], more[n])]
    BY <1>1, <1>5 DEF IsReplay
  <2> DEFINE h == [n \in 0..N |-> g[n]]
  <2>2. ASSUME NEW n \in 0..N
        PROVE  h[n] = IF n = 0 THEN <<>> ELSE Replay(h[n - 1], rows[n])
    <3>1. n \in 0..N + 1 /\ h[n] = g[n] /\ (n # 0 => h[n - 1] = g[n - 1] /\ more[n] = rows[n])
      BY <1>1
    <3>2. g[n] = IF n = 0 THEN <<>> ELSE Replay(g[n - 1], more[n])
      BY <2>1, <3>1
    <3> QED BY <3>1, <3>2
  <2>3. h = [n \in 0..N |-> h[n]] /\ h[N] = g[N] /\ \A i \in 1..N : h[i - 1] = g[i - 1]
    BY <1>1
  <2> HIDE DEF h
  <2>4. h = [n \in 0..N |-> IF n = 0 THEN <<>> ELSE Replay(h[n - 1], rows[n])]
    BY <2>2, <2>3
  <2>5. IsReplay(h, rows)
    BY <2>4 DEF IsReplay, N
  <2>6. /\ h[N] = was
        /\ \A i \in 1..N : rows[i].field = "description" => rows[i].old = h[i - 1]
    BY <1>1, <2>5 DEF Tells, N
  <2>7. N + 1 \in 0..N + 1 /\ N + 1 # 0 /\ (N + 1) - 1 = N
    BY <1>1
  <2>8. g[N + 1] = Replay(g[N], row)
    BY <1>1, <2>1, <2>7
  <2> QED BY <1>1, <2>3, <2>6, <2>8
<1> QED BY <1>1, <1>4, <1>5 DEF Tells, more

\* Every write leaves rows that tell what it has written.
LEMMA TellingStep ==
  ASSUME TextInv, history \in Seq(HistoryRow), Tells(history, text),
         NEW c \in Clients, ClientNext(c)
  PROVE  Tells(history', text')
<1> USE DEF TextInv
<1>1. CASE AppendWrite(c)
  <2> DEFINE row == [field |-> "description_appended", new |-> Head(call[c].new.text)]
  <2>1. PICK note \in Notes : call[c].new.text = <<note>>
    BY <1>1 DEF CallsArePrepared, Prepared, AppendWrite
  <2>2. Head(call[c].new.text) = note
    BY <2>1
  <2>3. row \in HistoryRow /\ row.field = "description_appended" /\ row.new = note
    BY <2>1, <2>2 DEF HistoryRow
  <2>4. history' = Append(history, row)
    BY <1>1 DEF AppendWrite
  <2>5. text' = Append(text, note)
    <3>1. text' = text \o <<note>>
      BY <1>1, <2>1 DEF AppendWrite, Appended
    <3> QED BY <3>1 DEF Types, Texts
  <2> HIDE DEF row
  <2>6. Replay(text, row) = text'
    BY <2>3, <2>5 DEF Replay
  <2> QED BY <2>3, <2>4, <2>6, OneRowMore
<1>2. CASE UpdateWrite(c)
  <2> DEFINE k == call[c]
             titleRow == [field |-> "title", old |-> k.seen.title, new |-> k.new.title]
             textRow == [field |-> "description", old |-> k.seen.text, new |-> k.new.text]
             titled == IF "title" \in k.changed THEN Append(history, titleRow) ELSE history
  <2>1. /\ k.new.title \in Titles /\ k.seen.title \in Titles
        /\ k.new.text \in Texts /\ k.seen.text \in Texts
    BY <1>2 DEF CallsArePrepared, Prepared, UpdateWrite, Types, Call, Draft
  <2>2. titleRow \in HistoryRow /\ textRow \in HistoryRow
    BY <2>1 DEF HistoryRow
  <2>3. "text" \in k.changed => text = k.seen.text
    BY <1>2 DEF UpdateWrite, Matches
  <2>4. history' = history \o UpdateEntries(k)
    BY <1>2 DEF UpdateWrite
  <2>5. UpdateEntries(k) = (IF "title" \in k.changed THEN <<titleRow>> ELSE <<>>)
                           \o (IF "text" \in k.changed THEN <<textRow>> ELSE <<>>)
    BY DEF UpdateEntries
  <2>6. text' = IF "text" \in k.changed THEN k.new.text ELSE text
    BY <1>2 DEF UpdateWrite
  <2>7. Replay(text, titleRow) = text /\ Replay(text, textRow) = k.new.text
    BY DEF Replay
  <2>8. titleRow.field = "title" /\ textRow.old = k.seen.text
    OBVIOUS
  <2> HIDE DEF k, titleRow, textRow
  <2>9. titled \in Seq(HistoryRow) /\ Tells(titled, text)
    BY <2>2, <2>7, <2>8, OneRowMore
  <2>10. history' = IF "text" \in k.changed THEN Append(titled, textRow) ELSE titled
    <3>1. CASE "title" \in k.changed /\ "text" \in k.changed
      <4>1. history' = history \o (<<titleRow>> \o <<textRow>>)
        BY <2>4, <2>5, <3>1
      <4>2. history \o (<<titleRow>> \o <<textRow>>) = Append(Append(history, titleRow), textRow)
        BY <2>2
      <4> QED BY <3>1, <4>1, <4>2
    <3>2. CASE "title" \in k.changed /\ "text" \notin k.changed
      <4>1. history' = history \o (<<titleRow>> \o <<>>)
        BY <2>4, <2>5, <3>2
      <4> QED BY <2>2, <3>2, <4>1
    <3>3. CASE "title" \notin k.changed
      <4>1. history' = history \o (<<>> \o (IF "text" \in k.changed THEN <<textRow>> ELSE <<>>))
        BY <2>4, <2>5, <3>3
      <4> QED BY <2>2, <3>3, <4>1
    <3> QED BY <3>1, <3>2, <3>3
  <2> HIDE DEF titled
  <2> QED BY <2>2, <2>3, <2>6, <2>7, <2>8, <2>9, <2>10, OneRowMore
<1>3. CASE UNCHANGED <<history, text>>
  BY <1>3
<1> QED BY <1>1, <1>2, <1>3
        DEF ClientNext, Get, AppendStart, MoveStart, MoveWrite, UpdateRead, UpdateMissed,
            UpdateConflict, Abort

LEMMA TextInvHolds == Spec => []TextInv
BY InitHolds, InvStep, PTL DEF Spec

\* Every step leaves the row, the copies, the calls, the answers and the history
\* rows in the shapes that service.py gives them.
THEOREM TypesHold == Spec => []TypeOK
<1> DEFINE Typed == history \in Seq(HistoryRow) /\ calls \in Nat
<1>1. Init => Typed
  BY DEF Init
<1>2. TextInv /\ Typed /\ [Next]_vars => Typed'
  <2> SUFFICES ASSUME TextInv, Typed, [Next]_vars PROVE Typed'
    OBVIOUS
  <2>1. CASE Next
    <3>1. PICK c \in Clients : ClientNext(c)
      BY <2>1, NextIsAClients
    <3>2. calls' = calls \/ calls' = calls + 1
      BY <3>1 DEF ClientNext, Begin, Get, AppendStart, AppendWrite, MoveStart, MoveWrite,
                  UpdateRead, UpdateWrite, UpdateMissed, UpdateConflict, Abort
    <3> QED BY <3>1, <3>2, HistoryStep
  <2>2. CASE UNCHANGED vars
    BY <2>2 DEF vars
  <2> QED BY <2>1, <2>2
<1>3. TextInv /\ Typed => TypeOK
  BY DEF TextInv, Types, TypeOK
<1> HIDE DEF Typed
<1> QED BY <1>1, <1>2, <1>3, TextInvHolds, PTL DEF Spec

\* However far updated_at is carried back by a writer that took its time long
\* before its UPDATE, a caller that holds the row's updated_at holds the row.
THEOREM StampIsTrustworthy == Spec => []StampNamesTheContent
<1>1. TextInv => StampNamesTheContent
  BY DEF TextInv
<1> QED BY <1>1, TextInvHolds, PTL

\* update_ticket never answers a conflict between two equal updated_at, though
\* it reads the second one after its UPDATE has missed.
THEOREM ConflictIsTrue == Spec => []ConflictShowsTheChange
<1>1. TextInv => ConflictShowsTheChange
  BY DEF TextInv
<1> QED BY <1>1, TextInvHolds, PTL

\* Whatever the clients do, the history rows that append_description and
\* update_ticket insert are enough to rebuild the description at every moment,
\* and an old value is never that of a text that another client has replaced.
THEOREM HistoryIsComplete == Spec => []HistoryRebuildsTheText
<1>1. Init => Tells(history, text)
  BY NothingIsTold DEF Init, AInit
<1>2. TextInv /\ TypeOK /\ Tells(history, text) /\ [Next]_vars => Tells(history, text)'
  <2> SUFFICES ASSUME TextInv, TypeOK, Tells(history, text), [Next]_vars
               PROVE  Tells(history', text')
    BY DEF Tells, IsReplay
  <2>1. CASE Next
    BY <2>1, NextIsAClients, TellingStep DEF TypeOK
  <2>2. CASE UNCHANGED vars
    BY <2>2 DEF vars
  <2> QED BY <2>1, <2>2
<1>3. Tells(history, text) => HistoryRebuildsTheText
  <2> SUFFICES ASSUME Tells(history, text) PROVE HistoryRebuildsTheText
    OBVIOUS
  <2>1. Rebuilt = CHOOSE f : IsReplay(f, history)
    BY DEF Rebuilt, IsReplay
  <2>2. IsReplay(Rebuilt, history)
    BY <2>1 DEF Tells
  <2> QED BY <2>2 DEF Tells, HistoryRebuildsTheText
<1> QED BY <1>1, <1>2, <1>3, TextInvHolds, TypesHold, PTL DEF Spec

\* append_description, update_ticket and the moves implement AtomicText, under
\* the identity: no append is lost, nothing is replaced without a confirmation,
\* and a guarded edit lands only on the row its caller has read.
THEOREM WritesImplementAtomicText == Spec => WritesAreAtomic
<1>1. Init => AInit
  BY DEF Init
<1>2. ASSUME TextInv, [Next]_vars PROVE [ANext]_avars
  <2>1. CASE Next
    BY <1>2, <2>1, NextIsAClients, StepIsAtomic
  <2>2. CASE UNCHANGED vars
    BY <2>2 DEF vars, avars
  <2> QED BY <1>2, <2>1, <2>2
<1> QED BY <1>1, <1>2, TextInvHolds, PTL DEF Spec, WritesAreAtomic, ASpec

=============================================================================
