-------------------------- MODULE BoardReadProofs ---------------------------
(***************************************************************************)
(* Proofs about ReadThrottle, for any number of threads, databases and     *)
(* rows, any batch, any window and any number of faults: what the unlocked *)
(* dictionary decides, and what failing writes leave to the read; and      *)
(* about BoardRead, which extends it, for any number of tickets, any limit *)
(* and any scenarios: what the counts of a board are worth, and what the   *)
(* two caches of the catalog may say.                                      *)
(***************************************************************************)
EXTENDS BoardRead, TLAPS

----------------------------------------------------------------------------
(* The throttle: the invariant *)

\* The write that a reader with record x is at.
KindOf(x) == LET writes == Writes[x.op]
             IN  writes[Len(writes) + 1 - x.left]

Underway == {"check"} \cup Attempting

\* A reader at one of its writes has one to be at; only a reader that told its
\* database has an entry to set, and only a full backfill re-arms.  No handler
\* leaves an aborted transaction.
ReaderOK(x) ==
  /\ x \in Reader
  /\ x.pc \in Underway => x.left \in 1..Len(Writes[x.op])
  /\ x.pc = "stamp" => x.named
  /\ x.pc = "rearm" => KindOf(x) = "tsvector_backfill" /\ Cardinality(x.picked) >= Batch
  /\ x.conn # "aborted"

Types ==
  /\ backlog \in [Kinds -> [Databases -> SUBSET Rows]]
  /\ age \in [Kinds -> [Databases -> Ages]]
  /\ lone \in [Kinds -> [Databases -> Outcome]]
  /\ faults \in 0..MaxFaults
  /\ reader \in [Readers -> Reader]
  /\ \A r \in Readers : ReaderOK(reader[r])

\* x attempts the write of this kind on this database, under its entry.
Attempts(x, kind, db) ==
  x.pc \in Attempting /\ x.named /\ x.db = db /\ KindOf(x) = kind

\* Of two who attempt the same write, both know that they are raced.
RivalsAreRaced ==
  \A kind \in Kinds, db \in Databases : \A r, s \in Readers :
    r # s /\ Attempts(reader[r], kind, db) /\ Attempts(reader[s], kind, db) => reader[r].raced

\* While a write is attempted nothing is told of the attempt before it.
NothingToldYet ==
  \A kind \in Kinds, db \in Databases : \A r \in Readers :
    Attempts(reader[r], kind, db) => lone[kind][db] = NoOutcome

\* The entry of an attempt without rivals is the attempt's own.
EntryIsOwn ==
  \A kind \in Kinds, db \in Databases : \A r \in Readers :
    /\ Attempts(reader[r], kind, db)
    /\ ~ reader[r].raced
    /\ reader[r].pc # "stamp"
    => age[kind][db] = reader[r].took

\* The entry agrees with what the last attempt without rivals came to: none
\* after a full batch, else one that is no older than the attempt.
EntryTellsOutcome ==
  \A kind \in Kinds, db \in Databases :
    /\ lone[kind][db].full => age[kind][db] = Interval
    /\ lone[kind][db].full \/ age[kind][db] =< lone[kind][db].age

ThrottleInv == Types /\ RivalsAreRaced /\ NothingToldYet /\ EntryIsOwn /\ EntryTellsOutcome

----------------------------------------------------------------------------
(* Values *)

LEMMA KindOfReader ==
  ASSUME NEW x, ReaderOK(x), x.pc \in Underway
  PROVE  KindOf(x) \in Kinds /\ x.left \in 1..2 /\ Len(Writes[x.op]) \in 1..2
<1>1. x.op \in Ops  BY DEF ReaderOK, Reader
<1>2. CASE x.op = "board"  BY <1>2 DEF ReaderOK, KindOf, Writes, Kinds
<1>3. CASE x.op = "list"  BY <1>3 DEF ReaderOK, KindOf, Writes, Kinds
<1>4. CASE x.op = "search"  BY <1>4 DEF ReaderOK, KindOf, Writes, Kinds
<1>5. QED  BY <1>1, <1>2, <1>3, <1>4 DEF Ops

LEMMA OlderIsAnAge ==
  ASSUME NEW n \in Ages
  PROVE  Older(n) \in Ages /\ (n = Interval => Older(n) = Interval)
                           /\ (Older(n) = n \/ Older(n) = n + 1)
BY ThrottleIntervalAssumption DEF Older, Ages

LEMMA IdleIsOK == ReaderOK(Idle) /\ Idle.pc = "idle"
<1>1. (CHOOSE db \in Databases : TRUE) \in Databases  BY ThrottleDatabasesAssumption
<1>2. 0 \in Ages  BY ThrottleIntervalAssumption DEF Ages
<1>3. Idle \in Reader  BY <1>1, <1>2 DEF Idle, Reader, PCs, Ops, Conns
<1>4. QED  BY <1>3 DEF Idle, ReaderOK, Underway, Attempting

LEMMA NoOutcomeIsTyped ==
  /\ NoOutcome \in Outcome /\ ~ NoOutcome.full /\ NoOutcome.age = Interval
  /\ \A n \in Ages : n =< NoOutcome.age
BY ThrottleIntervalAssumption DEF NoOutcome, Outcome, Ages

LEMMA PastWriteIsOK ==
  ASSUME Types, NEW r \in Readers, reader[r].pc \in Underway, NEW conn \in Conns \ {"aborted"}
  PROVE  /\ ReaderOK(PastWrite(r, conn))
         /\ PastWrite(r, conn).pc \notin Attempting
         /\ PastWrite(r, conn).left = reader[r].left - 1
<1> DEFINE x == reader[r]
           pc == IF x.left > 1 THEN "check" ELSE "read"
           left == x.left - 1
           named == x.named /\ conn # "closed"
           y == PastWrite(r, conn)
<1>1. x \in Reader /\ ReaderOK(x)  BY DEF Types
<1>2. x.left \in 1..2 /\ x.left =< Len(Writes[x.op]) /\ Len(Writes[x.op]) \in 1..2
  BY <1>1, KindOfReader DEF ReaderOK
<1>3. left \in 0..2 /\ named \in BOOLEAN /\ pc \in PCs /\ 0 \in Ages
  BY <1>1, <1>2, ThrottleIntervalAssumption DEF PCs, Ages, Reader
<1>4. y = [x EXCEPT !.pc = pc, !.left = left, !.took = 0, !.picked = {}, !.raced = FALSE,
                    !.conn = conn, !.named = named]
  BY <1>1 DEF PastWrite, Reader
<1>5. pc = "check" => left \in 1..Len(Writes[x.op])  BY <1>2
<1> HIDE DEF pc, left, named, y, x
<1>6. /\ y \in Reader /\ y.pc = pc /\ y.left = left /\ y.op = x.op /\ y.conn = conn
  BY <1>1, <1>3, <1>4 DEF Reader
<1>7. pc \in {"check", "read"}  BY DEF pc
<1>8. ReaderOK(y) /\ y.pc \notin Attempting  BY <1>5, <1>6, <1>7 DEF ReaderOK, Underway, Attempting
<1>9. QED  BY <1>6, <1>8 DEF y, x, left

----------------------------------------------------------------------------
(* Three ways a step of one reader can go *)

TypedRest ==
  /\ backlog' \in [Kinds -> [Databases -> SUBSET Rows]]
  /\ faults' \in 0..MaxFaults

\* r is not attempting a write any more, or not yet.
LEMMA QuietStep ==
  ASSUME ThrottleInv, NEW r \in Readers, NEW y, ReaderOK(y), y.pc \notin Attempting,
         reader' = [reader EXCEPT ![r] = y], UNCHANGED <<age, lone>>, TypedRest
  PROVE  ThrottleInv'
<1>1. reader'[r] = y /\ \A s \in Readers \ {r} : reader'[s] = reader[s]
  BY DEF ThrottleInv, Types
<1>2. Types'  BY <1>1 DEF ThrottleInv, Types, TypedRest, ReaderOK
<1>3. ASSUME NEW s \in Readers, NEW kind, NEW db, Attempts(reader'[s], kind, db)
      PROVE  s # r /\ reader'[s] = reader[s]
  BY <1>1, <1>3 DEF Attempts
<1>4. RivalsAreRaced'  BY <1>3 DEF ThrottleInv, RivalsAreRaced
<1>5. NothingToldYet' /\ EntryIsOwn'
  <2>1. ASSUME NEW kind \in Kinds, NEW db \in Databases, NEW s \in Readers,
               Attempts(reader'[s], kind, db)
        PROVE  /\ lone'[kind][db] = NoOutcome
               /\ ~ reader'[s].raced /\ reader'[s].pc # "stamp" => age'[kind][db] = reader'[s].took
    <3>1. reader'[s] = reader[s] /\ Attempts(reader[s], kind, db)  BY <1>3, <2>1
    <3>2. lone[kind][db] = NoOutcome  BY <3>1 DEF ThrottleInv, NothingToldYet
    <3>3. ~ reader[s].raced /\ reader[s].pc # "stamp" => age[kind][db] = reader[s].took
      BY <3>1 DEF ThrottleInv, EntryIsOwn
    <3>4. QED  BY <3>1, <3>2, <3>3
  <2>2. QED  BY <2>1 DEF NothingToldYet, EntryIsOwn
<1>6. EntryTellsOutcome'  BY DEF ThrottleInv, EntryTellsOutcome
<1>7. QED  BY <1>2, <1>4, <1>5, <1>6 DEF ThrottleInv

\* r goes on with its attempt.
LEMMA AttemptStep ==
  ASSUME ThrottleInv, NEW r \in Readers, reader[r].pc \in Attempting,
         NEW y, ReaderOK(y), y.pc \in Attempting \ {"stamp"}, reader[r].pc # "stamp",
         y.db = reader[r].db, y.named = reader[r].named, y.op = reader[r].op,
         y.left = reader[r].left, y.raced = reader[r].raced, y.took = reader[r].took,
         reader' = [reader EXCEPT ![r] = y], UNCHANGED <<age, lone>>, TypedRest
  PROVE  ThrottleInv'
<1>1. reader'[r] = y /\ \A s \in Readers \ {r} : reader'[s] = reader[s]
  BY DEF ThrottleInv, Types
<1>2. Types'  BY <1>1 DEF ThrottleInv, Types, TypedRest, ReaderOK
<1>3. \A kind, db : Attempts(y, kind, db) <=> Attempts(reader[r], kind, db)
  BY DEF Attempts, KindOf
<1>4. ASSUME NEW s \in Readers
      PROVE  /\ reader'[s].raced = reader[s].raced /\ reader'[s].took = reader[s].took
             /\ reader'[s].pc # "stamp" => reader[s].pc # "stamp"
             /\ \A kind, db : Attempts(reader'[s], kind, db) <=> Attempts(reader[s], kind, db)
  BY <1>1, <1>3
<1>5. RivalsAreRaced'  BY <1>4 DEF ThrottleInv, RivalsAreRaced
<1>6. NothingToldYet'  BY <1>4 DEF ThrottleInv, NothingToldYet
<1>7. EntryIsOwn'  BY <1>4 DEF ThrottleInv, EntryIsOwn
<1>8. EntryTellsOutcome'  BY DEF ThrottleInv, EntryTellsOutcome
<1>9. QED  BY <1>2, <1>5, <1>6, <1>7, <1>8 DEF ThrottleInv

\* The attempt of r is over; a full batch has removed the entry.
LEMMA SettleStep ==
  ASSUME ThrottleInv, NEW r \in Readers, reader[r].pc \in Attempting \ {"stamp"},
         NEW y, ReaderOK(y), y.pc \notin Attempting,
         NEW full \in BOOLEAN, Settle(r, full),
         reader' = [reader EXCEPT ![r] = y], TypedRest,
         age' = IF full /\ reader[r].named
                THEN [age EXCEPT ![Kind(r)][reader[r].db] = Interval] ELSE age
  PROVE  ThrottleInv'
<1> DEFINE x == reader[r]
           told == [full |-> full, age |-> x.took]
<1>0. PICK k, d : k = Kind(r) /\ d = x.db  OBVIOUS
<1>1. x \in Reader /\ ReaderOK(x) /\ k \in Kinds /\ d \in Databases /\ k = KindOf(x)
  BY <1>0, KindOfReader DEF ThrottleInv, Types, Kind, KindOf, Underway, Reader
<1>2. /\ told \in Outcome /\ told.full = full /\ told.age = x.took
      /\ Interval \in Ages
  BY <1>1, ThrottleIntervalAssumption DEF Outcome, Reader, Ages
<1>3. reader'[r] = y /\ \A s \in Readers \ {r} : reader'[s] = reader[s]
  BY DEF ThrottleInv, Types
<1>4. /\ x.raced \/ ~ x.named => lone' = lone
      /\ ~ (x.raced \/ ~ x.named) => lone' = [lone EXCEPT ![k][d] = told]
      /\ full /\ x.named => age' = [age EXCEPT ![k][d] = Interval]
      /\ ~ (full /\ x.named) => age' = age
  BY <1>0 DEF Settle
<1> HIDE DEF told, x
<1>5. /\ age \in [Kinds -> [Databases -> Ages]] /\ lone \in [Kinds -> [Databases -> Outcome]]
  BY DEF ThrottleInv, Types
<1>6. ASSUME NEW kind \in Kinds, NEW db \in Databases
      PROVE  /\ kind # k \/ db # d
                  => age'[kind][db] = age[kind][db] /\ lone'[kind][db] = lone[kind][db]
             /\ age'[k][d] = IF full /\ x.named THEN Interval ELSE age[k][d]
             /\ lone'[k][d] = IF x.raced \/ ~ x.named THEN lone[k][d] ELSE told
  BY <1>1, <1>4, <1>5
<1>7. Types'
  <2>1. age' \in [Kinds -> [Databases -> Ages]]
    <3>1. CASE full /\ x.named  BY <1>1, <1>2, <1>4, <1>5, <3>1
    <3>2. CASE ~ (full /\ x.named)  BY <1>4, <1>5, <3>2
    <3>3. QED  BY <3>1, <3>2
  <2>2. lone' \in [Kinds -> [Databases -> Outcome]]
    <3>1. CASE ~ (x.raced \/ ~ x.named)
      <4> DEFINE row == [lone[k] EXCEPT ![d] = told]
      <4>1. row \in [Databases -> Outcome]  BY <1>1, <1>2, <1>5
      <4>2. lone' = [lone EXCEPT ![k] = row]  BY <1>4, <3>1
      <4> HIDE DEF row
      <4>3. QED  BY <1>5, <4>1, <4>2
    <3>2. CASE x.raced \/ ~ x.named  BY <1>4, <1>5, <3>2
    <3>3. QED  BY <3>1, <3>2
  <2>3. QED  BY <1>3, <2>1, <2>2 DEF ThrottleInv, Types, TypedRest, ReaderOK
<1>8. ASSUME NEW s \in Readers, NEW kind, NEW db, Attempts(reader'[s], kind, db)
      PROVE  s # r /\ reader'[s] = reader[s]
  BY <1>3, <1>8 DEF Attempts
<1>9. RivalsAreRaced'  BY <1>8 DEF ThrottleInv, RivalsAreRaced
<1>10. x.named => Attempts(x, k, d)  BY <1>0, <1>1 DEF Attempts, x
<1>11. ASSUME NEW s \in Readers, Attempts(reader'[s], k, d), x.named
       PROVE  x.raced /\ reader[s].raced
  BY <1>1, <1>8, <1>10, <1>11 DEF ThrottleInv, RivalsAreRaced, x
<1>12. ASSUME NEW kind \in Kinds, NEW db \in Databases, NEW s \in Readers,
              Attempts(reader'[s], kind, db)
       PROVE  /\ lone'[kind][db] = lone[kind][db]
              /\ ~ reader[s].raced => age'[kind][db] = age[kind][db]
  <2>1. CASE kind # k \/ db # d  BY <1>6, <1>12, <2>1
  <2>2. CASE kind = k /\ db = d  BY <1>6, <1>11, <1>12, <2>2
  <2>3. QED  BY <2>1, <2>2
<1>13. NothingToldYet' /\ EntryIsOwn'
  <2>1. ASSUME NEW kind \in Kinds, NEW db \in Databases, NEW s \in Readers,
               Attempts(reader'[s], kind, db)
        PROVE  /\ lone'[kind][db] = NoOutcome
               /\ ~ reader'[s].raced /\ reader'[s].pc # "stamp" => age'[kind][db] = reader'[s].took
    <3>1. reader'[s] = reader[s] /\ Attempts(reader[s], kind, db)  BY <1>8, <2>1
    <3>2. lone[kind][db] = NoOutcome  BY <3>1 DEF ThrottleInv, NothingToldYet
    <3>3. ~ reader[s].raced /\ reader[s].pc # "stamp" => age[kind][db] = reader[s].took
      BY <3>1 DEF ThrottleInv, EntryIsOwn
    <3>4. QED  BY <1>12, <2>1, <3>1, <3>2, <3>3
  <2>2. QED  BY <2>1 DEF NothingToldYet, EntryIsOwn
<1>14. EntryTellsOutcome'
  <2>1. ASSUME NEW kind \in Kinds, NEW db \in Databases
        PROVE  /\ lone'[kind][db].full => age'[kind][db] = Interval
               /\ lone'[kind][db].full \/ age'[kind][db] =< lone'[kind][db].age
    <3>1. CASE kind # k \/ db # d
      BY <1>6, <2>1, <3>1 DEF ThrottleInv, EntryTellsOutcome
    <3>2. CASE kind = k /\ db = d /\ ~ x.named
      BY <1>1, <1>6, <3>2 DEF ThrottleInv, EntryTellsOutcome
    <3>3. CASE kind = k /\ db = d /\ x.named /\ x.raced
      <4>1. lone[k][d] = NoOutcome  BY <1>1, <1>10, <3>3 DEF ThrottleInv, NothingToldYet, x
      <4>2. age'[k][d] \in Ages  BY <1>1, <1>7 DEF Types
      <4>3. QED  BY <1>1, <1>6, <3>3, <4>1, <4>2, NoOutcomeIsTyped
    <3>4. CASE kind = k /\ db = d /\ x.named /\ ~ x.raced
      <4>1. age[k][d] = x.took  BY <1>1, <1>10, <3>4 DEF ThrottleInv, EntryIsOwn, x
      <4>2. x.took \in Nat  BY <1>1 DEF Reader, Ages
      <4>3. QED  BY <1>1, <1>2, <1>6, <3>4, <4>1, <4>2
    <3>5. QED  BY <3>1, <3>2, <3>3, <3>4
  <2>2. QED  BY <2>1 DEF EntryTellsOutcome
<1>15. QED  BY <1>7, <1>9, <1>13, <1>14 DEF ThrottleInv

----------------------------------------------------------------------------
(* One lemma per kind of step *)

LEMMA FaultsAreCounted ==
  ASSUME Types, NEW n \in Nat, Faults(n)
  PROVE  faults' \in 0..MaxFaults
BY ThrottleBoundsAssumption DEF Types, Faults

LEMMA ReaderFacts ==
  ASSUME ThrottleInv, NEW r \in Readers
  PROVE  /\ reader[r] \in Reader /\ ReaderOK(reader[r]) /\ Types
         /\ Kind(r) = KindOf(reader[r])
         /\ reader[r].pc \in Underway => Kind(r) \in Kinds
         /\ reader[r].db \in Databases /\ reader[r].conn \in Conns \ {"aborted"}
<1>1. ReaderOK(reader[r]) /\ Types  BY DEF ThrottleInv, Types
<1>2. reader[r] \in Reader /\ reader[r].conn # "aborted"  BY <1>1 DEF ReaderOK
<1>3. Kind(r) = KindOf(reader[r])  BY DEF Kind, KindOf
<1>4. QED  BY <1>1, <1>2, <1>3, KindOfReader DEF Reader

LEMMA BeginStep ==
  ASSUME ThrottleInv, NEW r \in Readers, NEW op \in Ops, NEW db \in Databases,
         NEW named \in BOOLEAN, NEW conn \in {"ok", "gone"}, Begin(r, op, db, named, conn)
  PROVE  ThrottleInv'
<1> DEFINE left == Len(Writes[op])
           y == [Idle EXCEPT !.pc = "check", !.op = op, !.db = db,
                             !.named = named, !.conn = conn, !.left = left]
           n == (IF conn = "gone" THEN 1 ELSE 0) + (IF named THEN 0 ELSE 1)
<1>1. left \in 1..2
  <2>1. op = "board" \/ op = "list" \/ op = "search"  BY DEF Ops
  <2>2. QED  BY <2>1 DEF Writes
<1>2. Idle \in Reader  BY IdleIsOK DEF ReaderOK
<1>3. n \in Nat /\ Faults(n)  BY DEF Begin
<1>4. reader' = [reader EXCEPT ![r] = y] /\ UNCHANGED <<backlog, age, lone>>  BY DEF Begin
<1> HIDE DEF n
<1>5. TypedRest  BY <1>3, <1>4, FaultsAreCounted DEF ThrottleInv, Types, TypedRest
<1>6. /\ y \in Reader /\ y.pc = "check" /\ y.conn = conn /\ y.op = op /\ y.left = left
  <2> HIDE DEF left
  <2>1. conn \in Conns /\ "check" \in PCs /\ left \in 0..2  BY <1>1 DEF Conns, PCs
  <2>2. QED  BY <1>2, <2>1 DEF Reader
<1>7. ReaderOK(y) /\ y.pc \notin Attempting
  <2>1. \A m \in 1..2 : m \in 1..m  OBVIOUS
  <2> HIDE DEF y
  <2>2. left \in 1..left
    <3> HIDE DEF left
    <3>1. QED  BY <1>1, <2>1
  <2>3. y.left \in 1..Len(Writes[y.op])  BY <1>6, <2>2, Zenon
  <2>4. QED  BY <1>6, <2>3 DEF ReaderOK, Attempting
<1> HIDE DEF y
<1>8. QED  BY <1>4, <1>5, <1>7, QuietStep

LEMMA SkipStep ==
  ASSUME ThrottleInv, NEW r \in Readers, Skip(r)
  PROVE  ThrottleInv'
<1> DEFINE y == PastWrite(r, reader[r].conn)
<1>1. /\ reader[r].pc = "check" /\ reader' = [reader EXCEPT ![r] = y]
      /\ UNCHANGED <<backlog, age, lone, faults>>
  BY DEF Skip
<1>2. ReaderOK(y) /\ y.pc \notin Attempting
  BY <1>1, ReaderFacts, PastWriteIsOK DEF Underway
<1> HIDE DEF y
<1>3. TypedRest  BY <1>1 DEF ThrottleInv, Types, TypedRest
<1>4. QED  BY <1>1, <1>2, <1>3, QuietStep

LEMMA StampStep ==
  ASSUME ThrottleInv, NEW r \in Readers, Stamp(r)
  PROVE  ThrottleInv'
<1> DEFINE x == reader[r]
           y == [x EXCEPT !.pc = "write"]
           row == [age[Kind(r)] EXCEPT ![x.db] = x.took]
<1>0. PICK k, d : k = Kind(r) /\ d = x.db  OBVIOUS
<1>1. /\ x.pc = "stamp" /\ age' = [age EXCEPT ![k][d] = x.took]
      /\ reader' = [reader EXCEPT ![r] = y] /\ UNCHANGED <<backlog, lone, faults>>
  BY <1>0 DEF Stamp, Stamped
<1>2. /\ x \in Reader /\ ReaderOK(x) /\ Types /\ k = KindOf(x) /\ k \in Kinds /\ d \in Databases
  BY <1>0, <1>1, ReaderFacts DEF Underway, Attempting
<1>3. x.named /\ x.took \in Ages  BY <1>1, <1>2 DEF ReaderOK, Reader
<1>4. /\ y \in Reader /\ y.pc = "write" /\ y.took = x.took /\ y.raced = x.raced
      /\ y.op = x.op /\ y.left = x.left /\ y.conn = x.conn /\ y.named = x.named /\ y.db = x.db
  BY <1>2 DEF Reader, PCs, Attempting
<1> HIDE DEF y, x
<1>5. ReaderOK(y)  BY <1>1, <1>2, <1>4 DEF ReaderOK, Underway, Attempting
<1>6. /\ reader'[r] = y /\ \A s \in Readers \ {r} : reader'[s] = reader[s]
      /\ age' \in [Kinds -> [Databases -> Ages]] /\ age'[k][d] = x.took
      /\ \A kind \in Kinds, db \in Databases :
           kind # k \/ db # d => age'[kind][db] = age[kind][db]
  BY <1>1, <1>2, <1>3 DEF Types
<1>7. Types'  BY <1>1, <1>2, <1>5, <1>6 DEF Types, ReaderOK
<1>8. \A kind, db : Attempts(y, kind, db) <=> Attempts(x, kind, db)
  BY <1>1, <1>4 DEF Attempts, KindOf, Attempting
<1>9. Attempts(x, k, d)  BY <1>0, <1>1, <1>2, <1>3 DEF Attempts, Attempting, x
<1>10. ASSUME NEW s \in Readers
       PROVE  /\ \A kind, db : Attempts(reader'[s], kind, db) <=> Attempts(reader[s], kind, db)
              /\ reader'[s].raced = reader[s].raced /\ reader'[s].took = reader[s].took
              /\ s # r => reader'[s] = reader[s]
  BY <1>4, <1>6, <1>8 DEF x
<1>11. RivalsAreRaced'  BY <1>10 DEF ThrottleInv, RivalsAreRaced
<1>12. NothingToldYet' /\ EntryIsOwn'
  <2>1. ASSUME NEW kind \in Kinds, NEW db \in Databases, NEW s \in Readers,
               Attempts(reader'[s], kind, db)
        PROVE  /\ lone'[kind][db] = NoOutcome
               /\ ~ reader'[s].raced /\ reader'[s].pc # "stamp" => age'[kind][db] = reader'[s].took
    <3>1. Attempts(reader[s], kind, db)  BY <1>10, <2>1
    <3>2. lone'[kind][db] = NoOutcome  BY <1>1, <3>1 DEF ThrottleInv, NothingToldYet
    <3>3. CASE s = r
      <4>1. kind = k /\ db = d  BY <1>9, <3>1, <3>3 DEF Attempts, x
      <4>2. QED  BY <1>4, <1>6, <3>2, <3>3, <4>1
    <3>4. CASE s # r /\ (kind # k \/ db # d)
      BY <1>6, <1>10, <3>1, <3>2, <3>4 DEF ThrottleInv, EntryIsOwn
    <3>5. CASE s # r /\ kind = k /\ db = d
      <4>1. reader[s].raced  BY <1>2, <1>9, <3>1, <3>5 DEF ThrottleInv, RivalsAreRaced, x
      <4>2. QED  BY <1>10, <3>2, <4>1
    <3>6. QED  BY <3>3, <3>4, <3>5
  <2>2. QED  BY <2>1 DEF NothingToldYet, EntryIsOwn
<1>13. EntryTellsOutcome'
  <2>1. lone[k][d] = NoOutcome  BY <1>2, <1>9 DEF ThrottleInv, NothingToldYet, x
  <2>2. ASSUME NEW kind \in Kinds, NEW db \in Databases
        PROVE  /\ lone'[kind][db].full => age'[kind][db] = Interval
               /\ lone'[kind][db].full \/ age'[kind][db] =< lone'[kind][db].age
    <3>1. CASE kind = k /\ db = d
      BY <1>1, <1>2, <1>6, <2>1, <3>1, NoOutcomeIsTyped
    <3>2. CASE kind # k \/ db # d
      BY <1>1, <1>6, <3>2 DEF ThrottleInv, EntryTellsOutcome
    <3>3. QED  BY <3>1, <3>2
  <2>3. QED  BY <2>2 DEF EntryTellsOutcome
<1>14. QED  BY <1>7, <1>11, <1>12, <1>13 DEF ThrottleInv

\* r has decided to write: what the attempt before it came to is past, and all
\* who attempt the same write are rivals now.
LEMMA GoAheadStep ==
  ASSUME ThrottleInv, NEW r \in Readers, GoAhead(r)
  PROVE  ThrottleInv'
<1> DEFINE x == reader[r]
           y == reader'[r]
           rivals == IF x.named THEN Rivals(r) ELSE {}
<1>0. PICK k, d : k = Kind(r) /\ d = x.db  OBVIOUS
<1>1. /\ x.pc = "check" /\ x \in Reader /\ ReaderOK(x) /\ Types
      /\ k = KindOf(x) /\ k \in Kinds /\ d \in Databases
  BY <1>0, ReaderFacts DEF GoAhead, Underway
<1>2. /\ UNCHANGED <<backlog, age, faults>>
      /\ lone' = IF x.named THEN [lone EXCEPT ![k][d] = NoOutcome] ELSE lone
  BY <1>0 DEF GoAhead
<1>3. reader' = [s \in Readers |->
         IF s = r THEN [x EXCEPT !.pc = IF x.named THEN "stamp" ELSE "write",
                                 !.raced = rivals # {}]
         ELSE [reader[s] EXCEPT !.raced = @ \/ s \in rivals]]
  BY DEF GoAhead
<1> HIDE DEF rivals
<1>4. /\ y \in Reader /\ y.pc = (IF x.named THEN "stamp" ELSE "write") /\ y.raced = (rivals # {})
      /\ y.op = x.op /\ y.left = x.left /\ y.conn = x.conn /\ y.named = x.named /\ y.db = x.db
  BY <1>1, <1>3 DEF Reader, PCs, Attempting
<1>5. ReaderOK(y)
  <2> HIDE DEF x, y
  <2>1. QED  BY <1>1, <1>4 DEF ReaderOK, Underway, Attempting
<1>6. ASSUME NEW s \in Readers, s # r
      PROVE  /\ ReaderOK(reader'[s]) /\ reader'[s].pc = reader[s].pc
             /\ reader'[s].took = reader[s].took
             /\ reader'[s].raced = (reader[s].raced \/ s \in rivals)
             /\ \A kind, db : Attempts(reader'[s], kind, db) <=> Attempts(reader[s], kind, db)
  <2> DEFINE z == reader[s]
             raced == z.raced \/ s \in rivals
  <2>1. z \in Reader /\ ReaderOK(z)  BY ReaderFacts
  <2>2. reader'[s] = [z EXCEPT !.raced = raced] /\ raced \in BOOLEAN
    BY <1>3, <1>6, <2>1 DEF Reader
  <2> HIDE DEF raced, z
  <2>3. /\ reader'[s] \in Reader /\ reader'[s].raced = raced /\ reader'[s].pc = z.pc
        /\ reader'[s].op = z.op /\ reader'[s].db = z.db /\ reader'[s].named = z.named
        /\ reader'[s].left = z.left /\ reader'[s].took = z.took
        /\ reader'[s].picked = z.picked /\ reader'[s].conn = z.conn
    BY <2>1, <2>2 DEF Reader
  <2>4. ReaderOK(reader'[s])  BY <2>1, <2>3 DEF ReaderOK, KindOf
  <2>5. \A kind, db : Attempts(reader'[s], kind, db) <=> Attempts(z, kind, db)
    BY <2>3 DEF Attempts, KindOf
  <2>6. QED  BY <2>3, <2>4, <2>5 DEF z, raced
<1>7. \A kind, db : Attempts(y, kind, db) <=> x.named /\ kind = k /\ db = d
  BY <1>0, <1>1, <1>4 DEF Attempts, KindOf, Attempting
<1>8. ASSUME NEW s \in Readers, s # r, x.named, Attempts(reader[s], k, d)
      PROVE  s \in rivals
  BY <1>0, <1>1, <1>8, ReaderFacts DEF rivals, Rivals, Attempts
<1>9. NoOutcome \in Outcome /\ age \in [Kinds -> [Databases -> Ages]]
      /\ lone \in [Kinds -> [Databases -> Outcome]]
  BY <1>1, NoOutcomeIsTyped DEF Types
<1>10. /\ lone' \in [Kinds -> [Databases -> Outcome]]
       /\ x.named => lone'[k][d] = NoOutcome
       /\ \A kind \in Kinds, db \in Databases :
            ~ x.named \/ kind # k \/ db # d => lone'[kind][db] = lone[kind][db]
  <2>1. CASE x.named
    <3> DEFINE row == [lone[k] EXCEPT ![d] = NoOutcome]
    <3>1. /\ row \in [Databases -> Outcome] /\ row[d] = NoOutcome
          /\ \A db \in Databases \ {d} : row[db] = lone[k][db]
      BY <1>1, <1>9
    <3>2. lone' = [lone EXCEPT ![k] = row]  BY <1>2, <2>1
    <3> HIDE DEF row
    <3>3. QED  BY <1>1, <1>9, <2>1, <3>1, <3>2
  <2>2. CASE ~ x.named  BY <1>2, <1>9, <2>2
  <2>3. QED  BY <2>1, <2>2
<1>11. Types'
  <2>1. \A s \in Readers : ReaderOK(reader'[s])  BY SMTT(30), <1>5, <1>6
  <2>2. reader' \in [Readers -> Reader]  BY <1>3, <2>1 DEF ReaderOK
  <2>3. QED  BY <1>1, <1>2, <1>10, <2>1, <2>2 DEF Types
<1>12. RivalsAreRaced'
  <2>1. ASSUME NEW kind \in Kinds, NEW db \in Databases, NEW s \in Readers, NEW t \in Readers,
               s # t, Attempts(reader'[s], kind, db), Attempts(reader'[t], kind, db)
        PROVE  reader'[s].raced
    <3>1. CASE s = r
      <4>1. x.named /\ Attempts(reader[t], k, d)  BY <1>6, <1>7, <2>1, <3>1
      <4>2. QED  BY <1>4, <1>8, <2>1, <3>1, <4>1
    <3>2. CASE t = r
      <4>1. x.named /\ Attempts(reader[s], k, d)  BY <1>6, <1>7, <2>1, <3>2
      <4>2. QED  BY <1>6, <1>8, <2>1, <3>2, <4>1
    <3>3. CASE s # r /\ t # r
      <4>1. Attempts(reader[s], kind, db) /\ Attempts(reader[t], kind, db)  BY <1>6, <2>1, <3>3
      <4>2. reader[s].raced  BY <2>1, <4>1 DEF ThrottleInv, RivalsAreRaced
      <4>3. QED  BY <1>6, <3>3, <4>2
    <3>4. QED  BY <3>1, <3>2, <3>3
  <2>2. QED  BY <2>1 DEF RivalsAreRaced
<1>13. NothingToldYet' /\ EntryIsOwn'
  <2>1. ASSUME NEW kind \in Kinds, NEW db \in Databases, NEW s \in Readers,
               Attempts(reader'[s], kind, db)
        PROVE  /\ lone'[kind][db] = NoOutcome
               /\ ~ reader'[s].raced /\ reader'[s].pc # "stamp" => age'[kind][db] = reader'[s].took
    <3>1. CASE s = r  BY <1>4, <1>7, <1>10, <2>1, <3>1
    <3>2. CASE s # r
      <4>1. Attempts(reader[s], kind, db)  BY <1>6, <2>1, <3>2
      <4>2. lone[kind][db] = NoOutcome  BY <4>1 DEF ThrottleInv, NothingToldYet
      <4>3. ~ reader[s].raced /\ reader[s].pc # "stamp" => age[kind][db] = reader[s].took
        BY <4>1 DEF ThrottleInv, EntryIsOwn
      <4>4. lone'[kind][db] = NoOutcome  BY <1>10, <4>2
      <4>5. QED  BY <1>2, <1>6, <3>2, <4>3, <4>4
    <3>3. QED  BY <3>1, <3>2
  <2>2. QED  BY <2>1 DEF NothingToldYet, EntryIsOwn
<1>14. EntryTellsOutcome'
  <2>1. ASSUME NEW kind \in Kinds, NEW db \in Databases
        PROVE  /\ lone'[kind][db].full => age'[kind][db] = Interval
               /\ lone'[kind][db].full \/ age'[kind][db] =< lone'[kind][db].age
    <3>1. CASE x.named /\ kind = k /\ db = d
      BY <1>2, <1>9, <1>10, <3>1, NoOutcomeIsTyped
    <3>2. CASE ~ (x.named /\ kind = k /\ db = d)
      BY <1>2, <1>10, <3>2 DEF ThrottleInv, EntryTellsOutcome
    <3>3. QED  BY <3>1, <3>2
  <2>2. QED  BY <2>1 DEF EntryTellsOutcome
<1>15. QED  BY <1>11, <1>12, <1>13, <1>14 DEF ThrottleInv

LEMMA WriteStep ==
  ASSUME ThrottleInv, NEW r \in Readers, Write(r)
  PROVE  ThrottleInv'
<1> DEFINE x == reader[r]
           due == backlog[Kind(r)][x.db]
<1>1. /\ x.pc = "write" /\ x.conn = "ok" /\ UNCHANGED <<backlog, age, faults>>
      /\ x \in Reader /\ ReaderOK(x) /\ Types /\ Kind(r) \in Kinds /\ x.db \in Databases
  BY ReaderFacts DEF Write, Underway, Attempting
<1>2. PICK picked \in Picks(r) :
         IF picked = {}
         THEN /\ Settle(r, FALSE)
              /\ reader' = [reader EXCEPT ![r] = PastWrite(r, @.conn)]
         ELSE /\ reader' = [reader EXCEPT ![r].pc = "commit", ![r].picked = picked]
              /\ UNCHANGED lone
  BY DEF Write
<1>3. TypedRest  BY <1>1 DEF Types, TypedRest
<1>4. CASE picked = {}
  <2> DEFINE y == PastWrite(r, x.conn)
  <2>1. ReaderOK(y) /\ y.pc \notin Attempting
    BY <1>1, PastWriteIsOK DEF Underway, Attempting, Conns
  <2>2. reader' = [reader EXCEPT ![r] = y] /\ Settle(r, FALSE) /\ age' = age
    BY <1>1, <1>2, <1>4
  <2> HIDE DEF y
  <2>3. QED  BY <1>1, <1>3, <2>1, <2>2, SettleStep DEF Attempting
<1>5. CASE picked # {}
  <2> DEFINE y == [x EXCEPT !.pc = "commit", !.picked = picked]
  <2>1. due \in SUBSET Rows  BY <1>1 DEF Types
  <2>2. picked \in SUBSET Rows
    <3> HIDE DEF due
    <3>1. Picks(r) \subseteq SUBSET due
      BY DEF Picks, kSubset, due
    <3>2. QED  BY <1>2, <2>1, <3>1
  <2>3. /\ y \in Reader /\ y.pc = "commit" /\ y.db = x.db /\ y.named = x.named /\ y.op = x.op
        /\ y.left = x.left /\ y.raced = x.raced /\ y.took = x.took /\ y.conn = x.conn
    BY <1>1, <2>2 DEF Reader, PCs, Attempting
  <2>4. reader' = [reader EXCEPT ![r] = y] /\ UNCHANGED <<age, lone>>  BY <1>1, <1>2, <1>5
  <2> HIDE DEF y, due
  <2>5. ReaderOK(y)
    <3> HIDE DEF x
    <3>1. QED  BY <1>1, <2>3 DEF ReaderOK, Underway, Attempting
  <2>6. QED  BY <1>1, <1>3, <2>3, <2>4, <2>5, AttemptStep DEF Attempting
<1>6. QED  BY <1>4, <1>5

\* Taking rows out of a backlog leaves a backlog.
LEMMA DealtWithIsTyped ==
  ASSUME Types, NEW r \in Readers, Kind(r) \in Kinds, reader[r].db \in Databases,
         backlog' = [backlog EXCEPT ![Kind(r)][reader[r].db] = @ \ reader[r].picked]
  PROVE  backlog' \in [Kinds -> [Databases -> SUBSET Rows]]
<1> DEFINE k == Kind(r)
           row == [backlog[k] EXCEPT ![reader[r].db] = @ \ reader[r].picked]
<1>1. row \in [Databases -> SUBSET Rows]  BY DEF Types
<1>2. backlog' = [backlog EXCEPT ![k] = row]  OBVIOUS
<1> HIDE DEF row
<1>3. QED  BY <1>1, <1>2 DEF Types

LEMMA CommitStep ==
  ASSUME ThrottleInv, NEW r \in Readers, Commit(r)
  PROVE  ThrottleInv'
<1> DEFINE x == reader[r]
<1>1. /\ x.pc = "commit" /\ UNCHANGED <<age, faults>>
      /\ x \in Reader /\ ReaderOK(x) /\ Types /\ Kind(r) \in Kinds /\ x.db \in Databases
      /\ Kind(r) = KindOf(x) /\ x.conn \in Conns \ {"aborted"}
  BY ReaderFacts DEF Commit, Underway, Attempting
<1>2. TypedRest  BY <1>1, DealtWithIsTyped DEF Commit, Types, TypedRest
<1>3. CASE FullBatch(r)
  <2> DEFINE y == [x EXCEPT !.pc = "rearm"]
  <2>1. reader' = [reader EXCEPT ![r] = y] /\ UNCHANGED <<age, lone>>
    BY <1>1, <1>3 DEF Commit, Remains
  <2>2. /\ y \in Reader /\ y.pc = "rearm" /\ y.db = x.db /\ y.named = x.named /\ y.op = x.op
        /\ y.left = x.left /\ y.raced = x.raced /\ y.took = x.took /\ y.conn = x.conn
        /\ y.picked = x.picked
    BY <1>1 DEF Reader, PCs, Attempting
  <2> HIDE DEF y
  <2>3. ReaderOK(y)
    <3>1. KindOf(x) = "tsvector_backfill" /\ Cardinality(x.picked) >= Batch
      BY <1>1, <1>3 DEF FullBatch
    <3> HIDE DEF x
    <3>2. QED  BY <1>1, <2>2, <3>1 DEF ReaderOK, Underway, Attempting, KindOf
  <2>4. QED  BY <1>1, <1>2, <2>1, <2>2, <2>3, AttemptStep DEF Attempting
<1>4. CASE ~ FullBatch(r)
  <2> DEFINE y == PastWrite(r, x.conn)
  <2>1. ReaderOK(y) /\ y.pc \notin Attempting
    BY <1>1, PastWriteIsOK DEF Underway, Attempting
  <2>2. reader' = [reader EXCEPT ![r] = y] /\ Settle(r, FALSE) /\ age' = age
    BY <1>1, <1>4 DEF Commit, Remains, FullBatch
  <2> HIDE DEF y
  <2>3. QED  BY <1>1, <1>2, <2>1, <2>2, SettleStep DEF Attempting
<1>5. QED  BY <1>3, <1>4

LEMMA RearmStep ==
  ASSUME ThrottleInv, NEW r \in Readers, Rearm(r)
  PROVE  ThrottleInv'
<1> DEFINE x == reader[r]
           y == PastWrite(r, x.conn)
<1>1. /\ x.pc = "rearm" /\ UNCHANGED <<backlog, faults>>
      /\ ReaderOK(x) /\ Types /\ Kind(r) = KindOf(x) /\ x.conn \in Conns \ {"aborted"}
  BY ReaderFacts DEF Rearm
<1>2. FullBatch(r)  BY <1>1 DEF FullBatch, ReaderOK
<1>3. /\ reader' = [reader EXCEPT ![r] = y] /\ Settle(r, TRUE)
      /\ age' = IF TRUE /\ x.named THEN [age EXCEPT ![Kind(r)][x.db] = Interval] ELSE age
  <2>1. FullBatch(r) = TRUE  BY <1>2 DEF FullBatch
  <2>2. Settle(r, TRUE)  BY <2>1 DEF Rearm
  <2>3. QED  BY <2>2 DEF Rearm
<1>4. ReaderOK(y) /\ y.pc \notin Attempting
  BY <1>1, PastWriteIsOK DEF Underway, Attempting
<1>5. TypedRest  BY <1>1 DEF Types, TypedRest
<1> HIDE DEF y
<1>6. QED  BY <1>1, <1>3, <1>4, <1>5, SettleStep DEF Attempting

\* The handler's rollback leaves no transaction that is aborted.
LEMMA WriteFailsStep ==
  ASSUME ThrottleInv, NEW r \in Readers, WriteFails(r)
  PROVE  ThrottleInv'
<1> DEFINE x == reader[r]
           y == PastWrite(r, x.conn)
           n == IF x.conn = "ok" THEN 1 ELSE 0
<1>1. /\ x.pc = "write" /\ UNCHANGED <<backlog, age>> /\ Faults(n) /\ Settle(r, FALSE)
      /\ reader' = [reader EXCEPT ![r] = y] /\ Types /\ x.conn \in Conns \ {"aborted"}
  BY ReaderFacts DEF WriteFails, RolledBack
<1>2. ReaderOK(y) /\ y.pc \notin Attempting
  BY <1>1, PastWriteIsOK DEF Underway, Attempting
<1>3. n \in Nat  OBVIOUS
<1> HIDE DEF y, n
<1>4. TypedRest  BY <1>1, <1>3, FaultsAreCounted DEF Types, TypedRest
<1>5. QED  BY <1>1, <1>2, <1>4, SettleStep DEF Attempting

LEMMA WriteFindsConnectionLostStep ==
  ASSUME ThrottleInv, NEW r \in Readers, WriteFindsConnectionLost(r)
  PROVE  ThrottleInv'
<1> DEFINE x == reader[r]
           y == PastWrite(r, "closed")
<1>1. /\ x.pc \in {"write", "commit"} /\ age' = age /\ Settle(r, FALSE)
      /\ reader' = [reader EXCEPT ![r] = y]
      /\ Types /\ Kind(r) \in Kinds /\ x.db \in Databases
  BY ReaderFacts DEF WriteFindsConnectionLost, Underway, Attempting
<1>2. ReaderOK(y) /\ y.pc \notin Attempting
  BY <1>1, PastWriteIsOK DEF Underway, Attempting, Conns
<1>3. TypedRest
  <2>1. backlog' \in [Kinds -> [Databases -> SUBSET Rows]]
    BY <1>1, DealtWithIsTyped DEF WriteFindsConnectionLost, Types
  <2>2. faults' \in 0..MaxFaults
    BY <1>1, FaultsAreCounted DEF WriteFindsConnectionLost, Types
  <2>3. QED  BY <2>1, <2>2 DEF TypedRest
<1> HIDE DEF y
<1>4. QED  BY <1>1, <1>2, <1>3, SettleStep DEF Attempting

LEMMA AnswerStep ==
  ASSUME ThrottleInv, NEW r \in Readers, Answer(r)
  PROVE  ThrottleInv'
<1>1. Idle.pc \notin Attempting  BY IdleIsOK DEF Attempting
<1>2. TypedRest  BY DEF Answer, ThrottleInv, Types, TypedRest
<1>3. QED  BY <1>1, <1>2, IdleIsOK, QuietStep DEF Answer

LEMMA GoStaleStep ==
  ASSUME ThrottleInv, NEW db \in Databases, NEW row \in Aging, GoStale(db, row)
  PROVE  ThrottleInv'
<1> DEFINE new == [backlog["stale_sweep"] EXCEPT ![db] = @ \cup {row}]
<1>1. new \in [Databases -> SUBSET Rows]
  BY ThrottleAgingAssumption DEF ThrottleInv, Types, Kinds
<1>2. backlog' = [backlog EXCEPT !["stale_sweep"] = new]  BY DEF GoStale
<1> HIDE DEF new
<1>3. backlog' \in [Kinds -> [Databases -> SUBSET Rows]]
  BY <1>1, <1>2 DEF ThrottleInv, Types
<1>4. UNCHANGED <<age, reader, lone, faults>>  BY DEF GoStale
<1>5. Types'  BY <1>3, <1>4 DEF ThrottleInv, Types
<1>6. /\ RivalsAreRaced' /\ NothingToldYet' /\ EntryIsOwn' /\ EntryTellsOutcome'
  BY <1>4 DEF ThrottleInv, RivalsAreRaced, NothingToldYet, EntryIsOwn, EntryTellsOutcome
<1>7. QED  BY <1>5, <1>6 DEF ThrottleInv

\* All ages grow together, and none beyond the window.
LEMMA TickStep ==
  ASSUME ThrottleInv, Tick
  PROVE  ThrottleInv'
<1>1. UNCHANGED <<backlog, faults>> /\ Types  BY DEF Tick, ThrottleInv
<1>2. ASSUME NEW kind \in Kinds, NEW db \in Databases
      PROVE  /\ age'[kind][db] = Older(age[kind][db]) /\ age'[kind][db] \in Ages
             /\ lone'[kind][db] \in Outcome /\ lone'[kind][db].full = lone[kind][db].full
             /\ lone'[kind][db].age = Older(lone[kind][db].age)
             /\ lone[kind][db] = NoOutcome => lone'[kind][db] = NoOutcome
  <2> DEFINE told == lone[kind][db]
             old == Older(told.age)
  <2>1. told \in Outcome /\ age[kind][db] \in Ages  BY <1>1 DEF Types
  <2>2. old \in Ages /\ Older(age[kind][db]) \in Ages  BY <2>1, OlderIsAnAge DEF Outcome
  <2>3. /\ age'[kind][db] = Older(age[kind][db]) /\ lone'[kind][db] = [told EXCEPT !.age = old]
    BY DEF Tick, AgesOlder
  <2>4. told = NoOutcome => old = told.age
    BY ThrottleIntervalAssumption DEF Older, NoOutcome
  <2> HIDE DEF told, old
  <2>5. [told EXCEPT !.age = old] \in Outcome  BY <2>1, <2>2 DEF Outcome
  <2>6. told = NoOutcome => [told EXCEPT !.age = old] = NoOutcome
    BY <2>4 DEF NoOutcome
  <2>7. /\ [told EXCEPT !.age = old].full = told.full /\ [told EXCEPT !.age = old].age = old
    BY <2>1 DEF Outcome
  <2>8. QED  BY <2>2, <2>3, <2>5, <2>6, <2>7 DEF told, old
<1>3. ASSUME NEW s \in Readers
      PROVE  /\ ReaderOK(reader'[s]) /\ reader'[s].pc = reader[s].pc
             /\ reader'[s].raced = reader[s].raced
             /\ reader[s].pc \in Attempting /\ reader[s].named
                  => reader'[s].took = Older(reader[s].took)
             /\ \A kind, db : Attempts(reader'[s], kind, db) <=> Attempts(reader[s], kind, db)
  <2> DEFINE z == reader[s]
             old == Older(z.took)
  <2>1. z \in Reader /\ ReaderOK(z)  BY <1>1 DEF Types
  <2>2. reader'[s] = IF z.pc \in Attempting /\ z.named THEN [z EXCEPT !.took = old] ELSE z
    BY DEF Tick, AgesOlder
  <2>3. old \in Ages  BY <2>1, OlderIsAnAge DEF Reader
  <2> HIDE DEF old, z
  <2>4. CASE z.pc \in Attempting /\ z.named
    <3>1. /\ reader'[s] \in Reader /\ reader'[s].raced = z.raced /\ reader'[s].pc = z.pc
          /\ reader'[s].op = z.op /\ reader'[s].db = z.db /\ reader'[s].named = z.named
          /\ reader'[s].left = z.left /\ reader'[s].took = old
          /\ reader'[s].picked = z.picked /\ reader'[s].conn = z.conn
      BY ZenonT(60), <2>1, <2>2, <2>3, <2>4 DEF Reader
    <3>2. ReaderOK(reader'[s])  BY <2>1, <3>1 DEF ReaderOK, KindOf
    <3>3. \A kind, db : Attempts(reader'[s], kind, db) <=> Attempts(z, kind, db)
      BY <3>1 DEF Attempts, KindOf
    <3>4. QED  BY <3>1, <3>2, <3>3 DEF z, old
  <2>5. CASE ~ (z.pc \in Attempting /\ z.named)
    <3>1. reader'[s] = z  BY <2>2, <2>5
    <3>2. QED  BY <2>1, <2>5, <3>1 DEF z
  <2>6. QED  BY <2>4, <2>5
<1>4. Types'
  <2>1. age' \in [Kinds -> [Databases -> Ages]]
    BY <1>2 DEF Tick, AgesOlder
  <2>2. lone' \in [Kinds -> [Databases -> Outcome]]
    BY <1>2 DEF Tick, AgesOlder
  <2>3. \A s \in Readers : ReaderOK(reader'[s])  BY <1>3
  <2>4. reader' \in [Readers -> Reader]  BY <2>3 DEF Tick, AgesOlder, ReaderOK
  <2>5. QED  BY <1>1, <2>1, <2>2, <2>3, <2>4 DEF Types
<1>5. RivalsAreRaced'  BY <1>3 DEF ThrottleInv, RivalsAreRaced
<1>6. NothingToldYet'  BY <1>2, <1>3 DEF ThrottleInv, NothingToldYet
<1>7. EntryIsOwn'
  <2>1. ASSUME NEW kind \in Kinds, NEW db \in Databases, NEW s \in Readers,
               Attempts(reader'[s], kind, db), ~ reader'[s].raced, reader'[s].pc # "stamp"
        PROVE  age'[kind][db] = reader'[s].took
    <3>1. Attempts(reader[s], kind, db) /\ ~ reader[s].raced /\ reader[s].pc # "stamp"
      BY <1>3, <2>1
    <3>2. age[kind][db] = reader[s].took  BY <3>1 DEF ThrottleInv, EntryIsOwn
    <3>3. reader'[s].took = Older(reader[s].took)  BY <1>3, <3>1 DEF Attempts
    <3>4. QED  BY <1>2, <3>2, <3>3
  <2>2. QED  BY <2>1 DEF EntryIsOwn
<1>8. EntryTellsOutcome'
  <2>1. ASSUME NEW kind \in Kinds, NEW db \in Databases
        PROVE  /\ lone'[kind][db].full => age'[kind][db] = Interval
               /\ lone'[kind][db].full \/ age'[kind][db] =< lone'[kind][db].age
    <3>1. age[kind][db] \in Ages /\ lone[kind][db].age \in Ages
      BY <1>1 DEF Types, Outcome
    <3>2. /\ lone[kind][db].full => age[kind][db] = Interval
          /\ lone[kind][db].full \/ age[kind][db] =< lone[kind][db].age
      BY DEF ThrottleInv, EntryTellsOutcome
    <3>3. \A m, n \in Ages : m =< n => Older(m) =< Older(n)
      BY ThrottleIntervalAssumption DEF Older, Ages
    <3>4. QED  BY <1>2, <3>1, <3>2, <3>3, OlderIsAnAge
  <2>2. QED  BY <2>1 DEF EntryTellsOutcome
<1>9. QED  BY <1>4, <1>5, <1>6, <1>7, <1>8 DEF ThrottleInv

\* The process begins again with nothing in its dictionary.
LEMMA EmptyDictionary ==
  ASSUME backlog \in [Kinds -> [Databases -> SUBSET Rows]], faults \in 0..MaxFaults,
         age = [kind \in Kinds |-> [db \in Databases |-> Interval]],
         reader = [r \in Readers |-> Idle],
         lone = [kind \in Kinds |-> [db \in Databases |-> NoOutcome]]
  PROVE  ThrottleInv
<1>1. Interval \in Ages  BY ThrottleIntervalAssumption DEF Ages
<1>2. Types  BY <1>1, IdleIsOK, NoOutcomeIsTyped DEF Types, ReaderOK
<1>3. \A r \in Readers : \A kind, db : ~ Attempts(reader[r], kind, db)
  BY IdleIsOK DEF Attempts, Attempting
<1>4. EntryTellsOutcome
  BY <1>1, NoOutcomeIsTyped DEF EntryTellsOutcome
<1>5. RivalsAreRaced /\ NothingToldYet /\ EntryIsOwn
  BY <1>3 DEF RivalsAreRaced, NothingToldYet, EntryIsOwn
<1>6. QED  BY <1>2, <1>4, <1>5 DEF ThrottleInv

LEMMA InitEstablishes == Init => ThrottleInv
<1> SUFFICES ASSUME Init PROVE ThrottleInv  OBVIOUS
<1>1. backlog \in Backlogs  BY DEF Init
<1>2. backlog \in [Kinds -> [Databases -> SUBSET Rows]]
  BY <1>1, ThrottleAgingAssumption DEF Backlogs, Kinds, Affected
<1>3. QED  BY <1>2, EmptyDictionary DEF Init

LEMMA RestartStep ==
  ASSUME ThrottleInv, Restart
  PROVE  ThrottleInv'
<1>1. backlog' = backlog /\ Faults(1)  BY DEF Restart
<1>2. /\ backlog' \in [Kinds -> [Databases -> SUBSET Rows]] /\ faults' \in 0..MaxFaults
  BY <1>1, FaultsAreCounted DEF ThrottleInv, Types
<1>3. Interval \in Ages  BY ThrottleIntervalAssumption DEF Ages
<1>4. /\ age' = [kind \in Kinds |-> [db \in Databases |-> Interval]]
      /\ reader' = [r \in Readers |-> Idle]
      /\ lone' = [kind \in Kinds |-> [db \in Databases |-> NoOutcome]]
  BY DEF Restart
<1>5. Types'  BY <1>2, <1>3, <1>4, IdleIsOK, NoOutcomeIsTyped DEF Types, ReaderOK
<1>6. \A r \in Readers : \A kind, db : ~ Attempts(reader'[r], kind, db)
  BY <1>4, IdleIsOK DEF Attempts, Attempting
<1>7. EntryTellsOutcome'
  BY <1>3, <1>4, NoOutcomeIsTyped DEF EntryTellsOutcome
<1>8. RivalsAreRaced' /\ NothingToldYet' /\ EntryIsOwn'
  BY <1>6 DEF RivalsAreRaced, NothingToldYet, EntryIsOwn
<1>9. QED  BY <1>5, <1>7, <1>8 DEF ThrottleInv

LEMMA ContinueStep ==
  ASSUME ThrottleInv, NEW r \in Readers, Continue(r)
  PROVE  ThrottleInv'
BY SkipStep, GoAheadStep, StampStep, WriteStep, CommitStep, RearmStep, WriteFailsStep,
   WriteFindsConnectionLostStep DEF Continue

LEMMA ThrottleStutter ==
  ASSUME ThrottleInv, UNCHANGED throttleVars
  PROVE  ThrottleInv'
BY DEF ThrottleInv, Types, RivalsAreRaced, NothingToldYet, EntryIsOwn, EntryTellsOutcome,
       throttleVars

LEMMA ThrottleStep == ThrottleInv /\ [Next]_throttleVars => ThrottleInv'
<1> SUFFICES ASSUME ThrottleInv, [Next]_throttleVars PROVE ThrottleInv'  OBVIOUS
<1>1. CASE \E r \in Readers : Continue(r) \/ Answer(r)  BY <1>1, ContinueStep, AnswerStep
<1>2. CASE \E r \in Readers, op \in Ops, db \in Databases, named \in BOOLEAN,
              conn \in {"ok", "gone"} : Begin(r, op, db, named, conn)
  BY <1>2, BeginStep
<1>3. CASE \E db \in Databases, row \in Aging : GoStale(db, row)  BY <1>3, GoStaleStep
<1>4. CASE Tick  BY <1>4, TickStep
<1>5. CASE Restart  BY <1>5, RestartStep
<1>6. CASE UNCHANGED throttleVars  BY <1>6, ThrottleStutter
<1>7. QED  BY <1>1, <1>2, <1>3, <1>4, <1>5, <1>6 DEF Next

THEOREM ThrottleInvariant == Spec => []ThrottleInv
<1>1. QED  BY InitEstablishes, ThrottleStep, PTL DEF Spec

----------------------------------------------------------------------------
(* What the throttle is for *)

LEMMA InvariantTypes == ThrottleInv => TypeOK
BY DEF ThrottleInv, Types, TypeOK

LEMMA InvariantConnections == ThrottleInv => ReadsFindNoAbortedTransaction
BY DEF ThrottleInv, Types, ReaderOK, ReadsFindNoAbortedTransaction

\* The step that OutcomeDecidesTheNextRead is about.
OutcomeDecides ==
  \A r \in Readers :
    reader[r].pc = "check" /\ reader[r].named =>
      LET last == lone[Kind(r)][reader[r].db]
      IN  /\ last.full => ~Throttled(r)
          /\ reader'[r].pc = "stamp" => last.full \/ last.age >= Interval

DecidesFor(r) ==
  reader[r].pc = "check" /\ reader[r].named =>
    LET last == lone[Kind(r)][reader[r].db]
    IN  /\ last.full => ~Throttled(r)
        /\ reader'[r].pc = "stamp" => last.full \/ last.age >= Interval

\* A reader whose place is left alone decides nothing.
LEMMA NotDeciding ==
  ASSUME ThrottleInv, NEW r \in Readers,
         \/ reader'[r].pc = "idle"
         \/ /\ reader'[r].pc = reader[r].pc
            /\ reader'[r].left = reader[r].left
  PROVE  DecidesFor(r)
<1> SUFFICES ASSUME reader[r].pc = "check" PROVE ~Throttled(r) /\ reader'[r].pc # "stamp"
  BY DEF DecidesFor
<1>1. ReaderOK(reader[r]) /\ reader[r].left \in Nat
  BY ReaderFacts, KindOfReader DEF Underway
<1>2. QED  BY <1>1 DEF Throttled

LEMMA ContinueDecides ==
  ASSUME ThrottleInv, NEW s \in Readers, Continue(s) \/ Answer(s), NEW r \in Readers
  PROVE  DecidesFor(r)
<1>1. reader \in [Readers -> Reader] /\ Types  BY DEF ThrottleInv, Types
<1>2. CASE r # s
  <2>1. CASE GoAhead(s)
    <3>1. \E raced : reader'[r] = [reader[r] EXCEPT !.raced = raced]
      BY <1>2, <2>1 DEF GoAhead
    <3>2. reader'[r].pc = reader[r].pc /\ reader'[r].left = reader[r].left
      BY <1>1, <3>1 DEF Reader
    <3>3. QED  BY <3>2, NotDeciding
  <2>2. CASE ~ GoAhead(s)
    <3>1. reader'[r] = reader[r]
      BY <1>1, <1>2, <2>2 DEF Continue, Answer, Skip, Stamp, Write, Commit, Rearm, WriteFails,
                              WriteFindsConnectionLost
    <3>2. QED  BY <3>1, NotDeciding
  <2>3. QED  BY <2>1, <2>2
<1>3. CASE r = s
  <2> SUFFICES ASSUME reader[r].pc = "check", reader[r].named PROVE DecidesFor(r)
    BY DEF DecidesFor
  <2> DEFINE x == reader[r]
             last == lone[Kind(r)][x.db]
  <2>1. /\ x \in Reader /\ Kind(r) \in Kinds /\ x.db \in Databases
    BY ReaderFacts DEF Underway
  <2>2. /\ last.full => age[Kind(r)][x.db] = Interval
        /\ last.full \/ age[Kind(r)][x.db] =< last.age
    BY <2>1 DEF ThrottleInv, EntryTellsOutcome
  <2>3. age[Kind(r)][x.db] \in Ages /\ last.age \in Ages
    BY <1>1, <2>1 DEF Types, Outcome
  <2>4. Due(r) <=> age[Kind(r)][x.db] >= Interval  BY DEF Due
  <2>5. Skip(r) \/ GoAhead(r)
    BY <1>3 DEF Continue, Answer, Stamp, Write, Commit, Rearm, WriteFails,
                WriteFindsConnectionLost
  <2>6. CASE Skip(r)
    <3>1. ~ Due(r) /\ reader'[r] = PastWrite(r, x.conn)  BY <1>1, <2>6 DEF Skip
    <3>2. ~ last.full
      BY <2>2, <2>3, <2>4, <3>1, ThrottleIntervalAssumption DEF Ages
    <3>3. reader'[r].pc # "stamp"
      BY <2>1, <3>1, PastWriteIsOK, ReaderFacts DEF Underway, Attempting
    <3>4. QED  BY <3>2, <3>3 DEF DecidesFor
  <2>7. CASE GoAhead(r)
    <3>1. reader'[r].pc = "stamp"
      BY <2>1, <2>7 DEF GoAhead, Reader
    <3>2. Due(r)  BY <2>7 DEF GoAhead
    <3>3. last.full \/ last.age >= Interval
      BY <2>2, <2>3, <2>4, <3>2, ThrottleIntervalAssumption DEF Ages
    <3>4. QED  BY <3>1, <3>3 DEF DecidesFor, Throttled
  <2>8. QED  BY <2>5, <2>6, <2>7
<1>4. QED  BY <1>2, <1>3

LEMMA NextDecides == ThrottleInv /\ [Next]_throttleVars => OutcomeDecides
<1> SUFFICES ASSUME ThrottleInv, [Next]_throttleVars, NEW r \in Readers PROVE DecidesFor(r)
  BY DEF OutcomeDecides, DecidesFor
<1>1. reader \in [Readers -> Reader]  BY DEF ThrottleInv, Types
<1>2. CASE \E s \in Readers : Continue(s) \/ Answer(s)  BY <1>2, ContinueDecides
<1>3. CASE \E s \in Readers, op \in Ops, db \in Databases, named \in BOOLEAN,
              conn \in {"ok", "gone"} : Begin(s, op, db, named, conn)
  <2>1. PICK s \in Readers, op \in Ops, db \in Databases, named \in BOOLEAN,
             conn \in {"ok", "gone"} : Begin(s, op, db, named, conn)
    BY <1>3
  <2>2. s # r => reader'[r] = reader[r]  BY <1>1, <2>1 DEF Begin
  <2>3. s = r => reader[r].pc = "idle"  BY <2>1 DEF Begin
  <2>4. QED  BY <2>2, <2>3, NotDeciding DEF DecidesFor
<1>4. CASE \/ \E db \in Databases, row \in Aging : GoStale(db, row)
           \/ UNCHANGED throttleVars
  BY <1>4, NotDeciding DEF GoStale, throttleVars
<1>5. CASE Tick
  <2>1. reader'[r] = reader[r] \/ reader'[r] = [reader[r] EXCEPT !.took = Older(@)]
    BY <1>5 DEF Tick, AgesOlder
  <2>2. reader'[r].pc = reader[r].pc /\ reader'[r].left = reader[r].left
    BY <1>1, <2>1 DEF Reader
  <2>3. QED  BY <2>2, NotDeciding
<1>6. CASE Restart
  <2>1. reader'[r] = Idle  BY <1>6 DEF Restart
  <2>2. reader'[r].pc = "idle"  BY <2>1, IdleIsOK
  <2>3. QED  BY <2>2, NotDeciding
<1>7. QED  BY <1>2, <1>3, <1>4, <1>5, <1>6 DEF Next

\* The throttle and its readers keep their types, for any number of readers.
THEOREM ThrottleTypes == Spec => []TypeOK
<1>1. QED  BY ThrottleInvariant, InvariantTypes, PTL

\* No failing write leaves its aborted transaction to the read behind it.
THEOREM NoAbortedTransaction == Spec => []ReadsFindNoAbortedTransaction
<1>1. QED  BY ThrottleInvariant, InvariantConnections, PTL

\* Whatever readers race around it, an attempt without rivals decides about
\* the next read: the entry is the attempt's own and agrees with what it came
\* to.
THEOREM OutcomeDecidesAlone == Spec => OutcomeDecidesTheNextRead
<1>1. ThrottleInv /\ [Next]_throttleVars => [OutcomeDecides]_throttleVars  BY NextDecides
<1>2. [][OutcomeDecides]_throttleVars <=> OutcomeDecidesTheNextRead
  BY DEF OutcomeDecides, OutcomeDecidesTheNextRead
<1>3. QED  BY <1>1, <1>2, ThrottleInvariant, PTL DEF Spec

----------------------------------------------------------------------------
(* The board: the invariant *)

BoardTypes ==
  /\ scenario \in Scenarios
  /\ size \in [Databases -> Sizes]
  /\ landed \in [Relations -> [Databases -> BOOLEAN]]
  /\ since \in [Relations -> [Databases -> Ages]]
  /\ cache \in [Relations -> [Databases -> Entry]]
  /\ page \in [Readers -> Page]

\* A page is only worked on when the writes are over.
PagesAreRead == \A r \in Readers : page[r].step # "none" => reader[r].pc = "read"

\* The steps of a board that asks the catalog.
Asking == {"lookup", "catalog", "store", "use"}

\* A column that grows one by one has had every size from what was counted up
\* to the size n that it has now.
Steady(p, n) == p.counted \in p.seen /\ \A m \in Sizes : p.counted =< m /\ m =< n => m \in p.seen

\* What the rows of the second statement bring beside the count.
Fits(p) == p.counted \in p.seen /\ (p.shown > p.counted => p.shown \in p.seen)

Told(p) ==
  /\ Count(p) \in p.seen
  /\ HasMore(p) => \E n \in p.seen : n > p.shown
  /\ p.view \in {"kanban", "compact"} => p.shown =< Count(p)

\* The page of a reader whose column has size n.
PageOK(p, n) ==
  /\ p.code = "ok" => p.step = "answered" /\ Told(p)
  /\ p.step \in {"none", "count", "rows"} => p.rel = "tickets"
  /\ p.step = "rows" => p.view \in {"list", "compact"}
  /\ p.step = "rows" /\ p.view = "compact" => Steady(p, n)
  /\ p.step \in Asking => p.view = "kanban"
  /\ p.step \in Asking /\ p.rel = "tickets" => Steady(p, n)
  /\ p.step \in Asking /\ p.rel = "ticket_context_links" => Fits(p)

\* What a page knows of a relation that is there since so many ticks, or is
\* not: presence is for good; what lands after it was found absent is younger
\* than the page's clock reading.
CatalogOK(p, there, ticks) ==
  /\ p.step \in {"store", "use"} /\ p.found => there
  /\ p.step = "store" /\ ~ p.found /\ there => ticks =< p.took

PagesAreTrue ==
  \A r \in Readers :
    LET db == reader[r].db
        rel == page[r].rel
    IN  PageOK(page[r], size[db]) /\ CatalogOK(page[r], landed[rel][db], since[rel][db])

PresenceIsTrue ==
  \A rel \in Relations, db \in Databases : cache[rel][db].present => landed[rel][db]

BoardInv == /\ ThrottleInv /\ BoardTypes /\ PagesAreRead /\ PagesAreTrue
            /\ PresenceIsTrue /\ AbsenceIsForgottenInTime

----------------------------------------------------------------------------
(* Three ways a step of a board can go *)

\* Nothing of the boards changes, and no reader with a page is disturbed.
LEMMA BackgroundStep ==
  ASSUME BoardInv, ThrottleInv', UNCHANGED boardVars,
         \A r \in Readers : reader[r].pc = "read" =>
           reader'[r].pc = "read" /\ reader'[r].db = reader[r].db
  PROVE  BoardInv'
<1>1. UNCHANGED <<scenario, size, landed, since, cache, page>>  BY DEF boardVars
<1>2. BoardTypes' /\ PresenceIsTrue' /\ AbsenceIsForgottenInTime'
  BY <1>1 DEF BoardInv, BoardTypes, PresenceIsTrue, AbsenceIsForgottenInTime
<1>3. ASSUME NEW r \in Readers
      PROVE  /\ page'[r].step # "none" => reader'[r].pc = "read"
             /\ PageOK(page[r], size[reader'[r].db])
             /\ CatalogOK(page[r], landed[page[r].rel][reader'[r].db],
                                   since[page[r].rel][reader'[r].db])
  <2>1. CASE reader[r].pc = "read"
    BY <1>1, <2>1 DEF BoardInv, PagesAreRead, PagesAreTrue
  <2>2. CASE reader[r].pc # "read"
    <3>1. page[r].step = "none"  BY <2>2 DEF BoardInv, PagesAreRead
    <3>2. PageOK(page[r], size[reader[r].db])  BY DEF BoardInv, PagesAreTrue
    <3>3. QED  BY <1>1, <3>1, <3>2 DEF PageOK, CatalogOK, Asking
  <2>3. QED  BY <2>1, <2>2
<1>4. PagesAreRead'  BY <1>3 DEF PagesAreRead
<1>5. PagesAreTrue'  BY <1>1, <1>3 DEF PagesAreTrue
<1>6. QED  BY <1>2, <1>4, <1>5 DEF BoardInv

\* One reader goes on with its page, and leaves the columns alone.
LEMMA PageStep ==
  ASSUME BoardInv, ThrottleInv', NEW r \in Readers, NEW q \in Page,
         page' = [page EXCEPT ![r] = q], UNCHANGED <<scenario, size, landed, since>>,
         \A s \in Readers \ {r} : reader'[s] = reader[s],
         q.step # "none" => reader'[r].pc = "read",
         PageOK(q, size[reader'[r].db]),
         CatalogOK(q, landed[q.rel][reader'[r].db], since[q.rel][reader'[r].db]),
         cache' \in [Relations -> [Databases -> Entry]],
         PresenceIsTrue', AbsenceIsForgottenInTime'
  PROVE  BoardInv'
<1>1. BoardTypes'  BY DEF BoardInv, BoardTypes
<1>2. page'[r] = q /\ \A s \in Readers \ {r} : page'[s] = page[s]
  BY DEF BoardInv, BoardTypes
<1>3. PagesAreRead'  BY <1>2 DEF BoardInv, PagesAreRead
<1>4. PagesAreTrue'
  <2>1. ASSUME NEW s \in Readers
        PROVE  /\ PageOK(page'[s], size[reader'[s].db])
               /\ CatalogOK(page'[s], landed[page'[s].rel][reader'[s].db],
                                      since[page'[s].rel][reader'[s].db])
    <3>1. CASE s = r  BY <1>2, <3>1
    <3>2. CASE s # r  BY <1>2, <3>2 DEF BoardInv, PagesAreTrue
    <3>3. QED  BY <3>1, <3>2
  <2>2. QED  BY <2>1 DEF PagesAreTrue
<1>5. QED  BY <1>1, <1>3, <1>4 DEF BoardInv

\* ... without touching the throttle or the caches.
LEMMA QuietPageStep ==
  ASSUME BoardInv, NEW r \in Readers, NEW q \in Page, reader[r].pc = "read",
         page' = [page EXCEPT ![r] = q],
         UNCHANGED <<throttleVars, scenario, size, landed, since, cache>>,
         PageOK(q, size[reader[r].db]),
         CatalogOK(q, landed[q.rel][reader[r].db], since[q.rel][reader[r].db])
  PROVE  BoardInv'
<1>1. reader' = reader /\ ThrottleInv'
  BY ThrottleStutter DEF BoardInv, throttleVars
<1>2. /\ cache' \in [Relations -> [Databases -> Entry]]
      /\ PresenceIsTrue' /\ AbsenceIsForgottenInTime'
  BY DEF BoardInv, BoardTypes, PresenceIsTrue, AbsenceIsForgottenInTime
<1>3. QED  BY <1>1, <1>2, PageStep

LEMMA BoardFacts ==
  ASSUME BoardInv, NEW r \in Readers
  PROVE  /\ page[r] \in Page /\ reader[r].db \in Databases /\ reader[r].op \in Ops
         /\ page[r].rel \in Relations
         /\ size[reader[r].db] \in Sizes /\ size[reader[r].db] \in Nat
         /\ page[r].step # "none" => reader[r].pc = "read"
         /\ PageOK(page[r], size[reader[r].db])
         /\ CatalogOK(page[r], landed[page[r].rel][reader[r].db],
                               since[page[r].rel][reader[r].db])
<1>1. page[r] \in Page  BY DEF BoardInv, BoardTypes
<1>2. reader[r] \in Reader  BY ReaderFacts DEF BoardInv
<1>3. reader[r].db \in Databases /\ reader[r].op \in Ops  BY <1>2 DEF Reader
<1>4. size[reader[r].db] \in Sizes  BY <1>3 DEF BoardInv, BoardTypes
<1>5. \A n \in Sizes : n \in Nat  BY BoardBoundsAssumption DEF Sizes
<1>6. page[r].rel \in Relations  BY <1>1 DEF Page
<1>7. QED  BY <1>1, <1>3, <1>4, <1>5, <1>6 DEF BoardInv, PagesAreRead, PagesAreTrue

----------------------------------------------------------------------------
(* Pages *)

LEMMA SizesAreNaturals ==
  Sizes \subseteq Nat /\ 0 \in Sizes /\ 0..Limit \subseteq Nat /\ 0 \in 0..Limit
BY BoardBoundsAssumption DEF Sizes

\* A page that has nothing to tell, between two attempts or after a failure.
LEMMA EmptyPage ==
  ASSUME NEW q, NEW stage \in {"none", "answered"}, NEW code \in Codes \ {"ok"},
         NEW view \in Views, NEW attempt \in 1..2,
         q = [NoPage EXCEPT !.step = stage, !.code = code, !.view = view, !.attempt = attempt]
  PROVE  /\ q \in Page /\ q.step = stage
         /\ \A n, there, ticks : PageOK(q, n) /\ CatalogOK(q, there, ticks)
<1>1. 0 \in Ages /\ stage \in Steps /\ "tickets" \in Relations
  BY ThrottleIntervalAssumption DEF Ages, Steps, Relations
<1>2. /\ q \in Page /\ q.step = stage /\ q.code = code /\ q.rel = "tickets"
  BY <1>1, SizesAreNaturals DEF NoPage, Page
<1>3. QED  BY <1>2 DEF PageOK, CatalogOK, Asking

LEMMA NoPageIsEmpty ==
  /\ NoPage \in Page /\ NoPage.step = "none"
  /\ \A n, there, ticks : PageOK(NoPage, n) /\ CatalogOK(NoPage, there, ticks)
<1>1. 0 \in Ages  BY ThrottleIntervalAssumption DEF Ages
<1>2. NoPage \in Page
  BY <1>1, SizesAreNaturals DEF NoPage, Page, Views, Codes, Steps, Relations
<1>3. QED  BY <1>2 DEF NoPage, PageOK, CatalogOK, Asking

LEMMA StartPageStep ==
  ASSUME BoardInv, NEW r \in Readers, NEW view \in Views, StartPage(r, view)
  PROVE  BoardInv'
<1> DEFINE p == page[r]
           stage == IF view = "list" THEN "rows" ELSE "count"
           q == [p EXCEPT !.step = stage, !.view = view]
<1>1. p \in Page /\ p.step = "none" /\ reader[r].pc = "read" /\ PageOK(p, size[reader[r].db])
  BY BoardFacts DEF StartPage
<1>2. page' = [page EXCEPT ![r] = q] BY DEF StartPage
<1>3. UNCHANGED <<throttleVars, scenario, size, landed, since, cache>>  BY DEF StartPage
<1>4. stage \in {"rows", "count"} /\ stage \in Steps /\ (stage = "rows" => view = "list")
  BY DEF Steps
<1> HIDE DEF stage, p
<1>5. /\ q \in Page /\ q.step = stage /\ q.view = view /\ q.rel = p.rel /\ q.code = p.code
  BY <1>1, <1>4 DEF Page
<1> HIDE DEF q
<1>6. PageOK(q, size[reader[r].db])
  BY <1>1, <1>4, <1>5 DEF PageOK, Asking
<1>7. CatalogOK(q, landed[q.rel][reader[r].db], since[q.rel][reader[r].db])
  BY <1>4, <1>5 DEF CatalogOK
<1>8. QED  BY <1>1, <1>2, <1>3, <1>5, <1>6, <1>7, QuietPageStep

\* What is counted is a size of the column, from which it moves on.
LEMMA CountRowsStep ==
  ASSUME BoardInv, NEW r \in Readers, CountRows(r)
  PROVE  BoardInv'
<1> DEFINE p == page[r]
           n == size[reader[r].db]
           seen == p.seen \cup {n}
           stage == CASE p.view = "kanban"  -> "lookup"
                      [] p.view = "compact" -> "rows"
                      [] OTHER              -> "answered"
           code == IF p.view \in {"summary", "list"} THEN "ok" ELSE p.code
           q == [p EXCEPT !.counted = n, !.seen = seen, !.step = stage, !.code = code]
<1>1. /\ p \in Page /\ p.step = "count" /\ reader[r].pc = "read" /\ PageOK(p, n)
      /\ n \in Sizes /\ n \in Nat
  BY BoardFacts DEF CountRows
<1>2. UNCHANGED <<throttleVars, scenario, size, landed, since, cache>>  BY DEF CountRows
<1>3. page' = [page EXCEPT ![r] = q]
  BY <1>1 DEF CountRows, Page
<1>4. /\ stage \in Steps /\ code \in Codes /\ seen \in SUBSET Sizes /\ n \in seen
      /\ p.view = "kanban" => stage = "lookup" /\ code = p.code
      /\ p.view = "compact" => stage = "rows" /\ code = p.code
      /\ p.view \in {"list", "summary"} => stage = "answered" /\ code = "ok"
  BY <1>1 DEF Page, Steps, Codes
<1>5. p.view \in Views /\ p.code # "ok" /\ p.rel = "tickets" /\ p.shown \in Nat
  BY <1>1, SizesAreNaturals DEF Page, PageOK
<1> HIDE DEF stage, code, seen, p, n
<1>6. /\ q \in Page /\ q.step = stage /\ q.view = p.view /\ q.rel = "tickets" /\ q.code = code
      /\ q.counted = n /\ q.seen = seen /\ q.shown = p.shown
  BY <1>1, <1>4, <1>5 DEF Page
<1> HIDE DEF q
<1>7. Steady(q, n)  BY <1>1, <1>4, <1>6, SizesAreNaturals DEF Steady
<1>8. p.view \in {"list", "summary"} => Told(q)
  <2>1. CASE p.view = "list"
    <3>1. Count(q) = n /\ (HasMore(q) => n > q.shown)
      <4>1. q.shown \in 0..Limit  BY <1>6 DEF Page
      <4>2. QED  BY <1>1, <1>6, <2>1, <4>1, BoardBoundsAssumption DEF Count, HasMore
    <3>2. QED  BY <1>4, <1>6, <2>1, <3>1 DEF Told
  <2>2. CASE p.view = "summary"
    <3>1. Count(q) = n /\ (HasMore(q) => n > q.shown)
      BY <1>1, <1>5, <1>6, <2>2 DEF Count, HasMore, BoardCount, Larger
    <3>2. QED  BY <1>4, <1>6, <2>2, <3>1 DEF Told
  <2>3. QED  BY <2>1, <2>2
<1>9. PageOK(q, n)
  <2>1. CASE p.view = "kanban"  BY <1>4, <1>5, <1>6, <1>7, <2>1 DEF PageOK
  <2>2. CASE p.view = "compact"  BY <1>4, <1>5, <1>6, <1>7, <2>2 DEF PageOK, Asking
  <2>3. CASE p.view \in {"list", "summary"}  BY <1>4, <1>6, <1>8, <2>3 DEF PageOK, Asking
  <2>4. QED  BY <1>5, <2>1, <2>2, <2>3 DEF Views
<1>10. CatalogOK(q, landed[q.rel][reader[r].db], since[q.rel][reader[r].db])
  BY <1>4, <1>5, <1>6 DEF CatalogOK, Views
<1>11. QED  BY <1>1, <1>2, <1>3, <1>6, <1>9, <1>10, QuietPageStep DEF n

\* Rows beyond the count are sizes that the column went through.
LEMMA SteadyFits ==
  ASSUME NEW p, NEW q, NEW n \in Nat, n \in Sizes, p.counted \in Nat, Steady(p, n),
         q.counted = p.counted, q.shown = Smaller(n, Limit), p.seen \subseteq q.seen
  PROVE  Fits(q) /\ q.shown \in 0..Limit
<1>1. q.shown \in 0..Limit /\ q.shown =< n /\ q.shown \in Sizes
  BY BoardBoundsAssumption DEF Smaller, Sizes
<1>2. QED  BY <1>1, BoardBoundsAssumption DEF Steady, Fits

\* A board that fits tells the truth.
LEMMA FitsIsTold ==
  ASSUME NEW p \in Page, Fits(p), p.view \in {"kanban", "compact"}
  PROVE  Told(p)
<1>1. p.counted \in Nat /\ p.shown \in Nat  BY SizesAreNaturals DEF Page
<1>2. Count(p) = Larger(p.counted, p.shown) /\ (HasMore(p) <=> Count(p) > p.shown)
  BY DEF Count, HasMore, BoardCount
<1>3. Count(p) \in p.seen /\ p.shown =< Count(p)  BY <1>1, <1>2 DEF Fits, Larger
<1>4. QED  BY <1>2, <1>3 DEF Told

LEMMA ReadRowsStep ==
  ASSUME BoardInv, NEW r \in Readers, ReadRows(r)
  PROVE  BoardInv'
<1> DEFINE p == page[r]
           n == size[reader[r].db]
           seen == p.seen \cup {n}
           shown == Smaller(n, Limit)
           stage == IF p.view = "list" THEN "count" ELSE "answered"
           code == IF p.view = "list" THEN p.code ELSE "ok"
           q == [p EXCEPT !.shown = shown, !.seen = seen, !.step = stage, !.code = code]
<1>1. /\ p \in Page /\ p.step = "rows" /\ reader[r].pc = "read" /\ PageOK(p, n)
      /\ n \in Sizes /\ n \in Nat
  BY BoardFacts DEF ReadRows
<1>2. UNCHANGED <<throttleVars, scenario, size, landed, since, cache>>  BY DEF ReadRows
<1>3. page' = [page EXCEPT ![r] = q]
  BY <1>1 DEF ReadRows, Page
<1>4. /\ stage \in Steps /\ code \in Codes /\ seen \in SUBSET Sizes /\ p.seen \subseteq seen
      /\ p.view = "list" => stage = "count" /\ code = p.code
      /\ p.view = "compact" => stage = "answered" /\ code = "ok"
      /\ shown \in 0..Limit
  BY <1>1, BoardBoundsAssumption DEF Page, Steps, Codes, Smaller
<1>5. p.view \in {"list", "compact"} /\ p.code # "ok" /\ p.rel = "tickets"
  BY <1>1 DEF PageOK
<1>6. p.counted \in Nat  BY <1>1, SizesAreNaturals DEF Page
<1> HIDE DEF stage, code, seen, shown, p, n
<1>7. /\ q \in Page /\ q.step = stage /\ q.view = p.view /\ q.rel = "tickets" /\ q.code = code
      /\ q.counted = p.counted /\ q.seen = seen /\ q.shown = shown
  BY <1>1, <1>4, <1>5 DEF Page
<1> HIDE DEF q
<1>8. p.view = "compact" => Told(q)
  <2> SUFFICES ASSUME p.view = "compact" PROVE Told(q)  OBVIOUS
  <2>1. Steady(p, n)  BY <1>1 DEF PageOK
  <2>2. Fits(q)  BY <1>1, <1>4, <1>6, <1>7, <2>1, SteadyFits DEF shown
  <2>3. QED  BY <1>7, <2>2, FitsIsTold
<1>9. PageOK(q, n)
  <2>1. CASE p.view = "list"  BY <1>4, <1>5, <1>7, <2>1 DEF PageOK, Asking
  <2>2. CASE p.view = "compact"  BY <1>4, <1>7, <1>8, <2>2 DEF PageOK, Asking
  <2>3. QED  BY <1>5, <2>1, <2>2
<1>10. CatalogOK(q, landed[q.rel][reader[r].db], since[q.rel][reader[r].db])
  BY <1>4, <1>5, <1>7 DEF CatalogOK
<1>11. QED  BY <1>1, <1>2, <1>3, <1>7, <1>9, <1>10, QuietPageStep DEF n

\* A step that only asks the catalog leaves what is known of the column.
LEMMA AskingPage ==
  ASSUME NEW p, NEW q, NEW n, PageOK(p, n), p.step \in Asking, q.step \in Asking,
         q.rel = p.rel, q.view = p.view, q.code = p.code, q.counted = p.counted,
         q.seen = p.seen, q.shown = p.shown
  PROVE  PageOK(q, n)
<1>1. p.code # "ok"  BY DEF PageOK, Asking
<1>2. QED  BY <1>1 DEF PageOK, Asking, Steady, Fits

LEMMA LookupStep ==
  ASSUME BoardInv, NEW r \in Readers, Lookup(r)
  PROVE  BoardInv'
<1> DEFINE p == page[r]
           db == reader[r].db
           known == cache[p.rel][db]
           hit == reader[r].named /\ Hit(known)
           stage == IF hit THEN "use" ELSE "catalog"
           found == IF hit THEN known.present ELSE p.found
           took == IF hit THEN p.took ELSE 0
           q == [p EXCEPT !.step = stage, !.found = found, !.took = took]
<1>1. /\ p \in Page /\ p.step = "lookup" /\ reader[r].pc = "read" /\ PageOK(p, size[db])
      /\ p.rel \in Relations /\ db \in Databases
  BY BoardFacts DEF Lookup
<1>2. UNCHANGED <<throttleVars, scenario, size, landed, since, cache>>  BY DEF Lookup
<1>3. page' = [page EXCEPT ![r] = q]
  <2>1. CASE hit  BY <1>1, <2>1 DEF Lookup, Remembered, Page
  <2>2. CASE ~ hit  BY <1>1, <2>2 DEF Lookup, Remembered, Page
  <2>3. QED  BY <2>1, <2>2
<1>4. known \in Entry /\ (known.present => landed[p.rel][db])
  BY <1>1 DEF BoardInv, BoardTypes, PresenceIsTrue
<1>5. /\ stage \in Asking /\ found \in BOOLEAN /\ took \in Ages
      /\ stage # "store" /\ (stage = "use" => found = known.present)
  BY <1>1, <1>4, ThrottleIntervalAssumption DEF Page, Entry, Asking, Ages
<1> HIDE DEF stage, found, took, known, hit, p, db
<1>6. /\ q \in Page /\ q.step = stage /\ q.found = found /\ q.rel = p.rel
      /\ q.view = p.view /\ q.code = p.code /\ q.counted = p.counted
      /\ q.seen = p.seen /\ q.shown = p.shown
  BY <1>1, <1>5 DEF Page, Asking, Steps
<1> HIDE DEF q
<1>7. PageOK(q, size[db])
  <2>1. p.step \in Asking  BY <1>1 DEF Asking
  <2>2. QED  BY <1>1, <1>5, <1>6, <2>1, AskingPage
<1>8. CatalogOK(q, landed[q.rel][db], since[q.rel][db])
  BY <1>4, <1>5, <1>6 DEF CatalogOK
<1>9. QED  BY <1>1, <1>2, <1>3, <1>6, <1>8, <1>7, QuietPageStep DEF db

LEMMA ReadCatalogStep ==
  ASSUME BoardInv, NEW r \in Readers, ReadCatalog(r)
  PROVE  BoardInv'
<1> DEFINE p == page[r]
           db == reader[r].db
           found == landed[p.rel][db]
           stage == IF reader[r].named THEN "store" ELSE "use"
           took == p.took
           q == [p EXCEPT !.step = stage, !.found = found, !.took = took]
<1>1. /\ p \in Page /\ p.step = "catalog" /\ reader[r].pc = "read" /\ PageOK(p, size[db])
      /\ p.rel \in Relations /\ db \in Databases
  BY BoardFacts DEF ReadCatalog
<1>2. UNCHANGED <<throttleVars, scenario, size, landed, since, cache>>  BY DEF ReadCatalog
<1>3. page' = [page EXCEPT ![r] = q]  BY <1>1 DEF ReadCatalog, Page
<1>4. stage \in {"store", "use"} /\ stage \in Asking /\ found \in BOOLEAN /\ took \in Ages
  BY <1>1 DEF BoardInv, BoardTypes, Asking, Page
<1>5. found = landed[p.rel][db]  OBVIOUS
<1> HIDE DEF stage, found, took, p, db
<1>6. /\ q \in Page /\ q.step = stage /\ q.found = found /\ q.rel = p.rel
      /\ q.view = p.view /\ q.code = p.code /\ q.counted = p.counted
      /\ q.seen = p.seen /\ q.shown = p.shown
  BY <1>1, <1>4 DEF Page, Asking, Steps
<1> HIDE DEF q
<1>7. PageOK(q, size[db])
  <2>1. p.step \in Asking  BY <1>1 DEF Asking
  <2>2. QED  BY <1>1, <1>4, <1>6, <2>1, AskingPage
<1>8. CatalogOK(q, landed[q.rel][db], since[q.rel][db])
  BY SMTT(30), <1>4, <1>5, <1>6 DEF CatalogOK
<1>9. QED  BY <1>1, <1>2, <1>3, <1>6, <1>8, <1>7, QuietPageStep DEF db

\* What is stored is true for good, or ends when the window after it is over.
LEMMA StoreStep ==
  ASSUME BoardInv, NEW r \in Readers, Store(r)
  PROVE  BoardInv'
<1> DEFINE p == page[r]
           d == reader[r].db
           k == p.rel
           entry == [present |-> p.found, left |-> IF p.found THEN 0 ELSE Interval - p.took]
           row == [cache[k] EXCEPT ![d] = entry]
           found == p.found
           q == [p EXCEPT !.step = "use", !.found = found, !.took = 0]
<1>1. /\ p \in Page /\ p.step = "store" /\ reader[r].pc = "read" /\ PageOK(p, size[d])
      /\ k \in Relations /\ d \in Databases
      /\ CatalogOK(p, landed[k][d], since[k][d])
  BY BoardFacts DEF Store
<1>2. UNCHANGED <<throttleVars, scenario, size, landed, since>>  BY DEF Store
<1>3. page' = [page EXCEPT ![r] = q] /\ cache' = [cache EXCEPT ![k] = row]
  BY <1>1 DEF Store, Deadline, Page
<1>4. p.found \in BOOLEAN /\ p.took \in Ages /\ 0 \in Ages
  BY <1>1, ThrottleIntervalAssumption DEF Page, Ages
<1>5. /\ entry \in Entry /\ entry.present = p.found
      /\ ~ p.found => entry.left = Interval - p.took
  BY <1>4, ThrottleIntervalAssumption DEF Entry, Ages
<1> HIDE DEF entry
<1>6. /\ row \in [Databases -> Entry] /\ row[d] = entry
      /\ \A db \in Databases \ {d} : row[db] = cache[k][db]
  BY <1>1, <1>5 DEF BoardInv, BoardTypes
<1> HIDE DEF row
<1>7. /\ cache' \in [Relations -> [Databases -> Entry]] /\ cache'[k][d] = entry
      /\ \A rel \in Relations, db \in Databases :
           rel # k \/ db # d => cache'[rel][db] = cache[rel][db]
  BY <1>1, <1>3, <1>6 DEF BoardInv, BoardTypes
<1>8. found \in BOOLEAN /\ found = p.found  BY <1>4
<1> HIDE DEF p, d, k, found
<1>9. /\ q \in Page /\ q.step = "use" /\ q.found = found /\ q.rel = p.rel
      /\ q.view = p.view /\ q.code = p.code /\ q.counted = p.counted
      /\ q.seen = p.seen /\ q.shown = p.shown
  BY <1>1, <1>4, <1>8 DEF Page, Steps
<1> HIDE DEF q
<1>10. PageOK(q, size[d])
  <2>1. p.step \in Asking /\ "use" \in Asking  BY <1>1 DEF Asking
  <2>2. QED  BY <1>1, <1>9, <2>1, AskingPage
<1>11. CatalogOK(q, landed[q.rel][d], since[q.rel][d])
  BY <1>1, <1>8, <1>9 DEF CatalogOK, k
<1>12. PresenceIsTrue'
  <2>1. ASSUME NEW rel \in Relations, NEW db \in Databases, cache'[rel][db].present
        PROVE  landed'[rel][db]
    <3>1. CASE rel = k /\ db = d  BY <1>1, <1>2, <1>5, <1>7, <2>1, <3>1 DEF CatalogOK
    <3>2. CASE rel # k \/ db # d
      BY <1>2, <1>7, <2>1, <3>2 DEF BoardInv, PresenceIsTrue
    <3>3. QED  BY <3>1, <3>2
  <2>2. QED  BY <2>1 DEF PresenceIsTrue
<1>13. AbsenceIsForgottenInTime'
  <2>1. ASSUME NEW rel \in Relations, NEW db \in Databases,
               landed'[rel][db], ~ cache'[rel][db].present, cache'[rel][db].left > 0
        PROVE  since'[rel][db] + cache'[rel][db].left =< Interval
    <3>1. CASE rel = k /\ db = d
      <4>1. ~ p.found /\ entry.left = Interval - p.took  BY <1>5, <1>7, <2>1, <3>1
      <4>2. since[k][d] =< p.took /\ since[k][d] \in Nat
        BY <1>1, <1>2, <2>1, <3>1, <4>1 DEF CatalogOK, BoardInv, BoardTypes, Ages
      <4>3. QED
        BY <1>2, <1>4, <1>7, <3>1, <4>1, <4>2, ThrottleIntervalAssumption DEF Ages
    <3>2. CASE rel # k \/ db # d
      BY <1>2, <1>7, <2>1, <3>2 DEF BoardInv, AbsenceIsForgottenInTime
    <3>3. QED  BY <3>1, <3>2
  <2>2. QED  BY <2>1 DEF AbsenceIsForgottenInTime
<1>14. ThrottleInv' /\ reader' = reader
  BY <1>2, ThrottleStutter DEF BoardInv, throttleVars
<1>15. QED
  BY <1>1, <1>2, <1>3, <1>7, <1>9, <1>11, <1>12, <1>13, <1>14, <1>10, PageStep DEF d

LEMMA UseColumnsStep ==
  ASSUME BoardInv, NEW r \in Readers, UseColumns(r)
  PROVE  BoardInv'
<1> DEFINE p == page[r]
           n == size[reader[r].db]
           seen == p.seen \cup {n}
           shown == Smaller(n, Limit)
           stage == IF n = 0 THEN "answered" ELSE "lookup"
           code == IF n = 0 THEN "ok" ELSE p.code
           rel == IF n = 0 THEN p.rel ELSE "ticket_context_links"
           q == [p EXCEPT !.shown = shown, !.seen = seen, !.found = FALSE,
                          !.step = stage, !.code = code, !.rel = rel]
<1>1. /\ p \in Page /\ p.step = "use" /\ reader[r].pc = "read" /\ PageOK(p, n)
      /\ n \in Sizes /\ n \in Nat /\ p.rel = "tickets"
  BY BoardFacts DEF UseColumns
<1>2. UNCHANGED <<throttleVars, scenario, size, landed, since, cache>>  BY DEF UseColumns
<1>3. page' = [page EXCEPT ![r] = q]
  <2>1. CASE n = 0  BY <1>1, <2>1 DEF UseColumns, Page
  <2>2. CASE n # 0  BY <1>1, <2>2 DEF UseColumns, Page
  <2>3. QED  BY <2>1, <2>2
<1>4. /\ stage \in Steps /\ code \in Codes /\ seen \in SUBSET Sizes /\ p.seen \subseteq seen
      /\ shown \in 0..Limit /\ rel \in Relations
      /\ stage = "answered" => code = "ok"
      /\ stage # "answered" => stage = "lookup" /\ code = p.code /\ rel = "ticket_context_links"
  BY <1>1, BoardBoundsAssumption DEF Page, Steps, Codes, Smaller, Relations
<1>5. p.view = "kanban" /\ p.code # "ok" /\ Steady(p, n)
  BY <1>1 DEF PageOK, Asking
<1>6. p.counted \in Nat  BY <1>1, SizesAreNaturals DEF Page
<1> HIDE DEF stage, code, seen, shown, rel, p, n
<1>7. /\ q \in Page /\ q.step = stage /\ q.view = p.view /\ q.rel = rel /\ q.code = code
      /\ q.counted = p.counted /\ q.seen = seen /\ q.shown = shown /\ ~ q.found
  BY <1>1, <1>4 DEF Page
<1> HIDE DEF q
<1>8. Fits(q)  BY <1>1, <1>4, <1>5, <1>6, <1>7, SteadyFits DEF shown
<1>9. Told(q)  BY <1>5, <1>7, <1>8, FitsIsTold
<1>10. PageOK(q, n)
  <2>1. CASE stage = "answered"  BY <1>4, <1>7, <1>9, <2>1 DEF PageOK, Asking
  <2>2. CASE stage # "answered"  BY <1>4, <1>5, <1>7, <1>8, <2>2 DEF PageOK, Asking
  <2>3. QED  BY <2>1, <2>2
<1>11. CatalogOK(q, landed[q.rel][reader[r].db], since[q.rel][reader[r].db])
  BY <1>4, <1>7 DEF CatalogOK
<1>12. QED  BY <1>1, <1>2, <1>3, <1>7, <1>10, <1>11, QuietPageStep DEF n

LEMMA UseContextLinksStep ==
  ASSUME BoardInv, NEW r \in Readers, UseContextLinks(r)
  PROVE  BoardInv'
<1> DEFINE p == page[r]
           n == size[reader[r].db]
           q == [p EXCEPT !.step = "answered", !.code = "ok", !.found = FALSE]
<1>1. /\ p \in Page /\ p.step = "use" /\ reader[r].pc = "read" /\ PageOK(p, n)
      /\ p.rel = "ticket_context_links"
  BY BoardFacts DEF UseContextLinks
<1>2. UNCHANGED <<throttleVars, scenario, size, landed, since, cache>>  BY DEF UseContextLinks
<1>3. page' = [page EXCEPT ![r] = q]  BY <1>1 DEF UseContextLinks, Page
<1>4. p.view = "kanban" /\ Fits(p)  BY <1>1 DEF PageOK, Asking
<1> HIDE DEF p, n
<1>5. /\ q \in Page /\ q.step = "answered" /\ q.view = p.view /\ q.rel = p.rel
      /\ q.counted = p.counted /\ q.seen = p.seen /\ q.shown = p.shown
  BY <1>1 DEF Page, Steps, Codes
<1> HIDE DEF q
<1>6. Fits(q)  BY <1>4, <1>5 DEF Fits
<1>7. Told(q)  BY <1>4, <1>5, <1>6, FitsIsTold
<1>8. PageOK(q, n)  BY <1>5, <1>7 DEF PageOK, Asking
<1>9. CatalogOK(q, landed[q.rel][reader[r].db], since[q.rel][reader[r].db])
  BY <1>5 DEF CatalogOK
<1>10. QED  BY <1>1, <1>2, <1>3, <1>5, <1>8, <1>9, QuietPageStep DEF n

LEMMA AnsweredIsEmpty ==
  ASSUME BoardInv, NEW r \in Readers, NEW code \in Codes \ {"ok"}
  PROVE  \E q \in Page :
           /\ Answered(r, code) = [page EXCEPT ![r] = q] /\ q.step = "answered"
           /\ \A n, there, ticks : PageOK(q, n) /\ CatalogOK(q, there, ticks)
<1> DEFINE view == page[r].view
           attempt == page[r].attempt
           q == [NoPage EXCEPT !.step = "answered", !.code = code, !.view = view,
                               !.attempt = attempt]
<1>1. view \in Views /\ attempt \in 1..2  BY BoardFacts DEF Page
<1>2. Answered(r, code) = [page EXCEPT ![r] = q]  BY DEF Answered
<1> HIDE DEF view, attempt
<1>3. /\ q \in Page /\ q.step = "answered"
      /\ \A n, there, ticks : PageOK(q, n) /\ CatalogOK(q, there, ticks)
  BY <1>1, EmptyPage
<1>4. QED  BY <1>2, <1>3

\* A fault that the throttle does not notice.
LEMMA FaultStep ==
  ASSUME ThrottleInv, NEW r \in Readers, reader[r].pc = "read", NEW n \in Nat, Faults(n),
         UNCHANGED <<backlog, age, reader, lone>>
  PROVE  ThrottleInv'
<1>1. ReaderOK(reader[r]) /\ Types  BY ReaderFacts
<1>2. TypedRest  BY <1>1, FaultsAreCounted DEF TypedRest, Types
<1>3. reader' = [reader EXCEPT ![r] = reader[r]]  BY <1>1 DEF Types
<1>4. reader[r].pc \notin Attempting  BY DEF Attempting
<1>5. QED  BY <1>1, <1>2, <1>3, <1>4, QuietStep

LEMMA CachesStay ==
  ASSUME BoardInv, UNCHANGED <<landed, since, cache>>
  PROVE  /\ cache' \in [Relations -> [Databases -> Entry]]
         /\ PresenceIsTrue' /\ AbsenceIsForgottenInTime'
BY DEF BoardInv, BoardTypes, PresenceIsTrue, AbsenceIsForgottenInTime

LEMMA StatementCancelledStep ==
  ASSUME BoardInv, NEW r \in Readers, StatementCancelled(r)
  PROVE  BoardInv'
<1>1. page[r].step # "none" /\ reader[r].pc = "read"
  BY BoardFacts DEF StatementCancelled, Statement
<1>2. /\ page' = Answered(r, "TOOL_DB_TIMEOUT") /\ Faults(1)
      /\ UNCHANGED <<backlog, age, reader, lone, scenario, size, landed, since, cache>>
  BY DEF StatementCancelled
<1>3. ThrottleInv'  BY <1>1, <1>2, FaultStep DEF BoardInv
<1>4. PICK q \in Page :
        /\ Answered(r, "TOOL_DB_TIMEOUT") = [page EXCEPT ![r] = q]
        /\ \A n, there, ticks : PageOK(q, n) /\ CatalogOK(q, there, ticks)
  BY AnsweredIsEmpty DEF Codes
<1>5. QED  BY <1>1, <1>2, <1>3, <1>4, CachesStay, PageStep

LEMMA CursorFindsConnectionClosedStep ==
  ASSUME BoardInv, NEW r \in Readers, CursorFindsConnectionClosed(r)
  PROVE  BoardInv'
<1>1. page[r].step # "none" /\ reader[r].pc = "read"
  BY BoardFacts DEF CursorFindsConnectionClosed
<1>2. /\ page' = Answered(r, "CONNECTION_DROPPED")
      /\ UNCHANGED <<throttleVars, scenario, size, landed, since, cache>>
  BY DEF CursorFindsConnectionClosed
<1>3. PICK q \in Page :
        /\ Answered(r, "CONNECTION_DROPPED") = [page EXCEPT ![r] = q]
        /\ \A n, there, ticks : PageOK(q, n) /\ CatalogOK(q, there, ticks)
  BY AnsweredIsEmpty DEF Codes
<1>4. QED  BY <1>1, <1>2, <1>3, QuietPageStep

\* The second attempt begins like a call, with a connection of its own.
LEMMA RetryStep ==
  ASSUME BoardInv, NEW r \in Readers, StatementFindsConnectionLost(r)
  PROVE  /\ BoardInv' /\ reader[r].pc = "read"
         /\ \A s \in Readers \ {r} : reader'[s] = reader[s]
<1> DEFINE n == IF reader[r].conn = "gone" THEN 0 ELSE 1
<1>1. page[r].step # "none" /\ reader[r].pc = "read" /\ page[r].view \in Views
  BY BoardFacts DEF StatementFindsConnectionLost, Statement, Page
<1>2. /\ Faults(n) /\ n \in Nat
      /\ UNCHANGED <<backlog, age, lone, scenario, size, landed, since, cache>>
  BY DEF StatementFindsConnectionLost
<1> HIDE DEF n
<1>3. CASE reader[r].op = "board" /\ page[r].attempt = 1
  <2> DEFINE x == reader[r]
             left == Len(Writes["board"])
             y == [x EXCEPT !.pc = "check", !.conn = "ok", !.named = TRUE, !.left = left]
             view == page[r].view
             q == [NoPage EXCEPT !.view = view, !.attempt = 2]
  <2>1. reader' = [reader EXCEPT ![r] = y] /\ page' = [page EXCEPT ![r] = q]
    <3>1. x \in Reader  BY ReaderFacts DEF BoardInv
    <3>2. QED  BY <1>3, <3>1 DEF StatementFindsConnectionLost, Reader
  <2>2. x \in Reader /\ x.op = "board" /\ Types /\ left = 1
    BY <1>3, ReaderFacts DEF BoardInv, Writes
  <2>3. ReaderOK(y) /\ y.pc \notin Attempting
    <3>1. 1 \in 0..2 /\ 1 \in 1..1 /\ Len(Writes["board"]) = 1  BY <2>2
    <3> HIDE DEF x, left
    <3>2. /\ y \in Reader /\ y.pc = "check" /\ y.op = "board" /\ y.left = 1 /\ y.conn = "ok"
      BY <2>2, <3>1 DEF Reader, PCs, Conns
    <3> HIDE DEF y
    <3>3. y.left \in 1..Len(Writes[y.op])  BY <3>1, <3>2
    <3>4. QED  BY <3>2, <3>3 DEF ReaderOK, Attempting
  <2>4. TypedRest  BY <1>2, <2>2, FaultsAreCounted DEF TypedRest, Types
  <2>5. /\ q \in Page /\ q.step = "none"
        /\ \A m, there, ticks : PageOK(q, m) /\ CatalogOK(q, there, ticks)
    <3>1. /\ NoPage \in Page /\ NoPage.step = "none" /\ NoPage.code = "none"
          /\ NoPage.rel = "tickets" /\ view \in Views
      BY <1>1, NoPageIsEmpty DEF NoPage
    <3> HIDE DEF view
    <3>2. PICK second : second = 2 /\ second \in 1..2  OBVIOUS
    <3>3. q = [NoPage EXCEPT !.view = view, !.attempt = second]  BY <3>2
    <3>4. /\ q \in Page /\ q.step = "none" /\ q.code = "none" /\ q.rel = "tickets"
      <4> HIDE DEF q
      <4>1. QED  BY <3>1, <3>2, <3>3 DEF Page
    <3>5. QED  BY <3>4 DEF PageOK, CatalogOK, Asking
  <2> HIDE DEF y, q, x
  <2>6. ThrottleInv'  BY <1>2, <2>1, <2>3, <2>4, QuietStep DEF BoardInv
  <2>7. \A s \in Readers \ {r} : reader'[s] = reader[s]
    BY <2>1, <2>2 DEF Types
  <2>8. BoardInv'  BY <1>2, <2>1, <2>5, <2>6, <2>7, CachesStay, PageStep
  <2>9. QED  BY <1>1, <2>7, <2>8
<1>4. CASE ~ (reader[r].op = "board" /\ page[r].attempt = 1)
  <2>1. page' = Answered(r, "CONNECTION_DROPPED") /\ reader' = reader
    BY <1>4 DEF StatementFindsConnectionLost
  <2>2. ThrottleInv'  BY <1>1, <1>2, <2>1, FaultStep DEF BoardInv
  <2>3. PICK q \in Page :
          /\ Answered(r, "CONNECTION_DROPPED") = [page EXCEPT ![r] = q]
          /\ \A m, there, ticks : PageOK(q, m) /\ CatalogOK(q, there, ticks)
    BY AnsweredIsEmpty DEF Codes
  <2>4. BoardInv'  BY <1>1, <1>2, <2>1, <2>2, <2>3, CachesStay, PageStep
  <2>5. QED  BY <1>1, <2>1, <2>4
<1>5. QED  BY <1>3, <1>4

LEMMA LeaveStep ==
  ASSUME BoardInv, NEW r \in Readers, Leave(r)
  PROVE  BoardInv'
<1>1. /\ Answer(r) /\ page' = [page EXCEPT ![r] = NoPage]
      /\ UNCHANGED <<scenario, size, landed, since, cache>>
  BY DEF Leave
<1>2. ThrottleInv'  BY <1>1, AnswerStep DEF BoardInv
<1>3. \A s \in Readers \ {r} : reader'[s] = reader[s]
  BY <1>1 DEF Answer, BoardInv, ThrottleInv, Types
<1>4. QED  BY <1>1, <1>2, <1>3, NoPageIsEmpty, CachesStay, PageStep

----------------------------------------------------------------------------
(* The world around *)

\* A write goes on before its read, and disturbs no page.
LEMMA WritesGoOn ==
  ASSUME BoardInv, NEW s \in Readers, Continue(s), UNCHANGED boardVars
  PROVE  BoardInv'
<1>1. ThrottleInv /\ ThrottleInv' /\ reader \in [Readers -> Reader]
  BY ContinueStep DEF BoardInv, ThrottleInv, Types
<1>2. ASSUME NEW r \in Readers, reader[r].pc = "read"
      PROVE  reader'[r].pc = "read" /\ reader'[r].db = reader[r].db
  <2>1. CASE GoAhead(s)
    <3>1. reader[s].pc = "check" /\ \E raced : reader'[r] = [reader[r] EXCEPT !.raced = raced]
      BY <1>2, <2>1 DEF GoAhead
    <3>2. QED  BY <1>1, <1>2, <3>1 DEF Reader
  <2>2. CASE ~ GoAhead(s)
    <3>1. s # r
      BY <1>2, <2>2 DEF Continue, Skip, Stamp, Write, Commit, Rearm, WriteFails,
                        WriteFindsConnectionLost
    <3>2. reader'[r] = reader[r]
      BY <1>1, <2>2, <3>1 DEF Continue, Skip, Stamp, Write, Commit, Rearm, WriteFails,
                              WriteFindsConnectionLost
    <3>3. QED  BY <1>2, <3>2
  <2>3. QED  BY <2>1, <2>2
<1>3. QED  BY <1>1, <1>2, BackgroundStep

LEMMA ArriveStep ==
  ASSUME BoardInv, NEW s \in Readers, NEW op \in Ops, NEW db \in Databases,
         NEW named \in BOOLEAN, NEW conn \in {"ok", "gone"}, Arrive(s, op, db, named, conn)
  PROVE  BoardInv'
<1>1. Begin(s, op, db, named, conn) /\ UNCHANGED boardVars  BY DEF Arrive
<1>2. ThrottleInv' /\ reader \in [Readers -> Reader]
  BY <1>1, BeginStep DEF BoardInv, ThrottleInv, Types
<1>3. \A r \in Readers : reader[r].pc = "read" => reader'[r] = reader[r]
  BY <1>1, <1>2 DEF Begin
<1>4. QED  BY <1>1, <1>2, <1>3, BackgroundStep

LEMMA AgeOutStep ==
  ASSUME BoardInv, NEW db \in Databases, NEW row \in Aging, AgeOut(db, row)
  PROVE  BoardInv'
<1>1. GoStale(db, row) /\ UNCHANGED boardVars  BY DEF AgeOut
<1>2. ThrottleInv' /\ reader' = reader  BY <1>1, GoStaleStep DEF BoardInv, GoStale
<1>3. QED  BY <1>1, <1>2, BackgroundStep

\* Tickets enter one by one, so no size between is left out.
LEMMA ResizeStep ==
  ASSUME BoardInv, NEW d \in Databases, Resize(d)
  PROVE  BoardInv'
<1>1. PICK n \in Sizes :
        /\ n =< size[d] + 1
        /\ size' = [size EXCEPT ![d] = n]
        /\ page' = [r \in Readers |-> IF Reading(r, d)
                                      THEN [page[r] EXCEPT !.seen = @ \cup {n}] ELSE page[r]]
  BY DEF Resize
<1>2. UNCHANGED <<throttleVars, scenario, landed, since, cache>>  BY DEF Resize
<1>3. ThrottleInv' /\ reader' = reader
  BY <1>2, ThrottleStutter DEF BoardInv, throttleVars
<1>4. size \in [Databases -> Sizes] /\ size[d] \in Nat /\ n \in Nat
  BY SizesAreNaturals DEF BoardInv, BoardTypes
<1>5. ASSUME NEW r \in Readers
      PROVE  /\ page'[r] \in Page /\ page'[r].step = page[r].step
             /\ PageOK(page'[r], size'[reader[r].db])
             /\ page'[r].found = page[r].found /\ page'[r].took = page[r].took
             /\ page'[r].rel = page[r].rel
  <2> DEFINE p == page[r]
             seen == p.seen \cup {n}
             q == [p EXCEPT !.seen = seen]
             m == size[reader[r].db]
  <2>1. /\ p \in Page /\ PageOK(p, m) /\ reader[r].db \in Databases
        /\ p.rel \in Relations /\ p.counted \in Nat /\ m \in Nat
    BY BoardFacts, SizesAreNaturals DEF Page
  <2>2. CASE Reading(r, d)
    <3>1. reader[r].db = d /\ p.step # "answered" /\ p.rel = "tickets" /\ page'[r] = q
      BY <1>1, <2>2 DEF Reading
    <3>2. size'[reader[r].db] = n /\ m = size[d]  BY <1>1, <1>4, <3>1
    <3>3. seen \in SUBSET Sizes  BY <2>1 DEF Page
    <3>4. n \in seen /\ p.seen \subseteq seen  OBVIOUS
    <3> HIDE DEF p, seen, m
    <3>5. /\ q \in Page /\ q.step = p.step /\ q.found = p.found /\ q.took = p.took
          /\ q.rel = p.rel /\ q.view = p.view /\ q.code = p.code /\ q.counted = p.counted
          /\ q.seen = seen
      BY <2>1, <3>3 DEF Page
    <3> HIDE DEF q
    <3>6. Steady(p, m) => Steady(q, n)
      <4> SUFFICES ASSUME Steady(p, m), NEW k \in Sizes, p.counted =< k, k =< n
                   PROVE  k \in seen
        BY <3>4, <3>5 DEF Steady
      <4>1. k \in Nat  BY SizesAreNaturals
      <4>2. k =< m \/ k = n  BY <1>1, <1>4, <2>1, <3>2, <4>1
      <4>3. QED  BY <3>4, <4>2 DEF Steady
    <3>7. PageOK(q, n)  BY <2>1, <3>1, <3>5, <3>6 DEF PageOK, Asking
    <3>8. QED  BY <3>1, <3>2, <3>5, <3>7 DEF p
  <2>3. CASE ~ Reading(r, d)
    <3>1. page'[r] = p  BY <1>1, <2>3
    <3>2. CASE reader[r].db = d
      <4>1. p.seen = {} \/ p.step = "answered" \/ p.rel # "tickets"
        BY <2>3, <3>2 DEF Reading
      <4> HIDE DEF p, m
      <4>2. Steady(p, m) => p.seen # {}  BY DEF Steady
      <4>3. PageOK(p, n)
        BY <2>1, <4>1, <4>2 DEF PageOK, Asking
      <4>4. size'[reader[r].db] = n  BY <1>1, <1>4, <3>2
      <4>5. QED  BY <2>1, <3>1, <4>3, <4>4 DEF p
    <3>3. CASE reader[r].db # d
      <4>1. size'[reader[r].db] = m  BY <1>1, <1>4, <2>1, <3>3
      <4> HIDE DEF m
      <4>2. QED  BY <2>1, <3>1, <4>1
    <3>4. QED  BY <3>2, <3>3
  <2>4. QED  BY <2>2, <2>3
<1>6. BoardTypes'
  <2>1. page' \in [Readers -> Page]  BY <1>1, <1>5
  <2>2. size' \in [Databases -> Sizes]  BY <1>1, <1>4
  <2>3. QED  BY <1>2, <2>1, <2>2 DEF BoardInv, BoardTypes
<1>7. PagesAreRead'  BY <1>3, <1>5 DEF BoardInv, PagesAreRead
<1>8. PagesAreTrue'
  <2>1. ASSUME NEW r \in Readers
        PROVE  CatalogOK(page'[r], landed[page'[r].rel][reader[r].db],
                                   since[page'[r].rel][reader[r].db])
    BY <1>5, BoardFacts DEF CatalogOK
  <2>2. QED  BY <1>2, <1>3, <1>5, <2>1 DEF PagesAreTrue
<1>9. QED  BY <1>2, <1>3, <1>6, <1>7, <1>8, CachesStay DEF BoardInv

\* What lands now is younger than every clock reading.
LEMMA MigrateStep ==
  ASSUME BoardInv, NEW k \in Relations, NEW d \in Databases, Migrate(k, d)
  PROVE  BoardInv'
<1> DEFINE there == [landed[k] EXCEPT ![d] = TRUE]
           ticks == [since[k] EXCEPT ![d] = 0]
<1>1. /\ UNCHANGED <<throttleVars, scenario, size, cache, page>>
      /\ landed' = [landed EXCEPT ![k] = there] /\ since' = [since EXCEPT ![k] = ticks]
  BY DEF Migrate
<1>2. /\ landed \in [Relations -> [Databases -> BOOLEAN]]
      /\ since \in [Relations -> [Databases -> Ages]] /\ 0 \in Ages
  BY ThrottleIntervalAssumption DEF BoardInv, BoardTypes, Ages
<1>3. /\ there \in [Databases -> BOOLEAN] /\ there[d] = TRUE
      /\ \A db \in Databases \ {d} : there[db] = landed[k][db]
      /\ ticks \in [Databases -> Ages] /\ ticks[d] = 0
      /\ \A db \in Databases \ {d} : ticks[db] = since[k][db]
  BY <1>2
<1> HIDE DEF there, ticks
<1>4. /\ landed' \in [Relations -> [Databases -> BOOLEAN]] /\ landed'[k][d] = TRUE
      /\ since' \in [Relations -> [Databases -> Ages]] /\ since'[k][d] = 0
      /\ \A rel \in Relations, db \in Databases :
           rel # k \/ db # d
             => landed'[rel][db] = landed[rel][db] /\ since'[rel][db] = since[rel][db]
  BY <1>1, <1>2, <1>3
<1>5. ThrottleInv' /\ reader' = reader
  BY <1>1, ThrottleStutter DEF BoardInv, throttleVars
<1>6. BoardTypes' /\ PagesAreRead'
  BY <1>1, <1>4, <1>5 DEF BoardInv, BoardTypes, PagesAreRead
<1>7. ASSUME NEW r \in Readers
      PROVE  /\ PageOK(page[r], size[reader[r].db])
             /\ CatalogOK(page[r], landed'[page[r].rel][reader[r].db],
                                   since'[page[r].rel][reader[r].db])
  <2> DEFINE p == page[r]
             db == reader[r].db
  <2>1. /\ p \in Page /\ p.rel \in Relations /\ db \in Databases /\ PageOK(p, size[db])
        /\ CatalogOK(p, landed[p.rel][db], since[p.rel][db])
    BY BoardFacts
  <2>2. p.took \in Ages /\ \A n \in Ages : 0 =< n
    BY <2>1, ThrottleIntervalAssumption DEF Page, Ages
  <2>3. CASE p.rel = k /\ db = d
    BY <1>4, <2>1, <2>2, <2>3 DEF CatalogOK
  <2>4. CASE p.rel # k \/ db # d
    <3>1. landed'[p.rel][db] = landed[p.rel][db] /\ since'[p.rel][db] = since[p.rel][db]
      BY <1>4, <2>1, <2>4
    <3>2. QED  BY <2>1, <3>1
  <2>5. QED  BY <2>3, <2>4
<1>8. PagesAreTrue'  BY <1>1, <1>5, <1>7 DEF PagesAreTrue
<1>9. PresenceIsTrue'
  <2>1. ASSUME NEW rel \in Relations, NEW db \in Databases, cache[rel][db].present
        PROVE  landed'[rel][db]
    <3>1. landed[rel][db]  BY <2>1 DEF BoardInv, PresenceIsTrue
    <3>2. CASE rel = k /\ db = d  BY <1>4, <3>2
    <3>3. CASE rel # k \/ db # d  BY <1>4, <3>1, <3>3
    <3>4. QED  BY <3>2, <3>3
  <2>2. QED  BY <1>1, <2>1 DEF PresenceIsTrue
<1>10. AbsenceIsForgottenInTime'
  <2>1. ASSUME NEW rel \in Relations, NEW db \in Databases,
               landed'[rel][db], ~ cache[rel][db].present, cache[rel][db].left > 0
        PROVE  since'[rel][db] + cache[rel][db].left =< Interval
    <3>1. cache[rel][db].left \in Ages  BY DEF BoardInv, BoardTypes, Entry
    <3>2. CASE rel = k /\ db = d
      BY <1>4, <3>1, <3>2, ThrottleIntervalAssumption DEF Ages
    <3>3. CASE rel # k \/ db # d
      BY <1>4, <2>1, <3>3 DEF BoardInv, AbsenceIsForgottenInTime
    <3>4. QED  BY <3>2, <3>3
  <2>2. QED  BY <1>1, <2>1 DEF AbsenceIsForgottenInTime
<1>11. QED  BY <1>5, <1>6, <1>8, <1>9, <1>10 DEF BoardInv

\* Clock readings, deadlines and what has landed grow older together.
LEMMA PassTimeStep ==
  ASSUME BoardInv, PassTime
  PROVE  BoardInv'
<1>1. Tick /\ UNCHANGED <<scenario, size, landed>>  BY DEF PassTime
<1>2. ThrottleInv' /\ reader \in [Readers -> Reader]
  BY <1>1, TickStep DEF BoardInv, ThrottleInv, Types
<1>3. \A m, n \in Ages : m =< n => Older(m) =< Older(n)
  BY ThrottleIntervalAssumption DEF Older, Ages
<1>4. ASSUME NEW r \in Readers
      PROVE  reader'[r].pc = reader[r].pc /\ reader'[r].db = reader[r].db
  <2>1. reader'[r] = reader[r] \/ reader'[r] = [reader[r] EXCEPT !.took = Older(@)]
    BY <1>1 DEF Tick, AgesOlder
  <2>2. QED  BY <1>2, <2>1 DEF Reader
<1>5. ASSUME NEW rel \in Relations, NEW db \in Databases
      PROVE  /\ since'[rel][db] = Older(since[rel][db]) /\ since'[rel][db] \in Ages
             /\ cache'[rel][db] \in Entry /\ cache'[rel][db].present = cache[rel][db].present
             /\ cache'[rel][db].left > 0 => cache'[rel][db].left + 1 = cache[rel][db].left
  <2> DEFINE entry == cache[rel][db]
             fewer == Larger(entry.left - 1, 0)
  <2>1. since[rel][db] \in Ages /\ entry \in Entry /\ entry.left \in Ages
    BY DEF BoardInv, BoardTypes, Entry
  <2>2. since'[rel][db] = Older(since[rel][db]) /\ cache'[rel][db] = [entry EXCEPT !.left = fewer]
    BY DEF PassTime
  <2>3. fewer \in Ages /\ (fewer > 0 => fewer + 1 = entry.left)
    BY <2>1, ThrottleIntervalAssumption DEF Larger, Ages
  <2> HIDE DEF fewer, entry
  <2>4. [entry EXCEPT !.left = fewer] \in Entry /\ [entry EXCEPT !.left = fewer].left = fewer
        /\ [entry EXCEPT !.left = fewer].present = entry.present
    BY <2>1, <2>3 DEF Entry
  <2>5. since'[rel][db] \in Ages  BY <2>1, <2>2, OlderIsAnAge
  <2>6. QED  BY <2>2, <2>3, <2>4, <2>5 DEF entry
<1>6. ASSUME NEW r \in Readers
      PROVE  /\ page'[r] \in Page /\ page'[r].step = page[r].step
             /\ PageOK(page'[r], size[reader[r].db])
             /\ CatalogOK(page'[r], landed[page'[r].rel][reader[r].db],
                                    since'[page'[r].rel][reader[r].db])
  <2> DEFINE p == page[r]
             db == reader[r].db
             older == Older(p.took)
             q == [p EXCEPT !.took = older]
             n == size[db]
  <2>1. /\ p \in Page /\ p.rel \in Relations /\ db \in Databases /\ PageOK(p, n)
        /\ CatalogOK(p, landed[p.rel][db], since[p.rel][db]) /\ p.took \in Ages
    BY BoardFacts DEF Page
  <2>2. page'[r] = IF p.step \in {"catalog", "store"} THEN q ELSE p
    BY DEF PassTime
  <2>3. since[p.rel][db] \in Ages /\ since'[p.rel][db] = Older(since[p.rel][db])
    BY <1>5, <2>1 DEF BoardInv, BoardTypes
  <2>4. older \in Ages /\ (since[p.rel][db] =< p.took => since'[p.rel][db] =< older)
    BY <1>3, <2>1, <2>3, OlderIsAnAge
  <2>5. CASE p.step \in {"catalog", "store"}
    <3> HIDE DEF p, older, n
    <3>1. /\ q \in Page /\ q.step = p.step /\ q.found = p.found /\ q.took = older
          /\ q.rel = p.rel /\ q.view = p.view /\ q.code = p.code /\ q.counted = p.counted
          /\ q.seen = p.seen /\ q.shown = p.shown
      BY <2>1, <2>4 DEF Page
    <3>2. page'[r] = q  BY <2>2, <2>5
    <3> HIDE DEF q
    <3>3. PageOK(q, n)
      <4>1. p.step \in Asking /\ q.step \in Asking  BY <2>5, <3>1 DEF Asking
      <4>2. QED  BY <2>1, <3>1, <4>1, AskingPage
    <3>4. CatalogOK(q, landed[q.rel][db], since'[q.rel][db])
      BY <2>1, <2>4, <3>1 DEF CatalogOK
    <3>5. QED  BY <3>1, <3>2, <3>3, <3>4 DEF p, n
  <2>6. CASE p.step \notin {"catalog", "store"}
    <3>1. page'[r] = p  BY <2>2, <2>6
    <3> HIDE DEF p, n
    <3>2. CatalogOK(p, landed[p.rel][db], since'[p.rel][db])
      BY <2>1, <2>6 DEF CatalogOK
    <3>3. QED  BY <2>1, <3>1, <3>2 DEF p, n
  <2>7. QED  BY <2>5, <2>6
<1>7. BoardTypes'
  <2>1. page' \in [Readers -> Page]  BY <1>6 DEF PassTime
  <2>2. since' \in [Relations -> [Databases -> Ages]]  BY <1>5 DEF PassTime
  <2>3. cache' \in [Relations -> [Databases -> Entry]]  BY <1>5 DEF PassTime
  <2>4. QED  BY <1>1, <2>1, <2>2, <2>3 DEF BoardInv, BoardTypes
<1>8. PagesAreRead'  BY <1>4, <1>6 DEF BoardInv, PagesAreRead
<1>9. PagesAreTrue'  BY <1>1, <1>4, <1>6 DEF PagesAreTrue
<1>10. PresenceIsTrue'  BY <1>1, <1>5 DEF BoardInv, PresenceIsTrue
<1>11. AbsenceIsForgottenInTime'
  <2>1. ASSUME NEW rel \in Relations, NEW db \in Databases,
               landed[rel][db], ~ cache'[rel][db].present, cache'[rel][db].left > 0
        PROVE  since'[rel][db] + cache'[rel][db].left =< Interval
    <3>1. /\ cache[rel][db].left \in Nat /\ since[rel][db] \in Ages
          /\ cache'[rel][db].left \in Nat
      BY <1>5 DEF BoardInv, BoardTypes, Entry, Ages
    <3>2. cache[rel][db].left = cache'[rel][db].left + 1  BY <1>5, <2>1
    <3>3. since[rel][db] + cache[rel][db].left =< Interval
      BY <1>5, <2>1, <3>1, <3>2 DEF BoardInv, AbsenceIsForgottenInTime
    <3>4. QED  BY <1>5, <3>1, <3>2, <3>3, OlderIsAnAge, ThrottleIntervalAssumption DEF Ages
  <2>2. QED  BY <1>1, <2>1 DEF AbsenceIsForgottenInTime
<1>12. QED  BY <1>2, <1>7, <1>8, <1>9, <1>10, <1>11 DEF BoardInv

LEMMA EmptiedIsTyped ==
  /\ Emptied \in [Relations -> [Databases -> Entry]]
  /\ \A rel \in Relations, db \in Databases :
       ~ Emptied[rel][db].present /\ ~ Emptied[rel][db].left > 0
<1>1. 0 \in Ages  BY ThrottleIntervalAssumption DEF Ages
<1>2. NoEntry \in Entry /\ ~ NoEntry.present /\ ~ NoEntry.left > 0
  BY <1>1 DEF NoEntry, Entry
<1>3. QED  BY <1>2 DEF Emptied

LEMMA RestartAllStep ==
  ASSUME BoardInv, RestartAll
  PROVE  BoardInv'
<1>1. /\ Restart /\ cache' = Emptied /\ page' = [r \in Readers |-> NoPage]
      /\ UNCHANGED <<scenario, size, landed, since>>
  BY DEF RestartAll
<1>2. ThrottleInv'  BY <1>1, RestartStep DEF BoardInv
<1>3. BoardTypes' /\ PagesAreRead' /\ PagesAreTrue'
  BY <1>1, NoPageIsEmpty, EmptiedIsTyped DEF BoardInv, BoardTypes, PagesAreRead, PagesAreTrue
<1>4. PresenceIsTrue' /\ AbsenceIsForgottenInTime'
  BY <1>1, EmptiedIsTyped DEF PresenceIsTrue, AbsenceIsForgottenInTime
<1>5. QED  BY <1>2, <1>3, <1>4 DEF BoardInv

----------------------------------------------------------------------------
(* The invariant holds *)

LEMMA BoardInitEstablishes == BoardInit => BoardInv
<1> SUFFICES ASSUME BoardInit PROVE BoardInv  OBVIOUS
<1>1. ThrottleInv  BY InitEstablishes DEF BoardInit
<1>2. /\ scenario \in Scenarios /\ size \in [Databases -> Sizes] /\ cache = Emptied
      /\ landed = [rel \in Relations |-> [db \in Databases |-> rel \notin scenario.pending]]
      /\ since = [rel \in Relations |-> [db \in Databases |-> Interval]]
      /\ page = [r \in Readers |-> NoPage]
  BY DEF BoardInit
<1>3. Interval \in Ages  BY ThrottleIntervalAssumption DEF Ages
<1>4. BoardTypes  BY <1>2, <1>3, NoPageIsEmpty, EmptiedIsTyped DEF BoardTypes
<1>5. PagesAreRead /\ PagesAreTrue  BY <1>2, NoPageIsEmpty DEF PagesAreRead, PagesAreTrue
<1>6. PresenceIsTrue /\ AbsenceIsForgottenInTime
  BY <1>2, EmptiedIsTyped DEF PresenceIsTrue, AbsenceIsForgottenInTime
<1>7. QED  BY <1>1, <1>4, <1>5, <1>6 DEF BoardInv

LEMMA ReadStep ==
  ASSUME BoardInv, NEW r \in Readers, Read(r)
  PROVE  BoardInv'
BY StartPageStep, CountRowsStep, ReadRowsStep, LookupStep, ReadCatalogStep, StoreStep,
   UseColumnsStep, UseContextLinksStep, StatementCancelledStep, RetryStep,
   CursorFindsConnectionClosedStep, LeaveStep DEF Read

LEMMA BoardStutter ==
  ASSUME BoardInv, UNCHANGED vars
  PROVE  BoardInv'
<1>1. ThrottleInv' /\ UNCHANGED boardVars /\ reader' = reader
  BY ThrottleStutter DEF BoardInv, vars, throttleVars
<1>2. QED  BY <1>1, BackgroundStep

LEMMA BoardStep == BoardInv /\ [BoardNext]_vars => BoardInv'
<1> SUFFICES ASSUME BoardInv, [BoardNext]_vars PROVE BoardInv'  OBVIOUS
<1>1. CASE \E r \in Readers : Continue(r) /\ UNCHANGED boardVars  BY <1>1, WritesGoOn
<1>2. CASE \E r \in Readers : Read(r)  BY <1>2, ReadStep
<1>3. CASE \E r \in Readers, op \in Ops, db \in Databases, named \in BOOLEAN,
              conn \in {"ok", "gone"} : Arrive(r, op, db, named, conn)
  BY <1>3, ArriveStep
<1>4. CASE \E db \in Databases, row \in Aging : AgeOut(db, row)  BY <1>4, AgeOutStep
<1>5. CASE \E db \in Databases : Resize(db)  BY <1>5, ResizeStep
<1>6. CASE \E rel \in Relations, db \in Databases : Migrate(rel, db)  BY <1>6, MigrateStep
<1>7. CASE PassTime  BY <1>7, PassTimeStep
<1>8. CASE RestartAll  BY <1>8, RestartAllStep
<1>9. CASE UNCHANGED vars  BY <1>9, BoardStutter
<1>10. QED  BY <1>1, <1>2, <1>3, <1>4, <1>5, <1>6, <1>7, <1>8, <1>9 DEF BoardNext

THEOREM BoardInvariant == BoardSpec => []BoardInv
<1>1. QED  BY BoardInitEstablishes, BoardStep, PTL DEF BoardSpec

----------------------------------------------------------------------------
(* What it is for *)

LEMMA InvariantBoardTypes == BoardInv => BoardTypeOK
BY InvariantTypes DEF BoardInv, BoardTypes, BoardTypeOK

LEMMA InvariantNames == BoardInv => StatementsNameWhatExists
BY DEF BoardInv, PagesAreTrue, CatalogOK, StatementsNameWhatExists

LEMMA InvariantCounts == BoardInv => CountWasTrue
BY DEF BoardInv, PagesAreTrue, PageOK, Told, CountWasTrue

LEMMA InvariantRest == BoardInv => AbsenceIsForgottenInTime /\ ReadsFindNoAbortedTransaction
BY InvariantConnections DEF BoardInv

\* A reader whose write is to be decided has no page to read.
LEMMA BoardDecides == BoardInv /\ [BoardNext]_vars => [OutcomeDecides]_throttleVars
<1> SUFFICES ASSUME BoardInv, [BoardNext]_vars PROVE [OutcomeDecides]_throttleVars  OBVIOUS
<1>1. ThrottleInv  BY DEF BoardInv
<1>2. [Next]_throttleVars => [OutcomeDecides]_throttleVars  BY <1>1, NextDecides
<1>3. CASE \E r \in Readers : Continue(r) /\ UNCHANGED boardVars  BY <1>2, <1>3 DEF Next
<1>4. CASE \E r \in Readers : Read(r)
  <2>1. PICK r \in Readers : Read(r)  BY <1>4
  <2>2. CASE StatementFindsConnectionLost(r)
    <3>1. ASSUME NEW s \in Readers PROVE DecidesFor(s)
      <4>1. CASE s = r  BY <2>2, <4>1, RetryStep DEF DecidesFor
      <4>2. CASE s # r  BY <1>1, <2>2, <4>2, RetryStep, NotDeciding
      <4>3. QED  BY <4>1, <4>2
    <3>2. QED  BY <3>1 DEF OutcomeDecides, DecidesFor
  <2>3. CASE StatementCancelled(r)
    <3>1. \A s \in Readers : DecidesFor(s)  BY <1>1, <2>3, NotDeciding DEF StatementCancelled
    <3>2. QED  BY <3>1 DEF OutcomeDecides, DecidesFor
  <2>4. CASE Leave(r)
    <3>1. Answer(r)  BY <2>4 DEF Leave
    <3>2. QED  BY <1>2, <3>1 DEF Next
  <2>5. CASE ~ (StatementFindsConnectionLost(r) \/ StatementCancelled(r) \/ Leave(r))
    <3>1. UNCHANGED throttleVars
      BY <2>1, <2>5 DEF Read, StartPage, CountRows, ReadRows, Lookup, ReadCatalog, Store,
                        UseColumns, UseContextLinks, CursorFindsConnectionClosed
    <3>2. QED  BY SMTT(30), <3>1
  <2>6. QED  BY <2>2, <2>3, <2>4, <2>5
<1>5. CASE \E r \in Readers, op \in Ops, db \in Databases, named \in BOOLEAN,
              conn \in {"ok", "gone"} : Arrive(r, op, db, named, conn)
  BY <1>2, <1>5 DEF Arrive, Next
<1>6. CASE \E db \in Databases, row \in Aging : AgeOut(db, row)
  BY <1>2, <1>6 DEF AgeOut, Next
<1>7. CASE PassTime  BY <1>2, <1>7 DEF PassTime, Next
<1>8. CASE RestartAll  BY <1>2, <1>8 DEF RestartAll, Next
<1>9. CASE \/ \E db \in Databases : Resize(db)
           \/ \E rel \in Relations, db \in Databases : Migrate(rel, db)
           \/ UNCHANGED vars
  BY <1>9 DEF Resize, Migrate, vars
<1>10. QED  BY <1>3, <1>4, <1>5, <1>6, <1>7, <1>8, <1>9 DEF BoardNext

\* The throttle, the columns, the caches and the pages keep their types.
THEOREM BoardTypesCorrect == BoardSpec => []BoardTypeOK
<1>1. QED  BY BoardInvariant, InvariantBoardTypes, PTL

\* A failing write leaves no aborted transaction to the board behind it, a
\* second attempt on a fresh connection included.
THEOREM BoardFindsNoAbortedTransaction == BoardSpec => []ReadsFindNoAbortedTransaction
<1>1. QED  BY BoardInvariant, InvariantRest, PTL

\* However the column moves between the two statements of a board, the count
\* it answers was true in between, and covers the rows beside it.
THEOREM CountsWereTrue == BoardSpec => []CountWasTrue
<1>1. QED  BY BoardInvariant, InvariantCounts, PTL

\* However slow the reader that found a relation absent, the process asks the
\* catalog again one window after the migration at the latest.
THEOREM AbsenceEnds == BoardSpec => []AbsenceIsForgottenInTime
<1>1. QED  BY BoardInvariant, InvariantRest, PTL

\* What a board names was there when it asked, and relations are only added.
THEOREM StatementsAreGood == BoardSpec => []StatementsNameWhatExists
<1>1. QED  BY BoardInvariant, InvariantNames, PTL

\* The boards leave the throttle's decisions as they are: a retried board is
\* one more reader to it.
THEOREM BoardOutcomeDecides == BoardSpec => OutcomeDecidesTheNextRead
<1>1. [][OutcomeDecides]_throttleVars <=> OutcomeDecidesTheNextRead
  BY DEF OutcomeDecides, OutcomeDecidesTheNextRead
<1>2. QED  BY <1>1, BoardInvariant, BoardDecides, PTL DEF BoardSpec

=============================================================================
