-------------------------- MODULE ClosePathProofs ---------------------------
(***************************************************************************)
(* Proofs about the path searches of ClosePath: for any targets they find  *)
(* a shortest walk where there is one, and what the tables of TicketTypes  *)
(* then make of a close.                                                   *)
(***************************************************************************)
EXTENDS ClosePath, FiniteSetTheorems, WellFoundedInduction, TLAPS

----------------------------------------------------------------------------
(* Induction over the naturals, from the theorem that they are well-founded *)

Less == { pair \in Nat \X Nat : pair[1] < pair[2] }

LEMMA LessIsWellFounded == IsWellFoundedOn(Less, Nat)
BY NatLessThanWellFounded DEF OpToRel, Less

LEMMA Least ==
  ASSUME NEW T \in SUBSET Nat, T # {}
  PROVE  \E n \in T : \A m \in T : n =< m
<1>1. PICK n \in T : \A m \in T : ~ (<<m, n>> \in Less)
  BY LessIsWellFounded, WFMin
<1>2. ASSUME NEW m \in T, ~ (n =< m) PROVE FALSE
  <2>1. <<m, n>> \in Nat \X Nat /\ <<m, n>>[1] < <<m, n>>[2]
    BY <1>2
  <2>2. <<m, n>> \in Less
    BY <2>1, Zenon DEF Less
  <2>3. QED  BY <1>1, <2>2
<1>3. QED  BY <1>2

LEMMA Induction ==
  ASSUME NEW T \in SUBSET Nat, 0 \in T, \A n \in T : n + 1 \in T
  PROVE  T = Nat
<1>1. SUFFICES ASSUME Nat \ T # {} PROVE FALSE
  OBVIOUS
<1>2. PICK n \in Nat \ T : \A m \in Nat \ T : n =< m
  BY <1>1, Least
<1>3. n # 0 /\ n - 1 \in Nat
  OBVIOUS
<1>4. n - 1 \in T
  BY <1>2, <1>3
<1>5. QED  BY <1>4

----------------------------------------------------------------------------
(* Facts about the tables of TicketTypes *)

Successors(type, status) == Range(NextStatuses(type, status))

LEMMA StatusesAreNames ==
  ASSUME NEW type \in TypeNames
  PROVE  AllStatuses(type) \subseteq StatusNames
BY DEF StatusNames

LEMMA RowsStayInType ==
  ASSUME NEW type \in TypeNames, NEW status
  PROVE  NextStatuses(type, status) \in Seq(AllStatuses(type))
<1>1. CASE type = "task"
  <2>1. AllStatuses(type) = {"backlog", "in_progress", "done", "cancelled", "parked"}
    BY <1>1 DEF AllStatuses, Transitions
  <2>2. CASE status = "backlog"
    <3>1. NextStatuses(type, status) = <<"in_progress", "done", "cancelled", "parked">>
      BY <1>1, <2>2 DEF NextStatuses, AllStatuses, Transitions
    <3>2. QED  BY <2>1, <3>1
  <2>3. CASE status = "in_progress"
    <3>1. NextStatuses(type, status) = <<"done", "cancelled", "backlog">>
      BY <1>1, <2>3 DEF NextStatuses, AllStatuses, Transitions
    <3>2. QED  BY <2>1, <3>1
  <2>4. CASE status = "done"
    <3>1. NextStatuses(type, status) = <<"backlog">>
      BY <1>1, <2>4 DEF NextStatuses, AllStatuses, Transitions
    <3>2. QED  BY <2>1, <3>1
  <2>5. CASE status = "cancelled"
    <3>1. NextStatuses(type, status) = <<"backlog">>
      BY <1>1, <2>5 DEF NextStatuses, AllStatuses, Transitions
    <3>2. QED  BY <2>1, <3>1
  <2>6. CASE status = "parked"
    <3>1. NextStatuses(type, status) = <<"backlog">>
      BY <1>1, <2>6 DEF NextStatuses, AllStatuses, Transitions
    <3>2. QED  BY <2>1, <3>1
  <2>7. CASE status \notin AllStatuses(type)
    BY <2>7 DEF NextStatuses
  <2>8. QED  BY <2>1, <2>2, <2>3, <2>4, <2>5, <2>6, <2>7
<1>2. CASE type = "bug"
  <2>1. AllStatuses(type) = {"triage", "confirmed", "in_progress", "resolved", "wont_fix", "parked"}
    BY <1>2 DEF AllStatuses, Transitions
  <2>2. CASE status = "triage"
    <3>1. NextStatuses(type, status) = <<"confirmed", "wont_fix", "parked">>
      BY <1>2, <2>2 DEF NextStatuses, AllStatuses, Transitions
    <3>2. QED  BY <2>1, <3>1
  <2>3. CASE status = "confirmed"
    <3>1. NextStatuses(type, status) = <<"in_progress", "parked">>
      BY <1>2, <2>3 DEF NextStatuses, AllStatuses, Transitions
    <3>2. QED  BY <2>1, <3>1
  <2>4. CASE status = "in_progress"
    <3>1. NextStatuses(type, status) = <<"resolved", "wont_fix", "confirmed">>
      BY <1>2, <2>4 DEF NextStatuses, AllStatuses, Transitions
    <3>2. QED  BY <2>1, <3>1
  <2>5. CASE status = "resolved"
    <3>1. NextStatuses(type, status) = <<"triage">>
      BY <1>2, <2>5 DEF NextStatuses, AllStatuses, Transitions
    <3>2. QED  BY <2>1, <3>1
  <2>6. CASE status = "wont_fix"
    <3>1. NextStatuses(type, status) = <<"triage">>
      BY <1>2, <2>6 DEF NextStatuses, AllStatuses, Transitions
    <3>2. QED  BY <2>1, <3>1
  <2>7. CASE status = "parked"
    <3>1. NextStatuses(type, status) = <<"triage", "confirmed">>
      BY <1>2, <2>7 DEF NextStatuses, AllStatuses, Transitions
    <3>2. QED  BY <2>1, <3>1
  <2>8. CASE status \notin AllStatuses(type)
    BY <2>8 DEF NextStatuses
  <2>9. QED  BY <2>1, <2>2, <2>3, <2>4, <2>5, <2>6, <2>7, <2>8
<1>3. CASE type = "feature"
  <2>1. AllStatuses(type) = {"proposed", "approved", "in_progress", "shipped", "rejected", "parked"}
    BY <1>3 DEF AllStatuses, Transitions
  <2>2. CASE status = "proposed"
    <3>1. NextStatuses(type, status) = <<"approved", "rejected", "parked">>
      BY <1>3, <2>2 DEF NextStatuses, AllStatuses, Transitions
    <3>2. QED  BY <2>1, <3>1
  <2>3. CASE status = "approved"
    <3>1. NextStatuses(type, status) = <<"in_progress", "parked">>
      BY <1>3, <2>3 DEF NextStatuses, AllStatuses, Transitions
    <3>2. QED  BY <2>1, <3>1
  <2>4. CASE status = "in_progress"
    <3>1. NextStatuses(type, status) = <<"shipped", "rejected", "approved">>
      BY <1>3, <2>4 DEF NextStatuses, AllStatuses, Transitions
    <3>2. QED  BY <2>1, <3>1
  <2>5. CASE status = "shipped"
    <3>1. NextStatuses(type, status) = <<"proposed">>
      BY <1>3, <2>5 DEF NextStatuses, AllStatuses, Transitions
    <3>2. QED  BY <2>1, <3>1
  <2>6. CASE status = "rejected"
    <3>1. NextStatuses(type, status) = <<"proposed">>
      BY <1>3, <2>6 DEF NextStatuses, AllStatuses, Transitions
    <3>2. QED  BY <2>1, <3>1
  <2>7. CASE status = "parked"
    <3>1. NextStatuses(type, status) = <<"proposed", "approved">>
      BY <1>3, <2>7 DEF NextStatuses, AllStatuses, Transitions
    <3>2. QED  BY <2>1, <3>1
  <2>8. CASE status \notin AllStatuses(type)
    BY <2>8 DEF NextStatuses
  <2>9. QED  BY <2>1, <2>2, <2>3, <2>4, <2>5, <2>6, <2>7, <2>8
<1>4. CASE type = "decision"
  <2>1. AllStatuses(type) = {"open", "decided", "deferred", "parked"}
    BY <1>4 DEF AllStatuses, Transitions
  <2>2. CASE status = "open"
    <3>1. NextStatuses(type, status) = <<"decided", "deferred", "parked">>
      BY <1>4, <2>2 DEF NextStatuses, AllStatuses, Transitions
    <3>2. QED  BY <2>1, <3>1
  <2>3. CASE status = "decided"
    <3>1. NextStatuses(type, status) = <<"open">>
      BY <1>4, <2>3 DEF NextStatuses, AllStatuses, Transitions
    <3>2. QED  BY <2>1, <3>1
  <2>4. CASE status = "deferred"
    <3>1. NextStatuses(type, status) = <<"open">>
      BY <1>4, <2>4 DEF NextStatuses, AllStatuses, Transitions
    <3>2. QED  BY <2>1, <3>1
  <2>5. CASE status = "parked"
    <3>1. NextStatuses(type, status) = <<"open">>
      BY <1>4, <2>5 DEF NextStatuses, AllStatuses, Transitions
    <3>2. QED  BY <2>1, <3>1
  <2>6. CASE status \notin AllStatuses(type)
    BY <2>6 DEF NextStatuses
  <2>7. QED  BY <2>1, <2>2, <2>3, <2>4, <2>5, <2>6
<1>5. QED  BY <1>1, <1>2, <1>3, <1>4 DEF TypeNames

\* A legal transition is a successor in the table.
LEMMA ValidIsSuccessor ==
  ASSUME NEW type \in TypeNames, NEW current, NEW target
  PROVE  ValidTransition(type, current, target) <=> target \in Successors(type, current)
BY DEF ValidTransition, Successors, NextStatuses, Range

LEMMA TransitionsStayInType ==
  ASSUME NEW type \in TypeNames, NEW current, NEW target,
         ValidTransition(type, current, target)
  PROVE  target \in AllStatuses(type)
BY ValidIsSuccessor, RowsStayInType DEF Successors, Range

LEMMA MovesNameStatuses ==
  ASSUME NEW type \in TypeNames, NEW current, NEW target,
         ValidTransition(type, current, target)
  PROVE  target \in StatusNames
BY TransitionsStayInType, StatusesAreNames

LEMMA SixAreFinite ==
  ASSUME NEW S, \E a, b, c, d, e, f : S = {a, b, c, d, e, f}
  PROVE  IsFiniteSet(S)
<1>0. PICK a, b, c, d, e, f : S = {a, b, c, d, e, f}
  OBVIOUS
<1>1. IsFiniteSet({a}) /\ IsFiniteSet({b}) /\ IsFiniteSet({c}) /\ IsFiniteSet({d})
      /\ IsFiniteSet({e}) /\ IsFiniteSet({f})
  BY FS_Singleton
<1>2. IsFiniteSet({a} \cup {b}) /\ IsFiniteSet({c} \cup {d}) /\ IsFiniteSet({e} \cup {f})
  BY <1>1, FS_Union
<1>3. IsFiniteSet(({a} \cup {b}) \cup ({c} \cup {d}))
  BY <1>2, FS_Union
<1>4. IsFiniteSet((({a} \cup {b}) \cup ({c} \cup {d})) \cup ({e} \cup {f}))
  BY <1>2, <1>3, FS_Union
<1>5. S = (({a} \cup {b}) \cup ({c} \cup {d})) \cup ({e} \cup {f})
  BY <1>0
<1>6. QED  BY <1>4, <1>5

LEMMA StatusesAreFinite ==
  ASSUME NEW type \in TypeNames
  PROVE  IsFiniteSet(AllStatuses(type)) /\ MaxPasses(type) \in Nat \ {0}
<1>1. \E a, b, c, d, e, f : AllStatuses(type) = {a, b, c, d, e, f}
  <2> USE DEF AllStatuses, Transitions
  <2>1. CASE type = "task"
    <3>1. AllStatuses(type) =
            {"backlog", "in_progress", "done", "cancelled", "parked", "parked"}
      BY <2>1
    <3>2. QED  BY <3>1
  <2>2. CASE type = "bug"
    <3>1. AllStatuses(type) =
            {"triage", "confirmed", "in_progress", "resolved", "wont_fix", "parked"}
      BY <2>2
    <3>2. QED  BY <3>1
  <2>3. CASE type = "feature"
    <3>1. AllStatuses(type) =
            {"proposed", "approved", "in_progress", "shipped", "rejected", "parked"}
      BY <2>3
    <3>2. QED  BY <3>1
  <2>4. CASE type = "decision"
    <3>1. AllStatuses(type) = {"open", "decided", "deferred", "parked", "parked", "parked"}
      BY <2>4
    <3>2. QED  BY <3>1
  <2>5. QED  BY <2>1, <2>2, <2>3, <2>4 DEF TypeNames
<1>2. IsFiniteSet(AllStatuses(type))
  BY <1>1, SixAreFinite
<1>3. QED  BY <1>2, FS_CardinalityType DEF MaxPasses

----------------------------------------------------------------------------
(* Layers: the statuses at most so many transitions away *)

\* What Within defines exists: the equations below determine it.
LEMMA WithinIs ==
  ASSUME NEW type \in TypeNames, NEW current
  PROVE  LET layer == Within(type, current)
         IN  /\ DOMAIN layer = 0..MaxPasses(type)
             /\ layer[0] = {current}
             /\ \A n \in 0..MaxPasses(type) - 1 :
                  layer[n + 1] = layer[n] \cup UNION { Successors(type, s) : s \in layer[n] }
<1> DEFINE next(k, nearer) == nearer \cup UNION { Range(NextStatuses(type, status)) : status \in nearer }
           T == { n \in Nat : \E h : h = [k \in 0..n |-> IF k = 0 THEN {current}
                                                          ELSE next(k, h[k - 1])] }
           m == MaxPasses(type)
<1>1. m \in Nat
  BY StatusesAreFinite
<1> HIDE DEF next, m
<1>2. 0 \in T
  <2> DEFINE h == [k \in 0..0 |-> {current}]
  <2>1. h = [k \in 0..0 |-> IF k = 0 THEN {current} ELSE next(k, h[k - 1])]
    OBVIOUS
  <2> HIDE DEF h
  <2>2. QED  BY <2>1
<1>3. ASSUME NEW n \in T PROVE n + 1 \in T
  <2>1. PICK h : h = [k \in 0..n |-> IF k = 0 THEN {current} ELSE next(k, h[k - 1])]
    OBVIOUS
  <2> DEFINE g == [k \in 0..n + 1 |-> IF k = n + 1 THEN next(n + 1, h[n]) ELSE h[k]]
  <2>2. ASSUME NEW k \in 0..n + 1
        PROVE  g[k] = IF k = 0 THEN {current} ELSE next(k, g[k - 1])
    <3>1. n \in Nat /\ \A j \in 0..n : h[j] = IF j = 0 THEN {current} ELSE next(j, h[j - 1])
      BY <2>1
    <3>2. CASE k = n + 1
      BY <3>1, <3>2
    <3>3. CASE k \in 0..n
      <4>1. g[k] = h[k] /\ (k # 0 => g[k - 1] = h[k - 1])
        BY <3>1, <3>3
      <4> HIDE DEF g
      <4>2. QED  BY <3>1, <3>3, <4>1
    <3>4. QED  BY <3>1, <3>2, <3>3
  <2>3. g = [k \in 0..n + 1 |-> IF k = 0 THEN {current} ELSE next(k, g[k - 1])]
    BY <2>2
  <2> HIDE DEF g
  <2>4. QED  BY <2>3
<1>4. m \in T
  <2>1. T = Nat
    <3> HIDE DEF T
    <3>1. T \in SUBSET Nat
      BY DEF T
    <3>2. QED  BY <1>2, <1>3, <3>1, Induction
  <2>2. QED  BY <1>1, <2>1
<1> DEFINE layer == Within(type, current)
<1>5. layer = CHOOSE h : h = [k \in 0..m |-> IF k = 0 THEN {current} ELSE next(k, h[k - 1])]
  BY DEF Within, next, m
<1>6. \E h : h = [k \in 0..m |-> IF k = 0 THEN {current} ELSE next(k, h[k - 1])]
  BY <1>4
<1> HIDE DEF layer
<1>7. layer = [k \in 0..m |-> IF k = 0 THEN {current} ELSE next(k, layer[k - 1])]
  BY <1>5, <1>6
<1>8. QED  BY <1>1, <1>7 DEF layer, next, m, Successors

LEMMA LayersGrow ==
  ASSUME NEW type \in TypeNames, NEW current, NEW n \in 0..MaxPasses(type), NEW m \in 0..n
  PROVE  Within(type, current)[m] \subseteq Within(type, current)[n]
<1> DEFINE layer == Within(type, current)
           last == MaxPasses(type)
           T == { k \in Nat : k =< last => \A j \in 0..k : layer[j] \subseteq layer[k] }
<1>1. last \in Nat
  BY StatusesAreFinite
<1>2. \A k \in 0..last - 1 : layer[k] \subseteq layer[k + 1]
  BY WithinIs
<1> HIDE DEF layer, last
<1>3. 0 \in T
  OBVIOUS
<1>4. ASSUME NEW k \in T PROVE k + 1 \in T
  <2>1. SUFFICES ASSUME k + 1 =< last, NEW j \in 0..k + 1 PROVE layer[j] \subseteq layer[k + 1]
    OBVIOUS
  <2>2. CASE j = k + 1
    BY <2>2
  <2>3. CASE j \in 0..k
    <3>1. k \in 0..last - 1
      BY <1>1, <2>1
    <3>2. layer[j] \subseteq layer[k]
      BY <2>1, <2>3, <1>1
    <3>3. QED  BY <1>2, <3>1, <3>2
  <2>4. QED  BY <2>2, <2>3
<1>5. T = Nat
  <2> HIDE DEF T
  <2>1. T \in SUBSET Nat
    BY DEF T
  <2>2. QED  BY <1>3, <1>4, <2>1, Induction
<1>6. QED  BY <1>1, <1>5 DEF layer, last

\* What holds the start and all successors of what it holds, holds every layer.
LEMMA ClosedHoldsLayers ==
  ASSUME NEW type \in TypeNames, NEW current, NEW V, current \in V,
         \A status \in V : Successors(type, status) \subseteq V,
         NEW n \in 0..MaxPasses(type)
  PROVE  Within(type, current)[n] \subseteq V
<1> DEFINE layer == Within(type, current)
           last == MaxPasses(type)
           T == { k \in Nat : k =< last => layer[k] \subseteq V }
<1>1. last \in Nat
  BY StatusesAreFinite
<1>2. /\ layer[0] = {current}
      /\ \A k \in 0..last - 1 :
           layer[k + 1] = layer[k] \cup UNION { Successors(type, s) : s \in layer[k] }
  BY WithinIs
<1> HIDE DEF layer, last
<1>3. 0 \in T
  BY <1>2
<1>4. ASSUME NEW k \in T PROVE k + 1 \in T
  <2>1. SUFFICES ASSUME k + 1 =< last PROVE layer[k + 1] \subseteq V
    OBVIOUS
  <2>2. k \in 0..last - 1 /\ layer[k] \subseteq V
    BY <1>1, <2>1
  <2>3. QED  BY <1>2, <2>2
<1>5. T = Nat
  <2> HIDE DEF T
  <2>1. T \in SUBSET Nat
    BY DEF T
  <2>2. QED  BY <1>3, <1>4, <2>1, Induction
<1>6. QED  BY <1>1, <1>5 DEF layer, last

----------------------------------------------------------------------------
(* The two loops: what the recursive functions of the search define exists *)

LEMMA VisitsAre ==
  ASSUME NEW S, NEW row \in Seq(S), NEW targets, NEW entry, NEW search
  PROVE  LET visits == Visits(targets, entry, row, search)
         IN  /\ DOMAIN visits = 0..Len(row)
             /\ visits[0] = {[search EXCEPT !.queue = Tail(@)]}
             /\ \A n \in 0..Len(row) - 1 :
                  visits[n + 1] = { Visit(targets, entry.path, row[n + 1], before) : before \in visits[n] }
<1> DEFINE taken == {[search EXCEPT !.queue = Tail(@)]}
           next(k, searches) == { Visit(targets, entry.path, row[k], before) : before \in searches }
           T == { n \in Nat : \E h : h = [k \in 0..n |-> IF k = 0 THEN taken
                                                          ELSE next(k, h[k - 1])] }
           m == Len(row)
<1>1. m \in Nat
  OBVIOUS
<1> HIDE DEF taken, next, m
<1>2. 0 \in T
  <2> DEFINE h == [k \in 0..0 |-> taken]
  <2>1. h = [k \in 0..0 |-> IF k = 0 THEN taken ELSE next(k, h[k - 1])]
    OBVIOUS
  <2> HIDE DEF h
  <2>2. QED  BY <2>1
<1>3. ASSUME NEW n \in T PROVE n + 1 \in T
  <2>1. PICK h : h = [k \in 0..n |-> IF k = 0 THEN taken ELSE next(k, h[k - 1])]
    OBVIOUS
  <2> DEFINE g == [k \in 0..n + 1 |-> IF k = n + 1 THEN next(n + 1, h[n]) ELSE h[k]]
  <2>2. ASSUME NEW k \in 0..n + 1
        PROVE  g[k] = IF k = 0 THEN taken ELSE next(k, g[k - 1])
    <3>1. n \in Nat /\ \A j \in 0..n : h[j] = IF j = 0 THEN taken ELSE next(j, h[j - 1])
      BY <2>1
    <3>2. CASE k = n + 1
      BY <3>1, <3>2
    <3>3. CASE k \in 0..n
      <4>1. g[k] = h[k] /\ (k # 0 => g[k - 1] = h[k - 1])
        BY <3>1, <3>3
      <4> HIDE DEF g
      <4>2. QED  BY <3>1, <3>3, <4>1
    <3>4. QED  BY <3>1, <3>2, <3>3
  <2>3. g = [k \in 0..n + 1 |-> IF k = 0 THEN taken ELSE next(k, g[k - 1])]
    BY <2>2
  <2> HIDE DEF g
  <2>4. QED  BY <2>3
<1>4. m \in T
  <2>1. T = Nat
    <3> HIDE DEF T
    <3>1. T \in SUBSET Nat
      BY DEF T
    <3>2. QED  BY <1>2, <1>3, <3>1, Induction
  <2>2. QED  BY <1>1, <2>1
<1> DEFINE visits == Visits(targets, entry, row, search)
<1>5. visits = CHOOSE h : h = [k \in 0..m |-> IF k = 0 THEN taken ELSE next(k, h[k - 1])]
  BY DEF Visits, taken, next, m
<1>6. \E h : h = [k \in 0..m |-> IF k = 0 THEN taken ELSE next(k, h[k - 1])]
  BY <1>4
<1> HIDE DEF visits
<1>7. visits = [k \in 0..m |-> IF k = 0 THEN taken ELSE next(k, visits[k - 1])]
  BY <1>5, <1>6
<1>8. /\ DOMAIN visits = 0..m /\ visits[0] = taken
      /\ \A n \in 0..m - 1 : visits[n + 1] = next(n + 1, visits[n])
  BY <1>1, <1>7
<1>9. QED  BY <1>8 DEF visits, taken, next, m

LEMMA PassesAre ==
  ASSUME NEW type \in TypeNames, NEW current, NEW targets
  PROVE  LET passes == Passes(type, current, targets)
         IN  /\ DOMAIN passes = 0..MaxPasses(type)
             /\ passes[0] = {StartOfSearch(current)}
             /\ \A n \in 0..MaxPasses(type) - 1 :
                  passes[n + 1] = { Expand(type, targets, before) : before \in passes[n] }
<1> DEFINE next(k, searches) == { Expand(type, targets, before) : before \in searches }
           T == { n \in Nat : \E h : h = [k \in 0..n |-> IF k = 0 THEN {StartOfSearch(current)}
                                                          ELSE next(k, h[k - 1])] }
           m == MaxPasses(type)
<1>1. m \in Nat
  BY StatusesAreFinite
<1> HIDE DEF next, m
<1>2. 0 \in T
  <2> DEFINE h == [k \in 0..0 |-> {StartOfSearch(current)}]
  <2>1. h = [k \in 0..0 |-> IF k = 0 THEN {StartOfSearch(current)} ELSE next(k, h[k - 1])]
    OBVIOUS
  <2> HIDE DEF h
  <2>2. QED  BY <2>1
<1>3. ASSUME NEW n \in T PROVE n + 1 \in T
  <2>1. PICK h : h = [k \in 0..n |-> IF k = 0 THEN {StartOfSearch(current)} ELSE next(k, h[k - 1])]
    OBVIOUS
  <2> DEFINE g == [k \in 0..n + 1 |-> IF k = n + 1 THEN next(n + 1, h[n]) ELSE h[k]]
  <2>2. ASSUME NEW k \in 0..n + 1
        PROVE  g[k] = IF k = 0 THEN {StartOfSearch(current)} ELSE next(k, g[k - 1])
    <3>1. n \in Nat /\ \A j \in 0..n : h[j] = IF j = 0 THEN {StartOfSearch(current)} ELSE next(j, h[j - 1])
      BY <2>1
    <3>2. CASE k = n + 1
      BY <3>1, <3>2
    <3>3. CASE k \in 0..n
      <4>1. g[k] = h[k] /\ (k # 0 => g[k - 1] = h[k - 1])
        BY <3>1, <3>3
      <4> HIDE DEF g
      <4>2. QED  BY <3>1, <3>3, <4>1
    <3>4. QED  BY <3>1, <3>2, <3>3
  <2>3. g = [k \in 0..n + 1 |-> IF k = 0 THEN {StartOfSearch(current)} ELSE next(k, g[k - 1])]
    BY <2>2
  <2> HIDE DEF g
  <2>4. QED  BY <2>3
<1>4. m \in T
  <2>1. T = Nat
    <3> HIDE DEF T
    <3>1. T \in SUBSET Nat
      BY DEF T
    <3>2. QED  BY <1>2, <1>3, <3>1, Induction
  <2>2. QED  BY <1>1, <2>1
<1> DEFINE passes == Passes(type, current, targets)
<1>5. passes = CHOOSE h : h = [k \in 0..m |-> IF k = 0 THEN {StartOfSearch(current)} ELSE next(k, h[k - 1])]
  BY DEF Passes, next, m
<1>6. \E h : h = [k \in 0..m |-> IF k = 0 THEN {StartOfSearch(current)} ELSE next(k, h[k - 1])]
  BY <1>4
<1> HIDE DEF passes
<1>7. passes = [k \in 0..m |-> IF k = 0 THEN {StartOfSearch(current)} ELSE next(k, passes[k - 1])]
  BY <1>5, <1>6
<1>8. QED  BY <1>1, <1>7 DEF passes, next, m

----------------------------------------------------------------------------
(* What the search knows *)

Entry == [status : StatusNames, path : Seq(StatusNames)]
Search == [queue : Seq(Entry), visited : SUBSET StatusNames, found : Seq(StatusNames)]

LeadsTo(type, current, path, status) ==
  /\ path \in Seq(StatusNames)
  /\ Legal(type, current, path)
  /\ status = IF path = <<>> THEN current ELSE path[Len(path)]

\* No status of S is less than n transitions away.
Beyond(type, current, n, S) ==
  \A m \in 0..MaxPasses(type) : m < n => Within(type, current)[m] \cap S = {}

Shortest(type, current, targets, path) ==
  /\ path # NoPath /\ path \in Seq(StatusNames)
  /\ Legal(type, current, path) /\ path[Len(path)] \in targets
  /\ Beyond(type, current, Len(path), targets)

Explored(type, current, targets, visited) ==
  /\ visited \subseteq AllStatuses(type) \cup {current}
  /\ current \in visited /\ visited \cap targets = {}

Queued(queue) == { queue[i].status : i \in DOMAIN queue }

\* Every path in the queue is a shortest one to its status, of d transitions or
\* of one more, the longer ones at the end, and all that is nearer was visited.
Layered(type, current, d, s) ==
  /\ \A i \in DOMAIN s.queue :
       /\ LeadsTo(type, current, s.queue[i].path, s.queue[i].status)
       /\ s.queue[i].status \in s.visited
       /\ Len(s.queue[i].path) \in d..d + 1
       /\ Beyond(type, current, Len(s.queue[i].path), {s.queue[i].status})
  /\ \A i, j \in DOMAIN s.queue : i =< j => Len(s.queue[i].path) =< Len(s.queue[j].path)
  /\ Within(type, current)[d] \subseteq s.visited

\* While the successors of entry are gone through: n passes are over, k of the
\* row are visited, and every other status is queued or has been expanded.
Expanding(type, current, targets, n, entry, k, s) ==
  LET d == Len(entry.path)
      row == NextStatuses(type, entry.status)
  IN  /\ s \in Search
      /\ s.found # NoPath => /\ Shortest(type, current, targets, s.found)
                             /\ Len(s.found) = d + 1
      /\ s.found = NoPath =>
           /\ Explored(type, current, targets, s.visited)
           /\ Layered(type, current, d, s)
           /\ \A u \in s.visited \ {entry.status} :
                u \in Queued(s.queue) \/ Successors(type, u) \subseteq s.visited
           /\ \A i \in 1..k : row[i] \in s.visited
           /\ Cardinality(s.visited) = n + 1 + Len(s.queue)

\* Between passes.
Searched(type, current, targets, n, s) ==
  /\ s \in Search
  /\ s.found # NoPath => Shortest(type, current, targets, s.found) /\ Len(s.found) =< n
  /\ s.found = NoPath =>
       /\ Explored(type, current, targets, s.visited)
       /\ \A u \in s.visited : u \in Queued(s.queue) \/ Successors(type, u) \subseteq s.visited
       /\ s.queue # <<>> =>
            /\ Len(s.queue[1].path) =< n
            /\ Layered(type, current, Len(s.queue[1].path), s)
            /\ Cardinality(s.visited) = n + Len(s.queue)

----------------------------------------------------------------------------
(* The search keeps to it *)

LEMMA OneStepOn ==
  ASSUME NEW type \in TypeNames, NEW current, NEW path, NEW status,
         LeadsTo(type, current, path, status), NEW nxt \in Successors(type, status)
  PROVE  LeadsTo(type, current, Append(path, nxt), nxt)
<1> DEFINE longer == Append(path, nxt)
<1>1. path \in Seq(StatusNames) /\ nxt \in StatusNames
  BY RowsStayInType, StatusesAreNames DEF LeadsTo, Successors, Range
<1>2. /\ longer \in Seq(StatusNames) /\ Len(longer) = Len(path) + 1 /\ longer # <<>>
      /\ longer[Len(longer)] = nxt /\ Len(path) \in Nat
      /\ \A i \in 1..Len(path) : longer[i] = path[i]
  BY <1>1
<1>3. path = <<>> <=> Len(path) = 0
  BY <1>1
<1> HIDE DEF longer
<1>4. ASSUME NEW i \in 1..Len(longer)
      PROVE  ValidTransition(type, IF i = 1 THEN current ELSE longer[i - 1], longer[i])
  <2>1. CASE i \in 1..Len(path)
    <3>1. ValidTransition(type, IF i = 1 THEN current ELSE path[i - 1], path[i])
      BY <2>1 DEF LeadsTo, Legal
    <3>2. longer[i] = path[i] /\ (i # 1 => longer[i - 1] = path[i - 1])
      BY <1>2, <2>1
    <3>3. QED  BY <3>1, <3>2
  <2>2. CASE i = Len(path) + 1
    <3>1. longer[i] = nxt /\ status = IF i = 1 THEN current ELSE longer[i - 1]
      BY <1>2, <1>3, <2>2 DEF LeadsTo
    <3>2. QED  BY <3>1, ValidIsSuccessor
  <2>3. QED  BY <1>2, <2>1, <2>2
<1>5. QED  BY <1>2, <1>4 DEF LeadsTo, Legal, longer

LEMMA VisitKeeps ==
  ASSUME NEW type \in TypeNames, NEW current, NEW targets, NEW n \in 0..MaxPasses(type),
         NEW entry \in Entry, LeadsTo(type, current, entry.path, entry.status),
         Len(entry.path) =< n,
         NEW k \in Nat, k + 1 \in DOMAIN NextStatuses(type, entry.status),
         NEW s, Expanding(type, current, targets, n, entry, k, s),
         NEW t, t = Visit(targets, entry.path, NextStatuses(type, entry.status)[k + 1], s)
  PROVE  Expanding(type, current, targets, n, entry, k + 1, t)
<1> DEFINE d == Len(entry.path)
           row == NextStatuses(type, entry.status)
           nxt == row[k + 1]
           longer == Append(entry.path, nxt)
<1>1. /\ nxt \in Successors(type, entry.status) /\ nxt \in AllStatuses(type) /\ nxt \in StatusNames
  BY RowsStayInType, StatusesAreNames DEF Successors, Range
<1>2. LeadsTo(type, current, longer, nxt)
  BY <1>1, OneStepOn
<1>3. /\ longer \in Seq(StatusNames) /\ Len(longer) = d + 1 /\ longer # NoPath
      /\ d \in Nat /\ longer[Len(longer)] = nxt
  BY <1>1 DEF Entry, NoPath
<1>4. d \in 0..MaxPasses(type) /\ MaxPasses(type) \in Nat /\ n \in Nat
  BY <1>3, StatusesAreFinite
<1>5. s \in Search
  BY DEF Expanding
<1> HIDE DEF row, nxt, longer
<1>6. CASE s.found # NoPath
  <2>1. t = s
    BY <1>6 DEF Visit
  <2>2. QED  BY <1>6, <2>1 DEF Expanding
<1>7. ASSUME s.found = NoPath
      PROVE  /\ Explored(type, current, targets, s.visited)
             /\ Layered(type, current, d, s)
             /\ \A u \in s.visited \ {entry.status} :
                  u \in Queued(s.queue) \/ Successors(type, u) \subseteq s.visited
             /\ \A i \in 1..k : row[i] \in s.visited
             /\ Cardinality(s.visited) = n + 1 + Len(s.queue)
  BY <1>7 DEF Expanding, row
<1>8. ASSUME s.found = NoPath, NEW m \in 0..MaxPasses(type), m < d + 1
      PROVE  Within(type, current)[m] \subseteq s.visited
  <2>1. m \in 0..d
    BY <1>3, <1>8
  <2>2. Within(type, current)[m] \subseteq Within(type, current)[d]
    BY <1>4, <2>1, LayersGrow
  <2>3. QED  BY <1>7, <1>8, <2>2 DEF Layered
<1>9. CASE s.found = NoPath /\ nxt \in s.visited
  <2>1. t = s
    BY <1>9 DEF Visit, nxt, row
  <2>2. \A i \in 1..k + 1 : row[i] \in s.visited
    BY <1>7, <1>9 DEF nxt
  <2>3. QED  BY <1>5, <1>7, <1>9, <2>1, <2>2 DEF Expanding, row
<1>10. CASE s.found = NoPath /\ nxt \notin s.visited /\ nxt \in targets
  <2>1. t = [s EXCEPT !.found = longer]
    BY <1>10 DEF Visit, nxt, row, longer
  <2>2. t \in Search /\ t.found = longer
    BY <1>3, <1>5, <2>1 DEF Search
  <2>3. Beyond(type, current, d + 1, targets)
    BY <1>7, <1>8, <1>10 DEF Beyond, Explored
  <2>4. Shortest(type, current, targets, longer)
    BY <1>2, <1>3, <1>10, <2>3 DEF Shortest, LeadsTo
  <2>5. QED  BY <1>3, <2>2, <2>4 DEF Expanding
<1>11. CASE s.found = NoPath /\ nxt \notin s.visited /\ nxt \notin targets
  <2> DEFINE added == [status |-> nxt, path |-> longer]
             seen == s.visited \cup {nxt}
             queue == Append(s.queue, added)
             l == Len(s.queue)
  <2>1. t = [s EXCEPT !.visited = seen, !.queue = queue]
    BY <1>11 DEF Visit, Enqueue, nxt, row, longer
  <2>2. added \in Entry /\ s.queue \in Seq(Entry) /\ l \in Nat /\ queue \in Seq(Entry)
    BY <1>1, <1>3, <1>5 DEF Search, Entry
  <2>3. t \in Search /\ t.visited = seen /\ t.queue = queue /\ t.found = NoPath
    BY <1>1, <1>5, <1>11, <2>1, <2>2 DEF Search
  <2>4. /\ DOMAIN queue = 1..l + 1 /\ DOMAIN s.queue = 1..l /\ Len(queue) = l + 1
        /\ queue[l + 1] = added /\ \A i \in 1..l : queue[i] = s.queue[i]
    BY <2>2
  <2>5. added.status = nxt /\ added.path = longer
    OBVIOUS
  <2>6. Cardinality(seen) = n + 1 + Len(queue)
    <3>1. IsFiniteSet(AllStatuses(type) \cup {current})
      BY StatusesAreFinite, FS_AddElement
    <3>2. IsFiniteSet(s.visited)
      BY <1>7, <1>11, <3>1, FS_Subset DEF Explored
    <3>3. Cardinality(seen) = Cardinality(s.visited) + 1
      BY <1>11, <3>2, FS_AddElement
    <3>4. Cardinality(s.visited) = n + 1 + l
      BY <1>7, <1>11
    <3> HIDE DEF queue, seen, l
    <3>5. QED  BY <1>4, <2>2, <2>4, <3>3, <3>4
  <2> HIDE DEF added, queue, l
  <2>7. Explored(type, current, targets, seen)
    BY <1>1, <1>7, <1>11 DEF Explored
  <2>8. Beyond(type, current, d + 1, {nxt})
    BY <1>8, <1>11 DEF Beyond
  <2>9. ASSUME NEW i \in DOMAIN queue
        PROVE  /\ LeadsTo(type, current, queue[i].path, queue[i].status)
               /\ queue[i].status \in seen
               /\ Len(queue[i].path) \in d..d + 1
               /\ Beyond(type, current, Len(queue[i].path), {queue[i].status})
    <3>1. CASE i = l + 1
      <4>1. queue[i].status = nxt /\ queue[i].path = longer /\ Len(queue[i].path) = d + 1
        BY <1>3, <2>4, <2>5, <3>1
      <4>2. nxt \in seen /\ d + 1 \in d..d + 1
        BY <1>3
      <4>3. QED  BY <1>2, <2>8, <4>1, <4>2
    <3>2. CASE i \in 1..l
      <4>1. queue[i] = s.queue[i] /\ i \in DOMAIN s.queue
        BY <2>4, <3>2
      <4>2. QED  BY <1>7, <1>11, <4>1 DEF Layered
    <3>3. QED  BY <2>2, <2>4, <3>1, <3>2 DEF l
  <2>10. ASSUME NEW i \in DOMAIN queue, NEW j \in DOMAIN queue, i =< j
         PROVE  Len(queue[i].path) =< Len(queue[j].path)
    <3>1. CASE j = l + 1
      <4>1. Len(queue[i].path) \in d..d + 1 /\ Len(queue[j].path) = d + 1
        BY <1>3, <2>4, <2>5, <2>9, <3>1
      <4>2. QED  BY <1>3, <4>1
    <3>2. CASE j \in 1..l
      <4>1. i \in 1..l
        BY <2>2, <2>4, <2>10, <3>2 DEF l
      <4>2. queue[i] = s.queue[i] /\ queue[j] = s.queue[j] /\ i \in DOMAIN s.queue /\ j \in DOMAIN s.queue
        BY <2>4, <3>2, <4>1
      <4>3. \A a, b \in DOMAIN s.queue : a =< b => Len(s.queue[a].path) =< Len(s.queue[b].path)
        BY <1>7, <1>11 DEF Layered
      <4>4. Len(s.queue[i].path) =< Len(s.queue[j].path)
        BY <2>10, <4>2, <4>3
      <4>5. /\ Len(queue[i].path) = Len(s.queue[i].path)
            /\ Len(queue[j].path) = Len(s.queue[j].path)
        BY <4>2
      <4> HIDE DEF seen
      <4>6. QED  BY <4>4, <4>5
    <3>3. j = l + 1 \/ j \in 1..l
      BY <2>2, <2>4
    <3>4. QED  BY <3>1, <3>2, <3>3
  <2>11. Layered(type, current, d, t)
    <3>1. Within(type, current)[d] \subseteq seen
      BY <1>7, <1>11 DEF Layered
    <3> HIDE DEF seen
    <3>2. QED  BY <2>3, <2>9, <2>10, <3>1 DEF Layered
  <2>12. ASSUME NEW u \in seen \ {entry.status}
         PROVE  u \in Queued(queue) \/ Successors(type, u) \subseteq seen
    <3>1. CASE u = nxt
      <4>1. l + 1 \in DOMAIN queue /\ queue[l + 1].status = nxt
        BY <2>2, <2>4, <2>5 DEF l
      <4>2. QED  BY <3>1, <4>1 DEF Queued
    <3>2. CASE u \in s.visited
      <4>1. Queued(s.queue) \subseteq Queued(queue)
        BY <2>2, <2>4 DEF Queued, l
      <4>2. QED  BY <1>7, <1>11, <2>12, <3>2, <4>1
    <3>3. QED  BY <2>12, <3>1, <3>2
  <2>13. \A i \in 1..k + 1 : row[i] \in seen
    BY <1>7, <1>11 DEF nxt
  <2> HIDE DEF seen
  <2>14. QED  BY <2>3, <2>6, <2>7, <2>11, <2>12, <2>13 DEF Expanding, row
<1>12. QED  BY <1>6, <1>9, <1>10, <1>11

\* Taking the first entry off the queue.
LEMMA Popped ==
  ASSUME NEW type \in TypeNames, NEW current, NEW targets, NEW n \in 0..MaxPasses(type),
         NEW s, Searched(type, current, targets, n, s), s.found = NoPath, s.queue # <<>>
  PROVE  /\ Head(s.queue) \in Entry
         /\ LeadsTo(type, current, Head(s.queue).path, Head(s.queue).status)
         /\ Len(Head(s.queue).path) =< n
         /\ Expanding(type, current, targets, n, Head(s.queue), 0, [s EXCEPT !.queue = Tail(@)])
<1> DEFINE queue == s.queue
           entry == Head(queue)
           d == Len(entry.path)
           rest == Tail(queue)
           t == [s EXCEPT !.queue = Tail(@)]
           l == Len(rest)
<1>1. /\ s \in Search
      /\ Explored(type, current, targets, s.visited)
      /\ \A u \in s.visited : u \in Queued(queue) \/ Successors(type, u) \subseteq s.visited
      /\ Len(queue[1].path) =< n
      /\ Layered(type, current, Len(queue[1].path), s)
      /\ Cardinality(s.visited) = n + Len(queue)
  BY DEF Searched
<1>2. queue \in Seq(Entry) /\ queue # <<>>
  BY <1>1 DEF Search
<1> HIDE DEF queue
<1>3. /\ entry = queue[1] /\ entry \in Entry /\ 1 \in DOMAIN queue
      /\ rest \in Seq(Entry) /\ l \in Nat /\ Len(queue) = l + 1
      /\ DOMAIN rest = 1..l /\ DOMAIN queue = 1..l + 1
      /\ \A i \in 1..l : rest[i] = queue[i + 1]
  BY <1>2
<1>4. /\ t \in Search /\ t.queue = rest /\ t.visited = s.visited /\ t.found = NoPath
  BY <1>1, <1>3 DEF Search, queue
<1> HIDE DEF entry, rest, t, l
<1>5. /\ d =< n /\ Layered(type, current, d, s)
  BY <1>1, <1>3
<1>6. LeadsTo(type, current, entry.path, entry.status)
  BY <1>3, <1>5 DEF Layered, queue
<1>7. ASSUME NEW i \in 1..l PROVE i + 1 \in DOMAIN queue
  BY <1>3
<1>8. Layered(type, current, d, t)
  <2>1. ASSUME NEW i \in DOMAIN rest
        PROVE  /\ LeadsTo(type, current, rest[i].path, rest[i].status)
               /\ rest[i].status \in s.visited
               /\ Len(rest[i].path) \in d..d + 1
               /\ Beyond(type, current, Len(rest[i].path), {rest[i].status})
    <3>1. rest[i] = queue[i + 1] /\ i + 1 \in DOMAIN queue
      BY <1>3, <1>7
    <3>2. QED  BY <1>5, <3>1 DEF Layered, queue
  <2>2. ASSUME NEW i \in DOMAIN rest, NEW j \in DOMAIN rest, i =< j
        PROVE  Len(rest[i].path) =< Len(rest[j].path)
    <3>1. /\ rest[i] = queue[i + 1] /\ i + 1 \in DOMAIN queue
          /\ rest[j] = queue[j + 1] /\ j + 1 \in DOMAIN queue /\ i + 1 =< j + 1
      BY <1>3, <1>7, <2>2
    <3>2. Len(queue[i + 1].path) =< Len(queue[j + 1].path)
      BY <1>5, <3>1 DEF Layered, queue
    <3>3. QED  BY <3>1, <3>2
  <2>3. Within(type, current)[d] \subseteq s.visited
    BY <1>5 DEF Layered
  <2>4. QED  BY <1>4, <2>1, <2>2, <2>3 DEF Layered
<1>9. ASSUME NEW u \in s.visited \ {entry.status}
      PROVE  u \in Queued(rest) \/ Successors(type, u) \subseteq s.visited
  <2>1. SUFFICES ASSUME u \in Queued(queue) PROVE u \in Queued(rest)
    BY <1>1
  <2>2. PICK i \in DOMAIN queue : queue[i].status = u
    BY <2>1 DEF Queued
  <2>3. i # 1
    BY <1>3, <1>9, <2>2
  <2>4. i - 1 \in DOMAIN rest /\ rest[i - 1] = queue[i]
    BY <1>3, <2>3
  <2>5. QED  BY <2>2, <2>4 DEF Queued
<1>10. Cardinality(t.visited) = n + 1 + Len(t.queue)
  BY <1>1, <1>3, <1>4 DEF l
<1>11. Expanding(type, current, targets, n, entry, 0, t)
  BY <1>1, <1>4, <1>8, <1>9, <1>10 DEF Expanding
<1>12. QED  BY <1>3, <1>5, <1>6, <1>11 DEF entry, queue, t

\* Going through the successors of an entry.
LEMMA Visited ==
  ASSUME NEW type \in TypeNames, NEW current, NEW targets, NEW n \in 0..MaxPasses(type),
         NEW entry \in Entry, LeadsTo(type, current, entry.path, entry.status),
         Len(entry.path) =< n, NEW s,
         Expanding(type, current, targets, n, entry, 0, [s EXCEPT !.queue = Tail(@)])
  PROVE  LET row == NextStatuses(type, entry.status)
         IN  \E t : /\ Visits(targets, entry, row, s)[Len(row)] = {t}
                    /\ Expanding(type, current, targets, n, entry, Len(row), t)
<1> DEFINE row == NextStatuses(type, entry.status)
           visits == Visits(targets, entry, row, s)
           T == { k \in Nat : k =< Len(row) =>
                    \E t : /\ visits[k] = {t}
                           /\ Expanding(type, current, targets, n, entry, k, t) }
<1>1. row \in Seq(AllStatuses(type)) /\ Len(row) \in Nat /\ DOMAIN row = 1..Len(row)
  BY RowsStayInType
<1>2. /\ visits[0] = {[s EXCEPT !.queue = Tail(@)]}
      /\ \A k \in 0..Len(row) - 1 :
           visits[k + 1] = { Visit(targets, entry.path, row[k + 1], before) : before \in visits[k] }
  BY SMTT(30), <1>1, VisitsAre
<1> HIDE DEF visits
<1>3. 0 \in T
  BY <1>2
<1>4. ASSUME NEW k \in T PROVE k + 1 \in T
  <2>1. SUFFICES ASSUME k + 1 =< Len(row)
                 PROVE  \E t : /\ visits[k + 1] = {t}
                               /\ Expanding(type, current, targets, n, entry, k + 1, t)
    OBVIOUS
  <2>2. PICK t : visits[k] = {t} /\ Expanding(type, current, targets, n, entry, k, t)
    BY <1>1, <2>1
  <2>3. k \in 0..Len(row) - 1 /\ k + 1 \in DOMAIN row
    BY <1>1, <2>1
  <2>4. visits[k + 1] = {Visit(targets, entry.path, row[k + 1], t)}
    <3>1. visits[k + 1] = { Visit(targets, entry.path, row[k + 1], before) : before \in visits[k] }
      BY <1>2, <2>3
    <3>2. QED  BY <2>2, <3>1
  <2>5. Expanding(type, current, targets, n, entry, k + 1, Visit(targets, entry.path, row[k + 1], t))
    BY <2>2, <2>3, VisitKeeps
  <2>6. QED  BY <2>4, <2>5
<1>5. T = Nat
  <2> HIDE DEF T
  <2>1. T \in SUBSET Nat
    BY DEF T
  <2>2. QED  BY <1>3, <1>4, <2>1, Induction
<1>6. QED  BY <1>1, <1>5 DEF visits

\* When all successors of the entry are visited the pass is over.
LEMMA Passed ==
  ASSUME NEW type \in TypeNames, NEW current, NEW targets,
         NEW n \in Nat, n < MaxPasses(type), NEW entry \in Entry, Len(entry.path) =< n,
         NEW s, Expanding(type, current, targets, n, entry,
                          Len(NextStatuses(type, entry.status)), s)
  PROVE  Searched(type, current, targets, n + 1, s)
<1> DEFINE d == Len(entry.path)
           row == NextStatuses(type, entry.status)
           queue == s.queue
<1>1. /\ d \in Nat /\ MaxPasses(type) \in Nat
      /\ d \in 0..MaxPasses(type) - 1 /\ d \in 0..MaxPasses(type)
  BY StatusesAreFinite DEF Entry
<1>2. s \in Search
  BY DEF Expanding
<1>3. CASE s.found # NoPath
  <2>1. Shortest(type, current, targets, s.found) /\ Len(s.found) = d + 1
    BY <1>3 DEF Expanding
  <2>2. Len(s.found) =< n + 1
    BY <1>1, <2>1
  <2>3. QED  BY <1>2, <1>3, <2>1, <2>2 DEF Searched
<1>4. CASE s.found = NoPath
  <2>1. /\ Explored(type, current, targets, s.visited)
        /\ Layered(type, current, d, s)
        /\ \A u \in s.visited \ {entry.status} :
             u \in Queued(queue) \/ Successors(type, u) \subseteq s.visited
        /\ \A i \in 1..Len(row) : row[i] \in s.visited
        /\ Cardinality(s.visited) = n + 1 + Len(queue)
    BY <1>4 DEF Expanding
  <2>2. Successors(type, entry.status) \subseteq s.visited
    <3>1. DOMAIN row = 1..Len(row)
      BY RowsStayInType
    <3>2. QED  BY <2>1, <3>1 DEF Successors, Range
  <2>3. \A u \in s.visited : u \in Queued(queue) \/ Successors(type, u) \subseteq s.visited
    BY <2>1, <2>2
  <2>4. ASSUME queue # <<>>
        PROVE  /\ Len(queue[1].path) =< n + 1
               /\ Layered(type, current, Len(queue[1].path), s)
    <3>1. 1 \in DOMAIN queue /\ Len(queue[1].path) \in d..d + 1
      <4>1. queue \in Seq(Entry)
        BY <1>2 DEF Search
      <4>2. 1 \in DOMAIN queue
        BY <2>4, <4>1
      <4>3. QED  BY <2>1, <4>2 DEF Layered
    <3>2. CASE Len(queue[1].path) = d
      BY <1>1, <2>1, <3>2
    <3>3. CASE Len(queue[1].path) = d + 1
      <4>1. ASSUME NEW i \in DOMAIN queue PROVE Len(queue[i].path) = d + 1
        <5>1. queue \in Seq(Entry)
          BY <1>2 DEF Search
        <5>2. 1 =< i
          BY <5>1
        <5>3. Len(queue[i].path) \in d..d + 1 /\ Len(queue[1].path) =< Len(queue[i].path)
          BY <2>1, <3>1, <5>2 DEF Layered
        <5>4. QED  BY SMTT(30), <1>1, <3>3, <5>3
      <4>2. ASSUME NEW u \in Within(type, current)[d] PROVE Successors(type, u) \subseteq s.visited
        <5>1. u \in s.visited
          BY <2>1 DEF Layered
        <5>2. u \notin Queued(queue)
          <6>1. ASSUME NEW i \in DOMAIN queue, queue[i].status = u PROVE FALSE
            <7>1. Beyond(type, current, d + 1, {u})
              BY <2>1, <4>1, <6>1 DEF Layered
            <7>2. QED  BY <1>1, <7>1 DEF Beyond
          <6>2. QED  BY <6>1 DEF Queued
        <5>3. QED  BY <2>3, <5>1, <5>2
      <4>3. Within(type, current)[d + 1] \subseteq s.visited
        <5>1. Within(type, current)[d + 1] =
                Within(type, current)[d]
                  \cup UNION { Successors(type, u) : u \in Within(type, current)[d] }
          BY <1>1, WithinIs
        <5>2. Within(type, current)[d] \subseteq s.visited
          BY <2>1 DEF Layered
        <5>3. QED  BY <4>2, <5>1, <5>2
      <4>4. \A i \in DOMAIN queue : Len(queue[i].path) \in d + 1..d + 2
        BY <1>1, <4>1
      <4>5. Layered(type, current, d + 1, s)
        <5>1. d + 1 + 1 = d + 2
          BY <1>1
        <5>2. QED  BY <2>1, <4>3, <4>4, <5>1 DEF Layered
      <4>6. Len(queue[1].path) =< n + 1
        BY <1>1, <3>3
      <4>7. QED  BY <3>3, <4>5, <4>6
    <3>4. Len(queue[1].path) = d \/ Len(queue[1].path) = d + 1
      BY <1>1, <3>1
    <3>5. QED  BY <3>2, <3>3, <3>4
  <2>5. QED  BY <1>2, <1>4, <2>1, <2>3, <2>4 DEF Searched
<1>5. QED  BY <1>3, <1>4

LEMMA ExpandKeeps ==
  ASSUME NEW type \in TypeNames, NEW current, NEW targets,
         NEW n \in Nat, n < MaxPasses(type),
         NEW s, Searched(type, current, targets, n, s)
  PROVE  Searched(type, current, targets, n + 1, Expand(type, targets, s))
<1>1. n \in 0..MaxPasses(type)
  BY StatusesAreFinite
<1>2. CASE s.found # NoPath
  <2>1. Expand(type, targets, s) = s
    BY <1>2 DEF Expand
  <2>2. s \in Search /\ Shortest(type, current, targets, s.found) /\ Len(s.found) =< n
    BY <1>2 DEF Searched
  <2>3. Len(s.found) \in Nat
    BY <2>2 DEF Search
  <2>4. Len(s.found) =< n + 1
    BY <2>2, <2>3
  <2>5. QED  BY <1>2, <2>1, <2>2, <2>4 DEF Searched
<1>3. CASE s.found = NoPath /\ s.queue = <<>>
  <2>1. Expand(type, targets, s) = s
    BY <1>3 DEF Expand
  <2>2. QED  BY <1>3, <2>1 DEF Searched
<1>4. CASE s.found = NoPath /\ s.queue # <<>>
  <2> DEFINE entry == Head(s.queue)
             row == NextStatuses(type, entry.status)
             visits == Visits(targets, entry, row, s)
  <2>1. /\ entry \in Entry /\ LeadsTo(type, current, entry.path, entry.status)
        /\ Len(entry.path) =< n
        /\ Expanding(type, current, targets, n, entry, 0, [s EXCEPT !.queue = Tail(@)])
    BY <1>1, <1>4, Popped
  <2>2. Expand(type, targets, s) = CHOOSE after \in visits[Len(row)] : TRUE
    BY <1>4 DEF Expand
  <2> HIDE DEF entry
  <2>3. \E t : /\ visits[Len(row)] = {t}
               /\ Expanding(type, current, targets, n, entry, Len(row), t)
    BY <1>1, <2>1, Visited
  <2> HIDE DEF visits
  <2>4. PICK t : /\ visits[Len(row)] = {t}
                 /\ Expanding(type, current, targets, n, entry, Len(row), t)
    BY <2>3
  <2>5. Expand(type, targets, s) = t
    BY <2>2, <2>4
  <2>6. QED  BY <2>1, <2>4, <2>5, Passed
<1>5. QED  BY <1>2, <1>3, <1>4

LEMMA SearchStarts ==
  ASSUME NEW type \in TypeNames, NEW current \in StatusNames, NEW targets, current \notin targets
  PROVE  Searched(type, current, targets, 0, StartOfSearch(current))
<1> DEFINE s == StartOfSearch(current)
           first == [status |-> current, path |-> <<>>]
<1>1. s.queue = <<first>> /\ s.visited = {current} /\ s.found = NoPath
  BY DEF StartOfSearch
<1>2. first \in Entry /\ first.path = <<>> /\ first.status = current
  BY DEF Entry
<1>3. s \in Search
  BY <1>1, <1>2 DEF StartOfSearch, Search, NoPath
<1>4. /\ DOMAIN s.queue = {1} /\ s.queue[1] = first /\ Len(s.queue) = 1
  BY <1>1
<1>5. Queued(s.queue) = {current}
  BY <1>2, <1>4 DEF Queued
<1>6. LeadsTo(type, current, first.path, first.status)
  BY <1>2 DEF LeadsTo, Legal
<1>7. Within(type, current)[0] = {current}
  BY WithinIs
<1>8. Cardinality({current}) = 1
  BY FS_Singleton
<1> HIDE DEF s, first
<1>9. Beyond(type, current, 0, {first.status})
  BY StatusesAreFinite DEF Beyond
<1>10. Len(first.path) = 0
  BY <1>2
<1>11. Layered(type, current, 0, s)
  <2>1. ASSUME NEW i \in DOMAIN s.queue
        PROVE  /\ LeadsTo(type, current, s.queue[i].path, s.queue[i].status)
               /\ s.queue[i].status \in s.visited
               /\ Len(s.queue[i].path) \in 0..0 + 1
               /\ Beyond(type, current, Len(s.queue[i].path), {s.queue[i].status})
    <3>1. s.queue[i] = first
      BY <1>4
    <3>2. Len(first.path) \in 0..0 + 1 /\ first.status \in s.visited
      BY <1>1, <1>2, <1>10
    <3>3. Beyond(type, current, Len(first.path), {first.status})
      BY <1>9, <1>10
    <3>4. QED  BY <1>6, <3>1, <3>2, <3>3
  <2>2. \A i, j \in DOMAIN s.queue : i =< j => Len(s.queue[i].path) =< Len(s.queue[j].path)
    BY <1>4, <1>10
  <2>3. Within(type, current)[0] \subseteq s.visited
    BY <1>1, <1>7
  <2>4. QED  BY <2>1, <2>2, <2>3 DEF Layered
<1>12. Explored(type, current, targets, s.visited)
  BY <1>1 DEF Explored
<1>13. QED  BY <1>1, <1>3, <1>4, <1>5, <1>8, <1>10, <1>11, <1>12 DEF Searched, s

\* After n passes.
LEMMA AfterPasses ==
  ASSUME NEW type \in TypeNames, NEW current \in StatusNames, NEW targets, current \notin targets
  PROVE  \E s : /\ Passes(type, current, targets)[MaxPasses(type)] = {s}
                /\ Searched(type, current, targets, MaxPasses(type), s)
<1> DEFINE passes == Passes(type, current, targets)
           last == MaxPasses(type)
           T == { n \in Nat : n =< last =>
                    \E s : passes[n] = {s} /\ Searched(type, current, targets, n, s) }
<1>1. last \in Nat
  BY StatusesAreFinite
<1>2. /\ passes[0] = {StartOfSearch(current)}
      /\ \A n \in 0..last - 1 :
           passes[n + 1] = { Expand(type, targets, before) : before \in passes[n] }
  BY PassesAre
<1> HIDE DEF passes
<1>3. 0 \in T
  BY <1>2, SearchStarts
<1>4. ASSUME NEW n \in T PROVE n + 1 \in T
  <2>1. SUFFICES ASSUME n + 1 =< last
                 PROVE  \E s : passes[n + 1] = {s} /\ Searched(type, current, targets, n + 1, s)
    OBVIOUS
  <2>2. n \in 0..last - 1 /\ n < last
    BY <1>1, <2>1
  <2>3. PICK s : passes[n] = {s} /\ Searched(type, current, targets, n, s)
    BY <1>1, <2>2
  <2>4. passes[n + 1] = {Expand(type, targets, s)}
    BY <1>2, <2>2, <2>3
  <2>5. Searched(type, current, targets, n + 1, Expand(type, targets, s))
    BY <2>2, <2>3, ExpandKeeps
  <2>6. QED  BY <2>4, <2>5
<1>5. T = Nat
  <2> HIDE DEF T
  <2>1. T \in SUBSET Nat
    BY DEF T
  <2>2. QED  BY <1>3, <1>4, <2>1, Induction
<1>6. QED  BY <1>1, <1>5 DEF passes

\* What the search found, or where it got stuck: a set of statuses that no
\* transition leaves.
LEMMA SearchOutcome ==
  ASSUME NEW type \in TypeNames, NEW current \in StatusNames, NEW targets, current \notin targets
  PROVE  LET path == BreadthFirst(type, current, targets)
         IN  IF path = NoPath
             THEN \E V : /\ current \in V /\ V \cap targets = {}
                         /\ \A status \in V : Successors(type, status) \subseteq V
             ELSE Shortest(type, current, targets, path) /\ Len(path) =< MaxPasses(type)
<1> DEFINE last == MaxPasses(type)
           path == BreadthFirst(type, current, targets)
<1>1. PICK s : /\ Passes(type, current, targets)[last] = {s}
               /\ Searched(type, current, targets, last, s)
  BY AfterPasses
<1>2. path = s.found
  BY <1>1 DEF BreadthFirst
<1>3. CASE s.found # NoPath
  BY <1>1, <1>2, <1>3 DEF Searched
<1>4. CASE s.found = NoPath
  <2>1. /\ s \in Search /\ Explored(type, current, targets, s.visited)
        /\ \A u \in s.visited : u \in Queued(s.queue) \/ Successors(type, u) \subseteq s.visited
        /\ s.queue # <<>> => Cardinality(s.visited) = last + Len(s.queue)
    BY <1>1, <1>4 DEF Searched
  <2>2. s.queue = <<>>
    <3>1. SUFFICES ASSUME s.queue # <<>> PROVE FALSE
      OBVIOUS
    <3>2. s.queue \in Seq(Entry)
      BY <2>1 DEF Search
    <3>3. Len(s.queue) \in Nat \ {0}
      BY <3>1, <3>2
    <3>4. /\ IsFiniteSet(AllStatuses(type) \cup {current})
          /\ Cardinality(AllStatuses(type) \cup {current}) =< last
      <4>1. IsFiniteSet(AllStatuses(type)) /\ Cardinality(AllStatuses(type)) \in Nat
        BY StatusesAreFinite, FS_CardinalityType
      <4>2. Cardinality(AllStatuses(type) \cup {current}) =
              IF current \in AllStatuses(type) THEN Cardinality(AllStatuses(type))
              ELSE Cardinality(AllStatuses(type)) + 1
        BY <4>1, FS_AddElement
      <4>3. QED  BY <4>1, <4>2, FS_AddElement DEF MaxPasses
    <3>5. Cardinality(s.visited) =< Cardinality(AllStatuses(type) \cup {current})
      BY <2>1, <3>4, FS_Subset DEF Explored
    <3>6. Cardinality(s.visited) \in Nat /\ Cardinality(AllStatuses(type) \cup {current}) \in Nat
      BY <2>1, <3>4, FS_Subset, FS_CardinalityType DEF Explored
    <3>7. last \in Nat
      BY StatusesAreFinite
    <3> HIDE DEF last
    <3>8. QED  BY <2>1, <3>1, <3>3, <3>4, <3>5, <3>6, <3>7
  <2>3. Queued(s.queue) = {}
    BY <2>2 DEF Queued
  <2>4. \A u \in s.visited : Successors(type, u) \subseteq s.visited
    BY <2>1, <2>3
  <2>5. current \in s.visited /\ s.visited \cap targets = {}
    BY <2>1 DEF Explored
  <2>6. QED  BY <1>2, <1>4, <2>4, <2>5
<1>5. QED  BY <1>3, <1>4

\* The searches of find_transition_path and _find_close_path, for any targets:
\* the result is a walk along legal transitions into the targets that no walk
\* is shorter than, and there is none only when no walk leads there at all.
THEOREM SearchFindsAShortestWalk ==
  ASSUME NEW type \in TypeNames, NEW current \in StatusNames, NEW targets, current \notin targets
  PROVE  LET path == BreadthFirst(type, current, targets)
         IN  IF path = NoPath
             THEN \A n \in 0..MaxPasses(type) : Within(type, current)[n] \cap targets = {}
             ELSE Shortest(type, current, targets, path) /\ Len(path) =< MaxPasses(type)
<1> DEFINE path == BreadthFirst(type, current, targets)
<1>1. ASSUME path = NoPath, NEW n \in 0..MaxPasses(type)
      PROVE  Within(type, current)[n] \cap targets = {}
  <2>1. PICK V : /\ current \in V /\ V \cap targets = {}
                 /\ \A status \in V : Successors(type, status) \subseteq V
    BY <1>1, SearchOutcome
  <2>2. Within(type, current)[n] \subseteq V
    BY <2>1, ClosedHoldsLayers
  <2>3. QED  BY <2>1, <2>2
<1>2. path # NoPath => Shortest(type, current, targets, path) /\ Len(path) =< MaxPasses(type)
  BY SearchOutcome
<1>3. QED  BY <1>1, <1>2

----------------------------------------------------------------------------
(* The length of a shortest walk *)

LEMMA StepWithin ==
  ASSUME NEW type \in TypeNames, NEW current, NEW n \in Nat, n < MaxPasses(type),
         NEW u \in Within(type, current)[n], NEW v \in Successors(type, u)
  PROVE  v \in Within(type, current)[n + 1]
<1>1. n \in 0..MaxPasses(type) - 1
  BY StatusesAreFinite
<1>2. QED  BY <1>1, WithinIs

\* A walk of n transitions ends in the n-th layer.
LEMMA WalksStayWithin ==
  ASSUME NEW type \in TypeNames, NEW current, NEW path \in Seq(StatusNames),
         Legal(type, current, path), NEW n \in 1..Len(path), n =< MaxPasses(type)
  PROVE  path[n] \in Within(type, current)[n]
<1> DEFINE layer == Within(type, current)
           T == { k \in Nat : k + 1 =< n => path[k + 1] \in layer[k + 1] }
<1>1. MaxPasses(type) \in Nat /\ Len(path) \in Nat
  BY StatusesAreFinite
<1>2. layer[0] = {current}
  BY WithinIs
<1>3. ASSUME NEW k \in 1..n
      PROVE  path[k] \in Successors(type, IF k = 1 THEN current ELSE path[k - 1])
  <2>1. k \in 1..Len(path)
    BY <1>1
  <2>2. QED  BY <2>1, ValidIsSuccessor DEF Legal
<1>4. \A k \in Nat : \A u, v :
        k < n /\ u \in layer[k] /\ v \in Successors(type, u) => v \in layer[k + 1]
  BY <1>1, StepWithin
<1> HIDE DEF layer
<1>5. 0 \in T
  <2>1. path[1] \in Successors(type, current)
    BY <1>3
  <2>2. QED  BY <1>2, <1>4, <2>1
<1>6. ASSUME NEW k \in T PROVE k + 1 \in T
  <2>1. SUFFICES ASSUME k + 1 + 1 =< n PROVE path[k + 1 + 1] \in layer[k + 1 + 1]
    OBVIOUS
  <2>2. path[k + 1] \in layer[k + 1] /\ k + 1 + 1 \in 1..n /\ k + 1 \in Nat /\ k + 1 < n
    BY <2>1
  <2>3. path[k + 1 + 1] \in Successors(type, path[k + 1])
    <3>1. k + 1 + 1 # 1 /\ k + 1 + 1 - 1 = k + 1
      OBVIOUS
    <3>2. QED  BY <1>3, <2>2, <3>1
  <2>4. QED  BY <1>4, <2>2, <2>3
<1>7. T = Nat
  <2> HIDE DEF T
  <2>1. T \in SUBSET Nat
    BY DEF T
  <2>2. QED  BY <1>5, <1>6, <2>1, Induction
<1>8. n - 1 \in Nat /\ n - 1 + 1 = n
  OBVIOUS
<1>9. n - 1 \in T
  <2> HIDE DEF T
  <2>1. QED  BY <1>7, <1>8
<1>10. path[n - 1 + 1] \in layer[n - 1 + 1]
  <2>1. n - 1 + 1 =< n
    BY <1>8
  <2>2. QED  BY <1>9, <2>1
<1> HIDE DEF T
<1>11. QED  BY <1>8, <1>10 DEF layer

LEMMA ShortestIsAtDistance ==
  ASSUME NEW type \in TypeNames, NEW current, NEW targets, NEW path,
         Shortest(type, current, targets, path), Len(path) =< MaxPasses(type)
  PROVE  Len(path) = Distance(type, current, targets)
<1> DEFINE layer == Within(type, current)
           hits == { n \in DOMAIN layer : layer[n] \cap targets # {} }
           l == Len(path)
<1>1. DOMAIN layer = 0..MaxPasses(type) /\ MaxPasses(type) \in Nat
  BY WithinIs, StatusesAreFinite
<1>2. path \in Seq(StatusNames) /\ l \in 1..Len(path) /\ l \in 0..MaxPasses(type) /\ l \in Nat
  BY <1>1 DEF Shortest, NoPath
<1>3. path[l] \in layer[l] /\ path[l] \in targets
  BY <1>2, WalksStayWithin DEF Shortest
<1>4. \A n \in 0..MaxPasses(type) : n < l => layer[n] \cap targets = {}
  BY DEF Shortest, Beyond
<1>5. Distance(type, current, targets) =
        IF hits = {} THEN 0 ELSE CHOOSE n \in hits : \A m \in hits : n =< m
  BY DEF Distance
<1> HIDE DEF layer, l
<1>6. l \in hits
  BY <1>1, <1>2, <1>3
<1>7. \A n \in hits : l =< n
  BY <1>1, <1>2, <1>4
<1>8. hits \subseteq Nat
  BY <1>1
<1> HIDE DEF hits
<1>9. \A n \in hits : (\A m \in hits : n =< m) => n = l
  BY <1>6, <1>7, <1>8
<1>10. (CHOOSE n \in hits : \A m \in hits : n =< m) = l
  BY <1>6, <1>7, <1>9
<1>11. QED  BY <1>5, <1>6, <1>10 DEF l

LEMMA NoWalkIsNoDistance ==
  ASSUME NEW type \in TypeNames, NEW current, NEW targets,
         \A n \in 0..MaxPasses(type) : Within(type, current)[n] \cap targets = {}
  PROVE  Distance(type, current, targets) = 0
<1>1. { n \in DOMAIN Within(type, current) : Within(type, current)[n] \cap targets # {} } = {}
  BY WithinIs
<1>2. QED  BY <1>1 DEF Distance

\* The hint of a refused move: legal, as short as any, missing only when the
\* status cannot be reached (find_transition_path).
THEOREM HintsAreShortestWalks ==
  ASSUME NEW type \in TypeNames, NEW current \in StatusNames, NEW target \in StatusNames,
         target # current
  PROVE  LET path == FindTransitionPath(type, current, target)
         IN  /\ Legal(type, current, path)
             /\ Len(path) = Distance(type, current, {target})
             /\ path # NoPath => path[Len(path)] = target
<1> DEFINE path == FindTransitionPath(type, current, target)
<1>1. path = BreadthFirst(type, current, {target})
  BY DEF FindTransitionPath
<1> HIDE DEF path
<1>2. CASE path = NoPath
  <2>1. Distance(type, current, {target}) = 0
    BY <1>1, <1>2, SearchFindsAShortestWalk, NoWalkIsNoDistance
  <2>2. Legal(type, current, path) /\ Len(path) = 0
    BY <1>2 DEF Legal, NoPath
  <2>3. QED  BY <1>2, <2>1, <2>2 DEF path
<1>3. CASE path # NoPath
  <2>1. Shortest(type, current, {target}, path) /\ Len(path) =< MaxPasses(type)
    BY <1>1, <1>3, SearchFindsAShortestWalk
  <2>2. Len(path) = Distance(type, current, {target})
    BY <2>1, ShortestIsAtDistance
  <2>3. QED  BY <2>1, <2>2 DEF path, Shortest
<1>4. QED  BY <1>2, <1>3

----------------------------------------------------------------------------
(* What the tables make of a close *)

LEMMA TaskTable ==
  /\ AllStatuses("task") = {"backlog", "in_progress", "done", "cancelled", "parked"}
  /\ Successors("task", "backlog") = {"in_progress", "done", "cancelled", "parked"}
  /\ Successors("task", "in_progress") = {"done", "cancelled", "backlog"}
  /\ Successors("task", "done") = {"backlog"}
  /\ Successors("task", "cancelled") = {"backlog"}
  /\ Successors("task", "parked") = {"backlog"}
<1>1. AllStatuses("task") = {"backlog", "in_progress", "done", "cancelled", "parked"}
  BY DEF AllStatuses, Transitions
<1>2. Successors("task", "backlog") = {"in_progress", "done", "cancelled", "parked"}
  <2>1. NextStatuses("task", "backlog") = <<"in_progress", "done", "cancelled", "parked">>
    BY DEF NextStatuses, AllStatuses, Transitions
  <2>2. QED  BY <2>1 DEF Successors, Range
<1>3. Successors("task", "in_progress") = {"done", "cancelled", "backlog"}
  <2>1. NextStatuses("task", "in_progress") = <<"done", "cancelled", "backlog">>
    BY DEF NextStatuses, AllStatuses, Transitions
  <2>2. QED  BY <2>1 DEF Successors, Range
<1>4. Successors("task", "done") = {"backlog"}
  <2>1. NextStatuses("task", "done") = <<"backlog">>
    BY DEF NextStatuses, AllStatuses, Transitions
  <2>2. QED  BY <2>1 DEF Successors, Range
<1>5. Successors("task", "cancelled") = {"backlog"}
  <2>1. NextStatuses("task", "cancelled") = <<"backlog">>
    BY DEF NextStatuses, AllStatuses, Transitions
  <2>2. QED  BY <2>1 DEF Successors, Range
<1>6. Successors("task", "parked") = {"backlog"}
  <2>1. NextStatuses("task", "parked") = <<"backlog">>
    BY DEF NextStatuses, AllStatuses, Transitions
  <2>2. QED  BY <2>1 DEF Successors, Range
<1>7. QED  BY <1>1, <1>2, <1>3, <1>4, <1>5, <1>6

LEMMA BugTable ==
  /\ AllStatuses("bug") = {"triage", "confirmed", "in_progress", "resolved", "wont_fix", "parked"}
  /\ Successors("bug", "triage") = {"confirmed", "wont_fix", "parked"}
  /\ Successors("bug", "confirmed") = {"in_progress", "parked"}
  /\ Successors("bug", "in_progress") = {"resolved", "wont_fix", "confirmed"}
  /\ Successors("bug", "resolved") = {"triage"}
  /\ Successors("bug", "wont_fix") = {"triage"}
  /\ Successors("bug", "parked") = {"triage", "confirmed"}
<1>1. AllStatuses("bug") = {"triage", "confirmed", "in_progress", "resolved", "wont_fix", "parked"}
  BY DEF AllStatuses, Transitions
<1>2. Successors("bug", "triage") = {"confirmed", "wont_fix", "parked"}
  <2>1. NextStatuses("bug", "triage") = <<"confirmed", "wont_fix", "parked">>
    BY DEF NextStatuses, AllStatuses, Transitions
  <2>2. QED  BY <2>1 DEF Successors, Range
<1>3. Successors("bug", "confirmed") = {"in_progress", "parked"}
  <2>1. NextStatuses("bug", "confirmed") = <<"in_progress", "parked">>
    BY DEF NextStatuses, AllStatuses, Transitions
  <2>2. QED  BY <2>1 DEF Successors, Range
<1>4. Successors("bug", "in_progress") = {"resolved", "wont_fix", "confirmed"}
  <2>1. NextStatuses("bug", "in_progress") = <<"resolved", "wont_fix", "confirmed">>
    BY DEF NextStatuses, AllStatuses, Transitions
  <2>2. QED  BY <2>1 DEF Successors, Range
<1>5. Successors("bug", "resolved") = {"triage"}
  <2>1. NextStatuses("bug", "resolved") = <<"triage">>
    BY DEF NextStatuses, AllStatuses, Transitions
  <2>2. QED  BY <2>1 DEF Successors, Range
<1>6. Successors("bug", "wont_fix") = {"triage"}
  <2>1. NextStatuses("bug", "wont_fix") = <<"triage">>
    BY DEF NextStatuses, AllStatuses, Transitions
  <2>2. QED  BY <2>1 DEF Successors, Range
<1>7. Successors("bug", "parked") = {"triage", "confirmed"}
  <2>1. NextStatuses("bug", "parked") = <<"triage", "confirmed">>
    BY DEF NextStatuses, AllStatuses, Transitions
  <2>2. QED  BY <2>1 DEF Successors, Range
<1>8. QED  BY <1>1, <1>2, <1>3, <1>4, <1>5, <1>6, <1>7

LEMMA FeatureTable ==
  /\ AllStatuses("feature") = {"proposed", "approved", "in_progress", "shipped", "rejected", "parked"}
  /\ Successors("feature", "proposed") = {"approved", "rejected", "parked"}
  /\ Successors("feature", "approved") = {"in_progress", "parked"}
  /\ Successors("feature", "in_progress") = {"shipped", "rejected", "approved"}
  /\ Successors("feature", "shipped") = {"proposed"}
  /\ Successors("feature", "rejected") = {"proposed"}
  /\ Successors("feature", "parked") = {"proposed", "approved"}
<1>1. AllStatuses("feature") = {"proposed", "approved", "in_progress", "shipped", "rejected", "parked"}
  BY DEF AllStatuses, Transitions
<1>2. Successors("feature", "proposed") = {"approved", "rejected", "parked"}
  <2>1. NextStatuses("feature", "proposed") = <<"approved", "rejected", "parked">>
    BY DEF NextStatuses, AllStatuses, Transitions
  <2>2. QED  BY <2>1 DEF Successors, Range
<1>3. Successors("feature", "approved") = {"in_progress", "parked"}
  <2>1. NextStatuses("feature", "approved") = <<"in_progress", "parked">>
    BY DEF NextStatuses, AllStatuses, Transitions
  <2>2. QED  BY <2>1 DEF Successors, Range
<1>4. Successors("feature", "in_progress") = {"shipped", "rejected", "approved"}
  <2>1. NextStatuses("feature", "in_progress") = <<"shipped", "rejected", "approved">>
    BY DEF NextStatuses, AllStatuses, Transitions
  <2>2. QED  BY <2>1 DEF Successors, Range
<1>5. Successors("feature", "shipped") = {"proposed"}
  <2>1. NextStatuses("feature", "shipped") = <<"proposed">>
    BY DEF NextStatuses, AllStatuses, Transitions
  <2>2. QED  BY <2>1 DEF Successors, Range
<1>6. Successors("feature", "rejected") = {"proposed"}
  <2>1. NextStatuses("feature", "rejected") = <<"proposed">>
    BY DEF NextStatuses, AllStatuses, Transitions
  <2>2. QED  BY <2>1 DEF Successors, Range
<1>7. Successors("feature", "parked") = {"proposed", "approved"}
  <2>1. NextStatuses("feature", "parked") = <<"proposed", "approved">>
    BY DEF NextStatuses, AllStatuses, Transitions
  <2>2. QED  BY <2>1 DEF Successors, Range
<1>8. QED  BY <1>1, <1>2, <1>3, <1>4, <1>5, <1>6, <1>7

LEMMA DecisionTable ==
  /\ AllStatuses("decision") = {"open", "decided", "deferred", "parked"}
  /\ Successors("decision", "open") = {"decided", "deferred", "parked"}
  /\ Successors("decision", "decided") = {"open"}
  /\ Successors("decision", "deferred") = {"open"}
  /\ Successors("decision", "parked") = {"open"}
<1>1. AllStatuses("decision") = {"open", "decided", "deferred", "parked"}
  BY DEF AllStatuses, Transitions
<1>2. Successors("decision", "open") = {"decided", "deferred", "parked"}
  <2>1. NextStatuses("decision", "open") = <<"decided", "deferred", "parked">>
    BY DEF NextStatuses, AllStatuses, Transitions
  <2>2. QED  BY <2>1 DEF Successors, Range
<1>3. Successors("decision", "decided") = {"open"}
  <2>1. NextStatuses("decision", "decided") = <<"open">>
    BY DEF NextStatuses, AllStatuses, Transitions
  <2>2. QED  BY <2>1 DEF Successors, Range
<1>4. Successors("decision", "deferred") = {"open"}
  <2>1. NextStatuses("decision", "deferred") = <<"open">>
    BY DEF NextStatuses, AllStatuses, Transitions
  <2>2. QED  BY <2>1 DEF Successors, Range
<1>5. Successors("decision", "parked") = {"open"}
  <2>1. NextStatuses("decision", "parked") = <<"open">>
    BY DEF NextStatuses, AllStatuses, Transitions
  <2>2. QED  BY <2>1 DEF Successors, Range
<1>6. QED  BY <1>1, <1>2, <1>3, <1>4, <1>5

\* From every open status of a type each of its terminals is two transitions
\* away, or three, and no way as short leads through a status that a default
\* board hides.
WaysToClose(type, current, wanted) ==
  \/ wanted \in Successors(type, current)
  \/ \E a \in Successors(type, current) : wanted \in Successors(type, a)
  \/ /\ wanted \in {"resolved", "shipped"}
     /\ \E a \in Successors(type, current) : \E b \in Successors(type, a) :
          wanted \in Successors(type, b)

LEMMA TerminalsAreNear ==
  ASSUME NEW type \in TypeNames, NEW current \in AllStatuses(type) \ TerminalStatuses[type],
         NEW wanted \in TerminalStatuses[type]
  PROVE  WaysToClose(type, current, wanted)
<1>1. CASE type = "task"
  <2>1. TerminalStatuses[type] = {"done", "cancelled"}
    BY <1>1 DEF TerminalStatuses
  <2>2. CASE current = "backlog"
    BY <1>1, <2>1, <2>2, TaskTable DEF WaysToClose
  <2>3. CASE current = "in_progress"
    BY <1>1, <2>1, <2>3, TaskTable DEF WaysToClose
  <2>4. CASE current = "parked"
    BY <1>1, <2>1, <2>4, TaskTable DEF WaysToClose
  <2>5. QED  BY <1>1, <2>1, <2>2, <2>3, <2>4, TaskTable
<1>2. CASE type = "bug"
  <2>1. TerminalStatuses[type] = {"resolved", "wont_fix"}
    BY <1>2 DEF TerminalStatuses
  <2>2. CASE current = "triage"
    BY <1>2, <2>1, <2>2, BugTable DEF WaysToClose
  <2>3. CASE current = "confirmed"
    BY <1>2, <2>1, <2>3, BugTable DEF WaysToClose
  <2>4. CASE current = "in_progress"
    BY <1>2, <2>1, <2>4, BugTable DEF WaysToClose
  <2>5. CASE current = "parked"
    BY <1>2, <2>1, <2>5, BugTable DEF WaysToClose
  <2>6. QED  BY <1>2, <2>1, <2>2, <2>3, <2>4, <2>5, BugTable
<1>3. CASE type = "feature"
  <2>1. TerminalStatuses[type] = {"shipped", "rejected"}
    BY <1>3 DEF TerminalStatuses
  <2>2. CASE current = "proposed"
    BY <1>3, <2>1, <2>2, FeatureTable DEF WaysToClose
  <2>3. CASE current = "approved"
    BY <1>3, <2>1, <2>3, FeatureTable DEF WaysToClose
  <2>4. CASE current = "in_progress"
    BY <1>3, <2>1, <2>4, FeatureTable DEF WaysToClose
  <2>5. CASE current = "parked"
    BY <1>3, <2>1, <2>5, FeatureTable DEF WaysToClose
  <2>6. QED  BY <1>3, <2>1, <2>2, <2>3, <2>4, <2>5, FeatureTable
<1>4. CASE type = "decision"
  <2>1. TerminalStatuses[type] = {"decided", "deferred"}
    BY <1>4 DEF TerminalStatuses
  <2>2. CASE current = "open"
    BY <1>4, <2>1, <2>2, DecisionTable DEF WaysToClose
  <2>3. CASE current = "parked"
    BY <1>4, <2>1, <2>3, DecisionTable DEF WaysToClose
  <2>4. QED  BY <1>4, <2>1, <2>2, <2>3, DecisionTable
<1>5. QED  BY <1>1, <1>2, <1>3, <1>4 DEF TypeNames

LEMMA HiddenIsADetour ==
  ASSUME NEW type \in TypeNames, NEW hidden \in HiddenStatuses(type),
         NEW wanted \in TerminalStatuses[type]
  PROVE  /\ wanted \notin Successors(type, hidden)
         /\ wanted \in {"resolved", "shipped"} =>
              \A b \in Successors(type, hidden) : wanted \notin Successors(type, b)
<1>1. CASE type = "task"
  <2>1. /\ TerminalStatuses[type] = {"done", "cancelled"}
        /\ HiddenStatuses(type) = {"done", "cancelled", "parked"}
    BY <1>1 DEF TerminalStatuses, HiddenStatuses, Parked
  <2>2. CASE hidden = "done"
    BY <1>1, <2>1, <2>2, TaskTable
  <2>3. CASE hidden = "cancelled"
    BY <1>1, <2>1, <2>3, TaskTable
  <2>4. CASE hidden = "parked"
    BY <1>1, <2>1, <2>4, TaskTable
  <2>5. QED  BY <2>1, <2>2, <2>3, <2>4
<1>2. CASE type = "bug"
  <2>1. /\ TerminalStatuses[type] = {"resolved", "wont_fix"}
        /\ HiddenStatuses(type) = {"resolved", "wont_fix", "parked"}
    BY <1>2 DEF TerminalStatuses, HiddenStatuses, Parked
  <2>2. CASE hidden = "resolved"
    BY <1>2, <2>1, <2>2, BugTable
  <2>3. CASE hidden = "wont_fix"
    BY <1>2, <2>1, <2>3, BugTable
  <2>4. CASE hidden = "parked"
    BY <1>2, <2>1, <2>4, BugTable
  <2>5. QED  BY <2>1, <2>2, <2>3, <2>4
<1>3. CASE type = "feature"
  <2>1. /\ TerminalStatuses[type] = {"shipped", "rejected"}
        /\ HiddenStatuses(type) = {"shipped", "rejected", "parked"}
    BY <1>3 DEF TerminalStatuses, HiddenStatuses, Parked
  <2>2. CASE hidden = "shipped"
    BY <1>3, <2>1, <2>2, FeatureTable
  <2>3. CASE hidden = "rejected"
    BY <1>3, <2>1, <2>3, FeatureTable
  <2>4. CASE hidden = "parked"
    BY <1>3, <2>1, <2>4, FeatureTable
  <2>5. QED  BY <2>1, <2>2, <2>3, <2>4
<1>4. CASE type = "decision"
  <2>1. /\ TerminalStatuses[type] = {"decided", "deferred"}
        /\ HiddenStatuses(type) = {"decided", "deferred", "parked"}
    BY <1>4 DEF TerminalStatuses, HiddenStatuses, Parked
  <2>2. CASE hidden = "decided"
    BY <1>4, <2>1, <2>2, DecisionTable
  <2>3. CASE hidden = "deferred"
    BY <1>4, <2>1, <2>3, DecisionTable
  <2>4. CASE hidden = "parked"
    BY <1>4, <2>1, <2>4, DecisionTable
  <2>5. QED  BY <2>1, <2>2, <2>3, <2>4
<1>5. QED  BY <1>1, <1>2, <1>3, <1>4 DEF TypeNames

\* The walk of a close, from any status a ticket can be left in.  closing is
\* what close_ticket passes to _find_close_path: it answers itself for a closed
\* ticket and for a resolution that is not of the type.
LEMMA CloseWalk ==
  ASSUME NEW type \in TypeNames, NEW current \in StatusNames \ TerminalStatuses[type],
         NEW resolution \in TerminalStatuses[type] \cup {NoResolution}
  PROVE  LET path == FindClosePath(type, current, resolution)
             wanted == IF resolution = NoResolution THEN PositiveTerminal[type] ELSE resolution
         IN  IF current \in AllStatuses(type)
             THEN /\ wanted \in TerminalStatuses[type]
                  /\ Shortest(type, current, {wanted}, path) /\ Len(path) =< MaxPasses(type)
                  /\ \A i \in 1..Len(path) - 1 : path[i] \notin HiddenStatuses(type)
             ELSE path = NoPath
<1> DEFINE path == FindClosePath(type, current, resolution)
           wanted == IF resolution = NoResolution THEN PositiveTerminal[type] ELSE resolution
           direct == BreadthFirst(type, current, {wanted})
<1>1. wanted \in TerminalStatuses[type]
  BY DEF TypeNames, TerminalStatuses, PositiveTerminal
<1>2. path = IF direct # NoPath THEN direct ELSE BreadthFirst(type, current, TerminalStatuses[type])
  BY <1>1 DEF FindClosePath
<1>3. current \notin {wanted} /\ current \notin TerminalStatuses[type]
  BY <1>1
<1> HIDE DEF path, wanted, direct
<1>4. ASSUME current \notin AllStatuses(type), NEW targets, current \notin targets
      PROVE  BreadthFirst(type, current, targets) = NoPath
  <2>1. SUFFICES ASSUME BreadthFirst(type, current, targets) # NoPath PROVE FALSE
    OBVIOUS
  <2> DEFINE found == BreadthFirst(type, current, targets)
  <2>2. /\ found \in Seq(StatusNames) /\ found # <<>>
        /\ Legal(type, current, found)
    <3>1. Shortest(type, current, targets, found)
      BY <1>4, <2>1, SearchOutcome
    <3> HIDE DEF found
    <3>2. QED  BY <3>1 DEF Shortest, NoPath
  <2> HIDE DEF found
  <2>3. 1 \in 1..Len(found)
    BY <2>2
  <2>4. ValidTransition(type, current, found[1])
    BY <2>2, <2>3 DEF Legal
  <2>5. QED  BY <1>4, <2>4 DEF ValidTransition
<1>5. CASE current \notin AllStatuses(type)
  <2>1. direct = NoPath /\ BreadthFirst(type, current, TerminalStatuses[type]) = NoPath
    BY <1>3, <1>4, <1>5 DEF direct
  <2>2. path = NoPath
    BY <1>2, <2>1
  <2>3. QED  BY <1>5, <2>2 DEF path
<1>6. CASE current \in AllStatuses(type)
  <2>1. WaysToClose(type, current, wanted)
    BY <1>1, <1>6, TerminalsAreNear
  <2>2. direct # NoPath
    <3>1. SUFFICES ASSUME direct = NoPath PROVE FALSE
      OBVIOUS
    <3>2. PICK V : /\ current \in V /\ V \cap {wanted} = {}
                   /\ \A status \in V : Successors(type, status) \subseteq V
      BY <1>3, <3>1, SearchOutcome DEF direct
    <3>3. QED  BY <2>1, <3>2 DEF WaysToClose
  <2>3. path = direct
    BY <1>2, <2>2
  <2>4. Shortest(type, current, {wanted}, path) /\ Len(path) =< MaxPasses(type)
    BY <1>3, <2>2, <2>3, SearchOutcome DEF direct
  <2>5. /\ path \in Seq(StatusNames) /\ Len(path) \in Nat \ {0} /\ MaxPasses(type) \in Nat
        /\ path[Len(path)] = wanted
    BY <2>4, StatusesAreFinite DEF Shortest, NoPath
  <2>6. ASSUME NEW i \in 1..Len(path) - 1
        PROVE  path[i + 1] \in Successors(type, path[i])
    <3>1. i + 1 \in 1..Len(path) /\ i + 1 # 1 /\ i + 1 - 1 = i
      BY <2>5
    <3>2. ValidTransition(type, IF i + 1 = 1 THEN current ELSE path[i + 1 - 1], path[i + 1])
      BY <2>4, <3>1 DEF Shortest, Legal
    <3>3. ValidTransition(type, path[i], path[i + 1])
      BY <3>1, <3>2
    <3>4. QED  BY <3>3, ValidIsSuccessor
  <2>7. \A n \in Nat : n < Len(path) => wanted \notin Within(type, current)[n]
    BY <2>4, <2>5 DEF Shortest, Beyond
  <2>8. current \in Within(type, current)[0]
    BY WithinIs
  <2>9. Len(path) =< 3 /\ (wanted \notin {"resolved", "shipped"} => Len(path) =< 2)
    <3>1. CASE wanted \in Successors(type, current)
      <4>1. Len(path) > 0 => wanted \in Within(type, current)[1]
        BY <2>4, <2>5, <2>8, <3>1, StepWithin
      <4>2. ~ (1 < Len(path))
        BY <2>5, <2>7, <4>1
      <4>3. QED  BY <2>5, <4>2
    <3>2. CASE \E a \in Successors(type, current) : wanted \in Successors(type, a)
      <4>1. PICK a \in Successors(type, current) : wanted \in Successors(type, a)
        BY <3>2
      <4>2. SUFFICES ASSUME 2 < Len(path) PROVE FALSE
        BY <2>5
      <4>3. 0 < MaxPasses(type) /\ 1 < MaxPasses(type)
        BY <2>4, <2>5, <4>2
      <4>4. a \in Within(type, current)[0 + 1]
        BY <2>8, <4>1, <4>3, StepWithin
      <4>5. wanted \in Within(type, current)[1 + 1]
        BY <4>1, <4>3, <4>4, StepWithin
      <4>6. QED  BY <2>7, <4>2, <4>5
    <3>3. CASE /\ wanted \in {"resolved", "shipped"}
               /\ \E a \in Successors(type, current) : \E b \in Successors(type, a) :
                    wanted \in Successors(type, b)
      <4>1. PICK a \in Successors(type, current) : \E b \in Successors(type, a) :
                    wanted \in Successors(type, b)
        BY <3>3
      <4>2. PICK b \in Successors(type, a) : wanted \in Successors(type, b)
        BY <4>1
      <4>3. SUFFICES ASSUME 3 < Len(path) PROVE FALSE
        BY <2>5, <3>3
      <4>4. 0 < MaxPasses(type) /\ 1 < MaxPasses(type) /\ 2 < MaxPasses(type)
        BY <2>4, <2>5, <4>3
      <4>5. a \in Within(type, current)[0 + 1]
        BY <2>8, <4>1, <4>4, StepWithin
      <4>6. b \in Within(type, current)[1 + 1]
        BY <4>2, <4>4, <4>5, StepWithin
      <4>7. wanted \in Within(type, current)[2 + 1]
        BY <4>2, <4>4, <4>6, StepWithin
      <4>8. QED  BY <2>7, <4>3, <4>7
    <3>4. QED  BY <2>1, <3>1, <3>2, <3>3 DEF WaysToClose
  <2>10. ASSUME NEW i \in 1..Len(path) - 1 PROVE path[i] \notin HiddenStatuses(type)
    <3>1. SUFFICES ASSUME path[i] \in HiddenStatuses(type) PROVE FALSE
      OBVIOUS
    <3>2. path[i + 1] \in Successors(type, path[i])
      BY <2>6
    <3>3. i + 1 # Len(path)
      BY <1>1, <2>5, <3>1, <3>2, HiddenIsADetour
    <3>4. i = 1 /\ Len(path) = 3 /\ wanted \in {"resolved", "shipped"}
      <4>1. i = 1 /\ Len(path) = 3
        <5>1. Len(path) \in Nat /\ Len(path) =< 3
          BY <2>5, <2>9
        <5>2. \A l \in Nat : \A k \in 1..l - 1 : l =< 3 /\ k + 1 # l => k = 1 /\ l = 3
          OBVIOUS
        <5>3. QED  BY <3>3, <5>1, <5>2
      <4>2. ~ (Len(path) =< 2)
        BY <4>1
      <4>3. QED  BY <2>9, <4>1, <4>2
    <3>5. 1 + 1 \in 1..Len(path) - 1
      BY <3>4
    <3>6. path[1 + 1 + 1] \in Successors(type, path[1 + 1]) /\ path[1 + 1] \in Successors(type, path[1])
      BY <2>6, <3>2, <3>4, <3>5
    <3>7. path[1 + 1 + 1] = wanted
      BY <2>5, <3>4
    <3>8. QED  BY <1>1, <3>1, <3>4, <3>6, <3>7, HiddenIsADetour
  <2>11. QED  BY <1>1, <1>6, <2>4, <2>10 DEF path, wanted
<1>7. QED  BY <1>5, <1>6

=============================================================================
