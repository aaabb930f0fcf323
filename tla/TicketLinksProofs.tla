------------------------- MODULE TicketLinksProofs -------------------------
(***************************************************************************)
(* Proofs about TicketLinks: one call at a time, however long, links keep  *)
(* the rules that add_link looks after with a SELECT.                      *)
(***************************************************************************)
EXTENDS TicketLinks, TLAPS

(* The invariant *)

\* The UNIQUE constraint of ticket_links.
UniqueLinks ==
  \A k, l \in links :
    k.source = l.source /\ k.target = l.target /\ k.type = l.type => k = l

\* A link to itself is refused before it is looked for.
NoSelfLink == \A l \in links : l.source # l.target

AsksForTwoTickets ==
  \A s \in Sessions : call[s].pc = "insert" => call[s].source # call[s].target

LinksInv == TypeOK /\ UniqueLinks /\ NoSelfLink /\ AsksForTwoTickets

\* What add_link has seen is so still when it INSERTs.
LookIsCurrent ==
  \A s \in Sessions :
    call[s].pc = "insert" =>
      /\ ~ LinkCycle(call[s].source, call[s].target, call[s].type)
      /\ ~ ReverseExists(call[s].source, call[s].target, call[s].type)

SerialInv == LookIsCurrent /\ NoMutualBlocks /\ OneRelatedLink

----------------------------------------------------------------------------

\* A step of one session.
Step(s) ==
  \/ \E source, target \in Nowhere, type \in LinkTypes : AddLook(s, source, target, type)
  \/ AddInsert(s)
  \/ AddRejected(s)
  \/ AddAnswer(s)
  \/ \E ticket \in Nowhere, context \in Contexts : AddContextLink(s, ticket, context)
  \/ \E kind \in Kinds, scope \in Nowhere : \E id \in GivenIds(kind) : RemoveLink(s, kind, id, scope)
  \/ RemoveContextLink(s)
  \/ Abort(s)

LEMMA CallShapes ==
  ASSUME TypeOK, NEW s \in Sessions
  PROVE  /\ call[s].pc \in {"insert", "lookup"} => call[s] \in AddCall
         /\ call[s].pc = "delete" => call[s] \in RemoveCall
         /\ call[s] = Idle <=> call[s].pc = "idle"
BY DEF TypeOK, AddCall, RemoveCall, Idle

LEMMA FoundLink ==
  ASSUME TypeOK, NEW source, NEW target, NEW type
  PROVE  FindLinkId(source, target, type) \in Nat
BY DEF TypeOK, FindLinkId, Between, Link, Ids, NoLink

LEMMA AnswerTypes ==
  ASSUME TypeOK, NEW s \in Sessions, NEW kind \in Answers, NEW id \in Nat,
         NEW source \in Nowhere, NEW target \in Nowhere, Answer(s, kind, id, source, target)
  PROVE  answer' \in [Sessions -> [kind : Answers, id : Nat, source : Nowhere, target : Nowhere]]
BY DEF TypeOK, Answer

LEMMA CallTypes ==
  ASSUME TypeOK, NEW s \in Sessions, NEW c \in {Idle} \cup AddCall \cup RemoveCall, Become(s, c)
  PROVE  call' \in [Sessions -> {Idle} \cup AddCall \cup RemoveCall]
BY DEF TypeOK, Become

LEMMA NextIdTypes ==
  ASSUME TypeOK, NEW kind \in Kinds, nextId' = [nextId EXCEPT ![kind] = @ + 1]
  PROVE  nextId' \in [Kinds -> Ids]
<1> DEFINE next == nextId[kind] + 1
<1>1. nextId \in [Kinds -> Ids] /\ next \in Ids
  <2>1. nextId[kind] \in Nat
    BY DEF TypeOK, Ids
  <2> QED BY <2>1 DEF TypeOK, Ids
<1>2. nextId' = [nextId EXCEPT ![kind] = next]
  OBVIOUS
<1> HIDE DEF next
<1> QED BY <1>1, <1>2

LEMMA InitHolds == ASSUME Init PROVE LinksInv /\ SerialInv
<1>1. TypeOK
  BY DEF Init, TypeOK, Ids, NoAnswer, Answers, NoLink, Nowhere
<1>2. \A s \in Sessions : call[s].pc = "idle"
  BY DEF Init, Idle
<1> QED BY <1>1, <1>2 DEF Init, LinksInv, UniqueLinks, NoSelfLink, AsksForTwoTickets,
                           SerialInv, LookIsCurrent, NoMutualBlocks, OneRelatedLink

LEMMA TypeStep == ASSUME TypeOK, NEW s \in Sessions, Step(s) PROVE TypeOK'
<1>0. /\ NoLink \in Nat /\ Idle \in {Idle} \cup AddCall \cup RemoveCall
      /\ {"linked", "self_link", "link_cycle", "already_linked"} \subseteq Answers
  BY DEF NoLink, Answers
<1>1. ASSUME NEW source \in Nowhere, NEW target \in Nowhere, NEW type \in LinkTypes,
             AddLook(s, source, target, type)
      PROVE  TypeOK'
  <2>1. calls' \in Nat /\ UNCHANGED <<links, contextLinks, nextId>>
    BY <1>1 DEF AddLook, Begin, TypeOK
  <2>2. CASE \E kind \in Answers, id \in Nat : Answer(s, kind, id, source, target) /\ UNCHANGED call
    BY <2>1, <2>2, AnswerTypes DEF TypeOK
  <2>3. CASE /\ Become(s, [pc |-> "insert", source |-> source, target |-> target, type |-> type])
             /\ UNCHANGED answer
    <3> DEFINE c == [pc |-> "insert", source |-> source, target |-> target, type |-> type]
    <3>1. c \in {Idle} \cup AddCall \cup RemoveCall
      BY DEF AddCall
    <3> HIDE DEF c
    <3>2. Become(s, c)
      BY <2>3 DEF c
    <3> QED BY <2>1, <2>3, <3>1, <3>2, CallTypes DEF TypeOK
  <2> QED BY <1>0, <1>1, <2>2, <2>3, FoundLink DEF AddLook
<1>2. CASE AddInsert(s)
  <2> DEFINE c == call[s]
             new == [id |-> nextId["ticket"], source |-> c.source, target |-> c.target, type |-> c.type]
  <2>1. c \in AddCall /\ {c.source, c.target} \subseteq Tickets /\ nextId["ticket"] \in Ids
    BY <1>2, CallShapes DEF AddInsert, BreaksAConstraint, TypeOK, Kinds
  <2>2. new \in Link
    BY <2>1 DEF AddCall, Link
  <2>3. links' \subseteq Link
    BY <1>2, <2>2 DEF AddInsert, TypeOK
  <2>4. nextId' \in [Kinds -> Ids]
    BY <1>2, NextIdTypes DEF AddInsert, Kinds
  <2>5. nextId["ticket"] \in Nat /\ c.source \in Nowhere /\ c.target \in Nowhere
    BY <2>1 DEF Ids, AddCall
  <2>6. answer' \in [Sessions -> [kind : Answers, id : Nat, source : Nowhere, target : Nowhere]]
    BY <1>0, <1>2, <2>5, AnswerTypes DEF AddInsert
  <2> QED BY <1>0, <1>2, <2>3, <2>4, <2>6, CallTypes DEF AddInsert, TypeOK
<1>3. CASE AddRejected(s)
  <2>1. [call[s] EXCEPT !.pc = "lookup"] \in {Idle} \cup AddCall \cup RemoveCall
    BY <1>3, CallShapes DEF AddRejected, AddCall
  <2>2. nextId' \in [Kinds -> Ids]
    BY <1>3, NextIdTypes DEF AddRejected, Kinds
  <2> QED BY <1>3, <2>1, <2>2, CallTypes DEF AddRejected, TypeOK
<1>4. CASE AddAnswer(s)
  <2>1. call[s].source \in Nowhere /\ call[s].target \in Nowhere
    BY <1>4, CallShapes DEF AddAnswer, AddCall
  <2>2. answer' \in [Sessions -> [kind : Answers, id : Nat, source : Nowhere, target : Nowhere]]
    BY <1>0, <1>4, <2>1, FoundLink, AnswerTypes DEF AddAnswer
  <2> QED BY <1>0, <1>4, <2>2, CallTypes DEF AddAnswer, TypeOK
<1>5. ASSUME NEW ticket \in Nowhere, NEW context \in Contexts, AddContextLink(s, ticket, context)
      PROVE  TypeOK'
  <2>1. ticket \in Tickets =>
          [id |-> nextId["context"], ticket |-> ticket, context |-> context] \in ContextLink
    BY DEF TypeOK, ContextLink, Kinds
  <2>2. contextLinks' \subseteq ContextLink
    BY <1>5, <2>1 DEF AddContextLink, TypeOK
  <2>3. nextId' \in [Kinds -> Ids] /\ calls' \in Nat
    BY <1>5, NextIdTypes DEF AddContextLink, Begin, TypeOK, Kinds
  <2> QED BY <1>5, <2>2, <2>3 DEF AddContextLink, TypeOK
<1>6. ASSUME NEW kind \in Kinds, NEW scope \in Nowhere, NEW id \in GivenIds(kind),
             RemoveLink(s, kind, id, scope)
      PROVE  TypeOK'
  <2> DEFINE c == [pc |-> "delete", kind |-> kind, id |-> id, scope |-> scope]
  <2>1. c \in {Idle} \cup AddCall \cup RemoveCall
    BY DEF RemoveCall, GivenIds, Ids, TypeOK
  <2>2. UNCHANGED call \/ Become(s, c)
    BY <1>6 DEF RemoveLink
  <2> HIDE DEF c
  <2>3. call' \in [Sessions -> {Idle} \cup AddCall \cup RemoveCall]
    BY <2>1, <2>2, CallTypes DEF TypeOK
  <2> QED BY <1>6, <2>3 DEF RemoveLink, Begin, TypeOK
<1>7. CASE RemoveContextLink(s)
  BY <1>0, <1>7, CallTypes DEF RemoveContextLink, TypeOK
<1>8. CASE Abort(s)
  BY <1>0, <1>8, CallTypes DEF Abort, TypeOK
<1> QED BY <1>1, <1>2, <1>3, <1>4, <1>5, <1>6, <1>7, <1>8 DEF Step

----------------------------------------------------------------------------
(* What a step does to the links: it adds the one that its call asks for,  *)
(* or none.                                                                *)

NoReverse(source, target, type) ==
  ~ LinkCycle(source, target, type) /\ ~ ReverseExists(source, target, type)

\* Other calls stay as they are; the call is about to INSERT only if it has looked.
OthersStay(s) ==
  /\ \A d \in Sessions \ {s} : call'[d] = call[d]
  /\ call'[s].pc = "insert" /\ call'[s] # call[s] =>
       /\ call'[s].source # call'[s].target
       /\ NoReverse(call'[s].source, call'[s].target, call'[s].type)

Adds(s) ==
  /\ call[s].pc = "insert" /\ ~ BreaksAConstraint(call[s])
  /\ \E id : links' = links \cup {[id |-> id, source |-> call[s].source,
                                   target |-> call[s].target, type |-> call[s].type]}
  /\ call'[s].pc = "idle"

LEMMA StepAddsOrNot ==
  ASSUME TypeOK, NEW s \in Sessions, Step(s)
  PROVE  OthersStay(s) /\ (Adds(s) \/ links' \subseteq links)
<1>0. Idle.pc = "idle"
  BY DEF Idle
<1>1. ASSUME NEW source \in Nowhere, NEW target \in Nowhere, NEW type \in LinkTypes,
             AddLook(s, source, target, type)
      PROVE  OthersStay(s) /\ links' \subseteq links
  BY <1>1 DEF AddLook, Become, TypeOK, OthersStay, NoReverse
<1>2. CASE AddInsert(s)
  BY <1>0, <1>2 DEF AddInsert, Become, TypeOK, OthersStay, Adds
<1>3. CASE AddRejected(s)
  <2>1. call'[s].pc = "lookup" /\ \A d \in Sessions \ {s} : call'[d] = call[d]
    BY <1>3, CallShapes DEF AddRejected, Become, TypeOK, AddCall
  <2> QED BY <1>3, <2>1 DEF AddRejected, OthersStay
<1>4. CASE AddAnswer(s)
  BY <1>0, <1>4 DEF AddAnswer, Become, TypeOK, OthersStay
<1>5. ASSUME NEW ticket \in Nowhere, NEW context \in Contexts, AddContextLink(s, ticket, context)
      PROVE  OthersStay(s) /\ links' \subseteq links
  BY <1>5 DEF AddContextLink, OthersStay
<1>6. ASSUME NEW kind \in Kinds, NEW scope \in Nowhere, NEW id \in GivenIds(kind),
             RemoveLink(s, kind, id, scope)
      PROVE  OthersStay(s) /\ links' \subseteq links
  BY <1>6 DEF RemoveLink, Become, TypeOK, OthersStay
<1>7. CASE RemoveContextLink(s)
  BY <1>0, <1>7 DEF RemoveContextLink, Become, TypeOK, OthersStay
<1>8. CASE Abort(s)
  BY <1>0, <1>8 DEF Abort, Become, TypeOK, OthersStay
<1> QED BY <1>1, <1>2, <1>3, <1>4, <1>5, <1>6, <1>7, <1>8 DEF Step

LEMMA LinksStep == ASSUME LinksInv, [Next]_vars PROVE LinksInv'
<1>1. ASSUME NEW s \in Sessions, Step(s) PROVE LinksInv'
  <2>0. TypeOK /\ TypeOK'
    BY <1>1, TypeStep DEF LinksInv
  <2>1. OthersStay(s) /\ (Adds(s) \/ links' \subseteq links)
    BY <1>1, <2>0, StepAddsOrNot
  <2>2. AsksForTwoTickets'
    BY <2>1 DEF OthersStay, LinksInv, AsksForTwoTickets
  <2>3. CASE links' \subseteq links
    BY <2>0, <2>2, <2>3 DEF LinksInv, UniqueLinks, NoSelfLink
  <2>4. CASE Adds(s)
    <3>1. PICK id : links' = links \cup {[id |-> id, source |-> call[s].source,
                                         target |-> call[s].target, type |-> call[s].type]}
      BY <2>4 DEF Adds
    <3>2. Between(call[s].source, call[s].target, call[s].type) = {}
      BY <2>4 DEF Adds, BreaksAConstraint
    <3>3. UniqueLinks'
      BY <3>1, <3>2 DEF LinksInv, UniqueLinks, Between
    <3>4. NoSelfLink'
      BY <2>4, <3>1 DEF Adds, LinksInv, NoSelfLink, AsksForTwoTickets
    <3> QED BY <2>0, <2>2, <3>3, <3>4 DEF LinksInv
  <2> QED BY <2>1, <2>3, <2>4
<1>2. CASE UNCHANGED vars
  BY <1>2 DEF vars, LinksInv, TypeOK, UniqueLinks, NoSelfLink, AsksForTwoTickets
<1> QED BY <1>1, <1>2 DEF Next, Step

\* Only one call runs at a time.
SoleSession == \A s, d \in Sessions : s = d

LEMMA SerialStep ==
  ASSUME SoleSession, LinksInv, SerialInv, [Next]_vars
  PROVE  SerialInv'
<1>1. ASSUME NEW s \in Sessions, Step(s) PROVE SerialInv'
  <2>1. OthersStay(s) /\ (Adds(s) \/ links' \subseteq links)
    BY <1>1, StepAddsOrNot DEF LinksInv
  <2>2. \A d \in Sessions : d = s
    BY DEF SoleSession
  <2>3. CASE links' \subseteq links
    <3>1. \A source, target, type :
            Between(source, target, type)' \subseteq Between(source, target, type)
      BY <2>3 DEF Between
    <3>2. \A source, target, type : NoReverse(source, target, type) => NoReverse(source, target, type)'
      BY <3>1 DEF NoReverse, LinkCycle, ReverseExists
    <3>3. LookIsCurrent'
      <4>1. SUFFICES ASSUME call'[s].pc = "insert"
                     PROVE  NoReverse(call[s].source, call[s].target, call[s].type)'
        BY <2>2 DEF LookIsCurrent, NoReverse
      <4>2. PICK source, target, type :
              /\ source = call'[s].source /\ target = call'[s].target /\ type = call'[s].type
        OBVIOUS
      <4>3. NoReverse(source, target, type)
        BY <2>1, <4>1, <4>2 DEF OthersStay, SerialInv, LookIsCurrent, NoReverse
      <4>4. NoReverse(source, target, type)'
        BY <3>2, <4>3
      <4> QED BY <4>2, <4>4 DEF NoReverse, LinkCycle, ReverseExists, Between
    <3>4. NoMutualBlocks' /\ OneRelatedLink'
      BY <2>3 DEF SerialInv, NoMutualBlocks, OneRelatedLink
    <3> QED BY <3>3, <3>4 DEF SerialInv
  <2>4. CASE Adds(s)
    <3> DEFINE c == call[s]
    <3>1. PICK id : links' = links \cup {[id |-> id, source |-> c.source,
                                         target |-> c.target, type |-> c.type]}
      BY <2>4 DEF Adds
    <3>2. /\ c.source # c.target /\ Between(c.source, c.target, c.type) = {}
          /\ c.type \in {"blocks", "related"} => Between(c.target, c.source, c.type) = {}
      BY <2>4 DEF Adds, BreaksAConstraint, LinksInv, AsksForTwoTickets, SerialInv, LookIsCurrent,
                  LinkCycle, ReverseExists, Symmetric
    <3>3. LookIsCurrent'
      BY <2>2, <2>4 DEF Adds, LookIsCurrent
    <3> DEFINE new == [id |-> id, source |-> c.source, target |-> c.target, type |-> c.type]
    <3>4. \A l \in links :
            /\ ~ (l.source = new.source /\ l.target = new.target /\ l.type = new.type)
            /\ new.type \in {"blocks", "related"} =>
                 ~ (l.source = new.target /\ l.target = new.source /\ l.type = new.type)
      BY <3>2 DEF Between
    <3>5. new.source # new.target /\ links' = links \cup {new}
      BY <3>1, <3>2
    <3> HIDE DEF new
    <3>6. NoMutualBlocks'
      BY <3>4, <3>5 DEF SerialInv, NoMutualBlocks
    <3>7. OneRelatedLink'
      <4>1. \A l \in links : {l.source, l.target} = {new.source, new.target} =>
              \/ l.source = new.source /\ l.target = new.target
              \/ l.source = new.target /\ l.target = new.source
        BY <3>5
      <4> QED BY <3>4, <3>5, <4>1 DEF SerialInv, OneRelatedLink
    <3> QED BY <3>3, <3>6, <3>7 DEF SerialInv
  <2> QED BY <2>1, <2>3, <2>4
<1>2. CASE UNCHANGED vars
  BY <1>2 DEF vars, SerialInv, LookIsCurrent, NoMutualBlocks, OneRelatedLink, LinkCycle,
              ReverseExists, Between
<1> QED BY <1>1, <1>2 DEF Next, Step

----------------------------------------------------------------------------

LEMMA LinksInvHolds == Spec => []LinksInv
<1>1. Init => LinksInv
  BY InitHolds
<1> QED BY <1>1, LinksStep, PTL DEF Spec

LEMMA SerialInvHolds == ASSUME SoleSession PROVE Spec => []SerialInv
<1>1. Init => SerialInv
  BY InitHolds
<1>2. LinksInv /\ SerialInv /\ [Next]_vars => SerialInv'
  BY SerialStep
<1> QED BY <1>1, <1>2, LinksInvHolds, PTL DEF Spec

\* Where only one call runs at a time, no two tickets ever block each other,
\* whatever was linked and removed before: README's LINK_CYCLE keeps its promise.
THEOREM SerialLinksAreAcyclic ==
  ASSUME SoleSession
  PROVE  Spec => []NoMutualBlocks
<1>1. SerialInv => NoMutualBlocks
  BY DEF SerialInv
<1> QED BY <1>1, SerialInvHolds, PTL

\* Where only one call runs at a time, A related B and B related A are one link.
THEOREM SerialRelatedIsOneLink ==
  ASSUME SoleSession
  PROVE  Spec => []OneRelatedLink
<1>1. SerialInv => OneRelatedLink
  BY DEF SerialInv
<1> QED BY <1>1, SerialInvHolds, PTL

=============================================================================
