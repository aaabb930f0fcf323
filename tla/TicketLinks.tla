---------------------------- MODULE TicketLinks ----------------------------
(***************************************************************************)
(* Links between tickets and from tickets to contexts                      *)
(* (stompy_ticketing/service.py: add_link, remove_link, add_context_link,  *)
(* remove_context_link; the removal that both doors build from the two).   *)
(*                                                                         *)
(* add_link looks for the reverse of a link with a SELECT and then INSERTs: *)
(* the UNIQUE constraint of the table knows only the link itself, so       *)
(* between the two steps another session can add the reverse.              *)
(*                                                                         *)
(* The ids of the two tables are two sequences, and a removal is handed an *)
(* id only: it tries the ticket links, commits, and then tries the context *)
(* links.                                                                  *)
(***************************************************************************)
EXTENDS Integers, FiniteSets

CONSTANTS
  Tickets,     \* tickets of the project
  Absent,      \* an id no ticket of the project has
  Contexts,    \* a context's label and version
  Sessions,    \* calls that can run at the same time
  MaxCalls     \* bound: calls started in one behaviour

ASSUME AbsentAssumption == Absent \notin Tickets
ASSUME CallsAssumption == MaxCalls \in Nat

VARIABLES
  links,         \* the ticket_links table
  contextLinks,  \* the ticket_context_links table
  nextId,        \* the two id sequences
  call,          \* what each session is doing
  answer,        \* what its last add answered
  calls          \* calls started so far

vars == <<links, contextLinks, nextId, call, answer, calls>>

----------------------------------------------------------------------------

LinkTypes == {"blocks", "parent", "related", "duplicate"}

\* A related B and B related A are one link.
Symmetric == {"related"}

Kinds == {"ticket", "context"}

Ids == Nat \ {0}

NoLink == 0

Link == [id : Ids, source : Tickets, target : Tickets, type : LinkTypes]

ContextLink == [id : Ids, ticket : Tickets, context : Contexts]

Nowhere == Tickets \cup {Absent}

\* insert: has looked for the reverse and is about to INSERT the link asked for
\* lookup: the INSERT broke a constraint; about to look for the link's id
\* delete: about to try the context links with the id it was given
Idle == [pc |-> "idle"]

AddCall == [pc : {"insert", "lookup"}, source : Nowhere, target : Nowhere, type : LinkTypes]

\* kind and scope: what the caller wants removed, as the list showed it, and
\* the ticket it removes it through, when it names one.
RemoveCall == [pc : {"delete"}, kind : Kinds, id : Ids, scope : Nowhere]

Answers == {"none", "linked", "self_link", "link_cycle", "already_linked"}

TypeOK ==
  /\ links \subseteq Link
  /\ contextLinks \subseteq ContextLink
  /\ nextId \in [Kinds -> Ids]
  /\ call \in [Sessions -> {Idle} \cup AddCall \cup RemoveCall]
  /\ answer \in [Sessions -> [kind : Answers, id : Nat, source : Nowhere, target : Nowhere]]
  /\ calls \in Nat

NoAnswer == [kind |-> "none", id |-> NoLink, source |-> Absent, target |-> Absent]

Init ==
  /\ links = {}
  /\ contextLinks = {}
  /\ nextId = [kind \in Kinds |-> 1]
  /\ call = [s \in Sessions |-> Idle]
  /\ answer = [s \in Sessions |-> NoAnswer]
  /\ calls = 0

----------------------------------------------------------------------------

Begin(s) ==
  /\ call[s] = Idle
  /\ calls < MaxCalls
  /\ calls' = calls + 1

Become(s, c) == call' = [call EXCEPT ![s] = c]

Answer(s, kind, id, source, target) ==
  answer' = [answer EXCEPT ![s] =
    [kind |-> kind, id |-> id, source |-> source, target |-> target]]

Between(source, target, type) ==
  { l \in links : l.source = source /\ l.target = target /\ l.type = type }

\* _find_link_id.
FindLinkId(source, target, type) ==
  IF Between(source, target, type) = {} THEN NoLink
  ELSE (CHOOSE l \in Between(source, target, type) : TRUE).id

\* Mutant of LinkCycle: looks for the link itself.
LinkCycleSameWay(source, target, type) ==
  type = "blocks" /\ Between(source, target, type) # {}

LinkCycle(source, target, type) ==
  type = "blocks" /\ Between(target, source, type) # {}

\* Mutant of ReverseExists: no type is symmetric.
ReverseExistsNever(source, target, type) == FALSE

ReverseExists(source, target, type) ==
  type \in Symmetric /\ Between(target, source, type) # {}

\* add_link up to its INSERT.
AddLook(s, source, target, type) ==
  /\ Begin(s)
  /\ \/ /\ source = target
        /\ Answer(s, "self_link", NoLink, source, target)
        /\ UNCHANGED call
     \/ /\ source # target
        /\ LinkCycle(source, target, type)
        /\ Answer(s, "link_cycle", NoLink, source, target)
        /\ UNCHANGED call
     \/ /\ source # target
        /\ ReverseExists(source, target, type)
        /\ Answer(s, "already_linked", FindLinkId(target, source, type), source, target)
        /\ UNCHANGED call
     \/ /\ source # target
        /\ ~ LinkCycle(source, target, type)
        /\ ~ ReverseExists(source, target, type)
        /\ Become(s, [pc |-> "insert", source |-> source, target |-> target, type |-> type])
        /\ UNCHANGED answer
  /\ UNCHANGED <<links, contextLinks, nextId>>

\* UNIQUE (source_id, target_id, link_type), and the two foreign keys.
BreaksAConstraint(c) ==
  \/ Between(c.source, c.target, c.type) # {}
  \/ ~ {c.source, c.target} \subseteq Tickets

\* INSERT, the SELECT that enriches the answer, COMMIT.  An INSERT of a key that
\* another session has inserted and not committed waits for it to end.
AddInsert(s) ==
  LET c == call[s]
  IN  /\ c.pc = "insert"
      /\ ~ BreaksAConstraint(c)
      /\ links' = links \cup {[id |-> nextId["ticket"], source |-> c.source,
                               target |-> c.target, type |-> c.type]}
      /\ nextId' = [nextId EXCEPT !["ticket"] = @ + 1]
      /\ Answer(s, "linked", nextId["ticket"], c.source, c.target)
      /\ Become(s, Idle)
      /\ UNCHANGED <<contextLinks, calls>>

\* IntegrityError: ROLLBACK; the id that was drawn is lost.
AddRejected(s) ==
  /\ call[s].pc = "insert"
  /\ BreaksAConstraint(call[s])
  /\ nextId' = [nextId EXCEPT !["ticket"] = @ + 1]
  /\ Become(s, [call[s] EXCEPT !.pc = "lookup"])
  /\ UNCHANGED <<links, contextLinks, answer, calls>>

\* The id of the link in the way is a courtesy; the answer is the same without.
AddAnswer(s) ==
  LET c == call[s]
  IN  /\ c.pc = "lookup"
      /\ Answer(s, "already_linked", FindLinkId(c.source, c.target, c.type), c.source, c.target)
      /\ Become(s, Idle)
      /\ UNCHANGED <<links, contextLinks, nextId, calls>>

\* add_context_link: one INSERT, refused by its constraints or not.
AddContextLink(s, ticket, context) ==
  LET refused == \/ ticket \notin Tickets
                 \/ \E l \in contextLinks : l.ticket = ticket /\ l.context = context
  IN  /\ Begin(s)
      /\ nextId' = [nextId EXCEPT !["context"] = @ + 1]
      /\ contextLinks' = contextLinks \cup
           (IF refused THEN {}
            ELSE {[id |-> nextId["context"], ticket |-> ticket, context |-> context]})
      /\ UNCHANGED <<links, call, answer>>

----------------------------------------------------------------------------
(* Removal *)

Matches(l, id, scope, ends) == l.id = id /\ (scope = Absent \/ scope \in ends)

\* remove_link's WHERE clause; Absent stands for no ticket_id.
TicketLinksHit(id, scope) == { l \in links : Matches(l, id, scope, {l.source, l.target}) }

ContextLinksHit(id, scope) == { l \in contextLinks : Matches(l, id, scope, {l.ticket}) }

\* remove_link and its COMMIT; when it deletes nothing, the context links are
\* next.
RemoveLink(s, kind, id, scope) ==
  LET hit == TicketLinksHit(id, scope)
  IN  /\ Begin(s)
      /\ links' = links \ hit
      /\ IF hit # {} THEN UNCHANGED call
         ELSE Become(s, [pc |-> "delete", kind |-> kind, id |-> id, scope |-> scope])
      /\ UNCHANGED <<contextLinks, nextId, answer>>

\* remove_context_link.
RemoveContextLink(s) ==
  /\ call[s].pc = "delete"
  /\ contextLinks' = contextLinks \ ContextLinksHit(call[s].id, call[s].scope)
  /\ Become(s, Idle)
  /\ UNCHANGED <<links, nextId, answer, calls>>

\* A statement fails or the process dies.
Abort(s) ==
  /\ call[s] # Idle
  /\ Become(s, Idle)
  /\ UNCHANGED <<links, contextLinks, nextId, answer, calls>>

GivenIds(kind) == 1 .. (nextId[kind] - 1)

Next == \E s \in Sessions :
  \/ \E source, target \in Nowhere, type \in LinkTypes : AddLook(s, source, target, type)
  \/ AddInsert(s)
  \/ AddRejected(s)
  \/ AddAnswer(s)
  \/ \E ticket \in Nowhere, context \in Contexts : AddContextLink(s, ticket, context)
  \/ \E kind \in Kinds, scope \in Nowhere : \E id \in GivenIds(kind) : RemoveLink(s, kind, id, scope)
  \/ RemoveContextLink(s)
  \/ Abort(s)

Spec == Init /\ [][Next]_vars

----------------------------------------------------------------------------
(* Properties *)

\* README, LINK_CYCLE: no two tickets block each other.  One call at a time
\* keeps this whatever was linked and removed before; two calls do not.
NoMutualBlocks ==
  \A k, l \in links : ~ (/\ k.type = "blocks" /\ l.type = "blocks"
                         /\ k.source = l.target /\ k.target = l.source)

\* The comment in add_link: A related B and B related A are one link.
OneRelatedLink ==
  \A k, l \in links :
    k.type = "related" /\ l.type = "related" /\ {k.source, k.target} = {l.source, l.target} => k = l

\* README: DELETE .../links/{link_id} removes a ticket link.
RemovalTakesWhatItNames ==
  [][\A s \in Sessions :
       call[s].pc = "delete" /\ call'[s] = Idle /\ contextLinks' # contextLinks
       => call[s].kind = "context"]_vars

=============================================================================
