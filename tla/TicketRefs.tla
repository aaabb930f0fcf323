----------------------------- MODULE TicketRefs -----------------------------
(***************************************************************************)
(* Which ticket a call means: references in all their forms                *)
(* (stompy_ticketing/refs.py, coerce_ticket_ref and _parse_ticket_url) and *)
(* how the ticket and ticket_link tools put them together with the project *)
(* argument (mcp_tools.py).                                                *)
(*                                                                         *)
(* A reference is what parsing makes of it: its form, the number in it,    *)
(* its prefix, and the address it is wrapped in.                           *)
(***************************************************************************)
EXTENDS Naturals, Sequences, FiniteSets, Functions

CONSTANTS
  Projects,   \* the host's projects
  Owner,      \* resolve_prefix_func: the project of each known prefix
  NoProject,  \* Python's None
  MaxId,      \* _MAX_TICKET_ID
  Lists       \* bound: the lists of references (and targets of links) that calls have

ASSUME RefProjectsAssumption == Projects # {}
ASSUME RefOwnerAssumption == Range(Owner) \subseteq Projects
ASSUME RefNoProjectAssumption == NoProject \notin Projects
ASSUME RefMaxIdAssumption == MaxId \in Nat \ {0}

UnknownPrefix == "unknown"
KnownPrefixes == DOMAIN Owner \cup {UnknownPrefix}
Arguments == Projects \cup {NoProject}

\* absent is None; garbage is anything else that is neither an int, nor digits,
\* nor PREFIX-digits (a bool, a list, a float, other text).
Forms == {"absent", "number", "digits", "prefixed", "garbage"}

\* ours: the ticket page of a Stompy host; page: another page of one;
\* elsewhere: any other address, which is taken as it stands.
Wrappings == {"plain", "ours", "page", "elsewhere"}

Ref == [form : Forms, seq : 0..MaxId + 1, prefix : KnownPrefixes,
        wrapping : Wrappings, site : Projects]

\* Only text can be in a list, which is text itself.
IsText(ref) == ref.form \in {"digits", "prefixed", "garbage"}

\* Text only can be wrapped, a number in text has at most nine digits, and
\* what a form does not have is fixed.
WellFormed(ref) ==
  /\ ref.wrapping # "plain" => IsText(ref)
  /\ ref.form \in {"absent", "garbage"} => ref.seq = 0
  /\ ref.form # "prefixed" => ref.prefix = UnknownPrefix
  /\ ref.wrapping # "ours" => ref.site = CHOOSE project \in Projects : TRUE

Refs == { ref \in Ref : WellFormed(ref) }

ASSUME RefListsAssumption == Lists \subseteq Seq(Refs)

Absent == [form |-> "absent", seq |-> 0, prefix |-> UnknownPrefix,
           wrapping |-> "plain", site |-> CHOOSE project \in Projects : TRUE]

NoId == MaxId + 1  \* None, which 0 is not
Refused == [refused |-> TRUE, project |-> NoProject, id |-> NoId]
Meant(project, id) == [refused |-> FALSE, project |-> project, id |-> id]

----------------------------------------------------------------------------
(* refs.py *)

\* Mutant of SiteProject: the project argument wins over the address.
SiteProjectIgnored(ref, project) ==
  IF project # NoProject \/ ref.wrapping # "ours" THEN project ELSE ref.site

\* The current project of the rest: the address names its own.
SiteProject(ref, project) == IF ref.wrapping = "ours" THEN ref.site ELSE project

\* Whether the text is a reference at all, after the address is taken off.
Parses(ref) ==
  /\ ref.wrapping \in {"plain", "ours"}
  /\ CASE ref.form = "number"   -> ref.seq \in 1..MaxId
       [] ref.form = "digits"   -> ref.seq \in 1..MaxId
       [] ref.form = "prefixed" -> ref.seq \in 0..MaxId
       [] OTHER                 -> FALSE

\* coerce_ticket_ref: the project, and the id in it.
Coerce(ref, project) ==
  IF ref.form = "absent" THEN Meant(project, NoId)
  ELSE IF ~Parses(ref) \/ (ref.form = "prefixed" /\ ref.prefix \notin DOMAIN Owner) THEN Refused
  ELSE Meant(IF ref.form = "prefixed" THEN Owner[ref.prefix] ELSE SiteProject(ref, project),
             ref.seq)

----------------------------------------------------------------------------
(* The ticket tool: one reference, a list of references, a project *)

\* The project a reference brings in, or a refusal to guess between two.
Joined(project, coerced) ==
  IF coerced.refused \/ (coerced.project # project /\ project # NoProject)
  THEN Refused ELSE coerced

\* Mutant of BatchProjects: the first reference speaks for all.
BatchProjectsOfFirst(project, coerced) ==
  LET named == IF coerced[1].project = NoProject THEN {} ELSE {coerced[1].project}
  IN  IF named = {} THEN {project} ELSE named

\* The projects the references of a batch resolve to.
BatchProjects(project, coerced) ==
  LET named == { coerced[i].project : i \in DOMAIN coerced } \ {NoProject}
  IN  IF named = {} THEN {project} ELSE named

\* The project a batch is carried out in.
BatchJoined(project, batch) ==
  LET coerced == [i \in DOMAIN batch |-> Coerce(batch[i], project)]
      projects == BatchProjects(project, coerced)
  IN  IF \E i \in DOMAIN batch : coerced[i].refused THEN Refused
      ELSE IF Cardinality(projects) > 1 THEN Refused
      ELSE Joined(project, Meant(CHOOSE only \in projects : TRUE, NoId))

\* What a call of the ticket tool is about before anything is looked up.
TicketCall(project, ref, batch) ==
  LET single == Joined(project, Coerce(ref, project))
      many == BatchJoined(single.project, batch)
  IN  IF single.refused THEN Refused
      ELSE IF batch = <<>> THEN single
      ELSE IF many.refused THEN Refused
      ELSE Meant(many.project, single.id)

----------------------------------------------------------------------------
(* The ticket_link tool: a source and a target *)

\* Mutant of SameProject: a target that names no project goes with any source.
SameProjectUnlessNamed(target, project) ==
  target.id = NoId \/ target.project \in {project, NoProject}

\* Links across projects are refused.
SameProject(target, project) == target.id = NoId \/ target.project = project

\* The source and the target of a link, both in one project.
LinkCall(project, source, target) ==
  LET from == Joined(project, Coerce(source, project))
      to == Coerce(target, project)
  IN  IF from.refused \/ to.refused \/ ~SameProject(to, from.project)
      THEN Refused ELSE from

----------------------------------------------------------------------------
(* The calls of the two tools, one after the other *)

VARIABLE call  \* [project, ref, others]: others is the list, or the target

Calls == [project : Arguments, ref : Refs, others : Lists]
NoCall == [project |-> NoProject, ref |-> Absent, others |-> <<>>]

CallInit == call = NoCall
AskCall == call' \in Calls
CallSpec == CallInit /\ [][AskCall]_call

Carried == TicketCall(call.project, call.ref, call.others)
Link == LinkCall(call.project, call.ref, IF call.others = <<>> THEN Absent ELSE call.others[1])

----------------------------------------------------------------------------
(* A reference: the projects that a call names by itself. *)

\* The project a reference names, whoever passes it on; a prefix is the more
\* exact of two.
Names(ref) ==
  CASE ref.form = "prefixed" /\ ref.prefix \in DOMAIN Owner -> {Owner[ref.prefix]}
    [] ref.form = "digits" /\ ref.wrapping = "ours"         -> {ref.site}
    [] OTHER                                                -> {}

All == { call.others[i] : i \in DOMAIN call.others } \cup {call.ref}
Named == ({call.project} \ {NoProject}) \cup UNION { Names(ref) : ref \in All }
Readable(ref) == ref = Absent \/ (Parses(ref) /\ (ref.form = "prefixed" => Names(ref) # {}))

----------------------------------------------------------------------------
(* Properties *)

\* A call of the ticket tool is carried out in the one project that it names,
\* by its argument, its reference or its list, in whatever forms; it is
\* refused exactly when it names two, or when a part of it cannot be read.
\* In particular no form of a reference reaches another project's ticket of
\* the same number (the override and the refusals of the ticket tool).
CallsReachTheProjectTheyName ==
  (\A i \in DOMAIN call.others : IsText(call.others[i])) =>
  /\ Carried.refused <=> \/ Cardinality(Named) > 1
                         \/ \E ref \in All : ~Readable(ref)
  /\ ~Carried.refused => /\ {Carried.project} \ {NoProject} = Named
                         /\ Carried.id = IF call.ref = Absent THEN NoId ELSE call.ref.seq

\* Both ends of a link are in the project that the call is carried out in, as
\* their numbers are stored without one: a target of another project, and a
\* bare number beside a source that brought the project, are refused.
LinkEndsShareAProject ==
  Len(call.others) < 2 /\ ~Link.refused =>
    /\ {Link.project} \ {NoProject} = Named
    /\ Names(call.ref) # {} /\ call.project = NoProject =>
         \A i \in DOMAIN call.others : call.others[i] = Absent \/ Names(call.others[i]) # {}

=============================================================================
