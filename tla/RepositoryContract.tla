--------------------------- MODULE RepositoryContract ---------------------------
(***************************************************************************)
(* The repository contract (packages/repository-contract): what its        *)
(* sections refer to, when the schema takes it, what of it survives the    *)
(* serializer, and how `board init` merges a contract a maintainer wrote   *)
(* with one generated from a scan (init-core/merge-contract.ts).  A        *)
(* section that the code keeps as a map is a function from the ids of its  *)
(* entries; text, evidence and commands are an entry's "body".             *)
(***************************************************************************)
EXTENDS Naturals, SequencesExt

CONSTANTS
    ProperNames,   \* environment variable names in upper case, which the schema takes
    Absent         \* no file, no value

\* Contracts are records with these sections:
\*   purpose       a repository field only maintainers give
\*   applications  id -> [dir, body, depends, environment]
\*   services      id -> [body, required, environment]
\*   environment   name -> [secret, localDefault]
\*   setup         field -> body;   steps  <<[id, depends], ...>>
\*   verification  [default: body, components: the ids its rules are about]; one that is not
\*                 in the text is parsed as an empty one
\*   limitations   id -> body;      systems  id -> body
\*   generated, sensitive, unsafe   pattern -> <<body, ...>>;    related  name -> <<body, ...>>
\*                 lists in which a pattern or a name may be repeated
Sections ==
    {"purpose", "applications", "services", "environment", "setup", "steps", "verification",
     "limitations", "systems", "related", "generated", "sensitive", "unsafe"}

\* A contract has its sections, and a service its fields.
IsContract(c) ==
    /\ DOMAIN c = Sections
    /\ \A s \in DOMAIN c.services : DOMAIN c.services[s] = {"body", "required", "environment"}

Components(c) == DOMAIN c.applications \cup DOMAIN c.services

(***************************** The schema **********************************)
IdsDistinct(c) == DOMAIN c.applications \cap DOMAIN c.services = {}

DependenciesKnown(c) ==
    \A a \in DOMAIN c.applications : c.applications[a].depends \subseteq Components(c)

VariablesKnown(c) ==
    /\ \A a \in DOMAIN c.applications : c.applications[a].environment \subseteq DOMAIN c.environment
    /\ \A s \in DOMAIN c.services : c.services[s].environment \subseteq DOMAIN c.environment

VariablesProper(c) ==
    /\ DOMAIN c.environment \subseteq ProperNames
    /\ \A n \in DOMAIN c.environment : ~(c.environment[n].secret /\ c.environment[n].localDefault)

ChecksKnown(c) == c.verification.components \subseteq Components(c)

\* A dependency may be unknown, an id may be used twice; that steps may wait for one another
\* is not looked at.
StepsKnown(c) ==
    /\ \A i, j \in DOMAIN c.steps : c.steps[i].id = c.steps[j].id => i = j
    /\ \A i \in DOMAIN c.steps : c.steps[i].depends \subseteq {c.steps[j].id : j \in DOMAIN c.steps}

Valid(c) ==
    /\ IdsDistinct(c)
    /\ DependenciesKnown(c)
    /\ VariablesKnown(c)
    /\ VariablesProper(c)
    /\ ChecksKnown(c)
    /\ StepsKnown(c)

(**************************** The serializer *******************************)
\* `required: false` is pruned from the text (serialize.ts), and a service whose text says
\* nothing is parsed as required.  The other values pruned are the ones parsing puts back.
Written(c) ==
    [c EXCEPT !.services = [s \in DOMAIN @ |-> [@[s] EXCEPT !.required = TRUE]]]

\* A file holds a contract as somebody typed it, or in the serializer's form.
Text(c) == [form |-> "canonical", contract |-> Written(c)]
Typed(c) == [form |-> "own", contract |-> c]

(******************************* The merge *********************************)
\* Entries of both: those of the first where both have one.
Over(e, g) == [k \in DOMAIN e \cup DOMAIN g |-> IF k \in DOMAIN e THEN e[k] ELSE g[k]]

\* Bug: the generated entry replaces the one that is there.
GeneratedWins(e, g) == Over(g, e)

MergedRecord(e, g) == Over(e, g)

\* Of items with one name or pattern a list keeps the last.
MergedList(e, g) ==
    [k \in DOMAIN e \cup DOMAIN g |-> IF k \in DOMAIN e THEN <<Last(e[k])>> ELSE <<Last(g[k])>>]

Merged(e, g) ==
    [purpose      |-> e.purpose,
     applications |-> MergedRecord(e.applications, g.applications),
     services     |-> MergedRecord(e.services, g.services),
     environment  |-> MergedRecord(e.environment, g.environment),
     setup        |-> MergedRecord(e.setup, g.setup),
     steps        |-> e.steps,
     verification |-> e.verification,
     limitations  |-> MergedRecord(e.limitations, g.limitations),
     systems      |-> MergedRecord(e.systems, g.systems),
     generated    |-> MergedList(e.generated, g.generated),
     sensitive    |-> MergedList(e.sensitive, g.sensitive),
     unsafe       |-> MergedList(e.unsafe, g.unsafe),
     related      |-> MergedList(e.related, g.related)]

=============================================================================
