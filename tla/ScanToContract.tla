----------------------------- MODULE ScanToContract -----------------------------
(***************************************************************************)
(* From a repository's files to a generated contract: the detectors of     *)
(* scanner-core run in their order, each of them can fail and the scan     *)
(* goes on without its facts (scanner.ts, detector.ts), the last one       *)
(* groups the facts of the others into candidates, and init-core maps the  *)
(* facts to the sections of a contract.                                    *)
(*                                                                         *)
(* A tree holds what the detectors find in its files:                      *)
(*   packages   {[dir, name, scripts]}              package.json           *)
(*   projects   {[dir, name, uses]}                 Python manifests       *)
(*   frameworks {[by, path, name, type, confidence, declares]}             *)
(*   entries    {[by, path, application, confidence]}  entry points        *)
(*   routes     {[by, path]}                        files with API routes  *)
(*   workers    {[path, confidence]}                queues and their users *)
(*   commands   {[by, path, category, confidence]}  but package scripts    *)
(*   compose    {[name, type, environment]}         services               *)
(*   reads      {name}                              variables of the code  *)
(*   example    {name}                              .env.example           *)
(*   uses, imports  {name}                          database/cache packages *)
(*   seeds      BOOLEAN                             a directory of seed data *)
(*   outputs    {[pattern, command, glob, lock]}    generated files        *)
(*   directory  path of a file -> its directory                            *)
(*   folder     directory -> the last part of its path                     *)
(***************************************************************************)
EXTENDS RepositoryContract, FiniteSets, SequencesExt

CONSTANTS
    SecretNames,   \* names that look like a secret's
    ExternalNames, \* names that look like another system's address
    Checks         \* the command categories that verification is built from

\* Of the 26 default detectors those whose facts reach the sections modelled.
Aggregator == "candidate-aggregator"
Detectors ==
    {"manifest", "framework", "command", "entrypoint", "route", "environment", "python-manifest",
     "python-source", "python-framework", "python-command", "python-route", "dockerfile",
     "compose", "devcontainer", "github-actions", "makefile", "example", "dependency", "seed",
     "worker", "output", Aggregator}

\* `type` is what the texts of a fact say of the kind of application they are about.
Application(by, path, name, type, confidence) ==
    [kind |-> "application", by |-> by, path |-> path, name |-> name, type |-> type,
     confidence |-> confidence]
Signal(kind, path, confidence) == [kind |-> kind, path |-> path, type |-> "unknown", confidence |-> confidence]
Framework(type, confidence) == [kind |-> "framework", path |-> ".", type |-> type, confidence |-> confidence]
Command(by, path, category, confidence) ==
    [kind |-> "command", by |-> by, path |-> path, category |-> category, type |-> "unknown",
     confidence |-> confidence]
\* A variable is from "example", from "code", or from the Compose service of that name.
Variable(name, from) == [kind |-> "variable", name |-> name, from |-> from]
Dependency(name, service) == [kind |-> "dependency", name |-> name, service |-> service]

CommandFacts(tree) ==
    UNION {{Command("command", p.dir, s, "high") : s \in p.scripts} : p \in tree.packages}

\* The manifest's scripts are commands for this detector too.
ManifestFacts(tree) ==
    {Application("manifest", p.dir, p.name, "unknown", "high") : p \in tree.packages} \cup CommandFacts(tree)

\* A framework is a fact of the whole repository; where it is declared there is an application.
FrameworkFacts(by, tree) ==
    LET found == {f \in tree.frameworks : f.by = by}
    IN  {Framework(f.type, f.confidence) : f \in found}
            \cup {Application(by, f.path, f.name, f.type, f.confidence) : f \in {x \in found : x.declares}}

\* An entry point is found by the name of its package, or of its variable, before its path.
EntryFacts(by, tree) ==
    {Signal("entrypoint", IF e.application # Absent THEN e.application ELSE e.path, e.confidence) :
        e \in {x \in tree.entries : x.by = by}}

PythonFrameworkFacts(tree) == FrameworkFacts("python-framework", tree)

SourceFacts(tree) == EntryFacts("python-source", tree) \cup {Dependency(n, Absent) : n \in tree.imports}

RoutesOf(by, tree) == {Signal("route", r.path, "high") : r \in {x \in tree.routes : x.by = by}}
RouteFacts(tree) == RoutesOf("route", tree)
PythonRouteFacts(tree) == RoutesOf("python-route", tree)

WorkerFacts(tree) == {Signal("worker", w.path, w.confidence) : w \in tree.workers}

ProjectFacts(tree) ==
    {Application("python-manifest", p.dir, p.name, "unknown", "high") : p \in tree.projects}
        \cup {Dependency(n, Absent) : n \in UNION {p.uses : p \in tree.projects}}
        \cup FrameworkFacts("python-manifest", tree)

CommandsOf(by, tree) ==
    {Command(by, c.path, c.category, c.confidence) : c \in {x \in tree.commands : x.by = by}}
PythonCommandFacts(tree) == CommandsOf("python-command", tree)
DockerfileFacts(tree) == CommandsOf("dockerfile", tree)
DevContainerFacts(tree) == CommandsOf("devcontainer", tree)
WorkflowFacts(tree) == CommandsOf("github-actions", tree)
MakefileFacts(tree) == CommandsOf("makefile", tree)

ComposeFacts(tree) ==
    (UNION {{[kind |-> "service", name |-> s.name, type |-> s.type, environment |-> s.environment]}
               \cup {Variable(n, s.name) : n \in s.environment}
               \cup (IF s.type = "container" THEN {} ELSE {Dependency(s.type, s.name)})
               : s \in tree.compose})
        \cup CommandsOf("compose", tree)

ExampleFacts(tree) == {Variable(n, "example") : n \in tree.example}

EnvironmentFacts(tree) == {Variable(n, "code") : n \in tree.reads} \cup ExampleFacts(tree)

\* The signals of one dependency are grouped by the service or the package they come from:
\* a package is a fact without a service, even where Compose defines one.
DependencyFacts(tree) ==
    {Dependency(n, Absent) : n \in tree.uses}
        \cup {Dependency(s.type, s.name) : s \in {x \in tree.compose : x.type # "container"}}

SeedFacts(tree) == IF tree.seeds THEN {[kind |-> "seed"]} ELSE {}

OutputFacts(tree) == {[kind |-> "output", output |-> o] : o \in tree.outputs}

SignalKinds == {"application", "framework", "entrypoint", "command", "route", "worker"}

\* The first of the types that a text can be about which one of the facts is of.
TypeOf(facts, order, default) ==
    LET found == SelectSeq(order, LAMBDA t : \E f \in facts : f.type = t)
    IN  IF found = <<>> THEN default ELSE Head(found)

\* Of a path that is a file's its directory; a name without extension stays as it is.
CandidatePath(tree, path) == IF path \in DOMAIN tree.directory THEN tree.directory[path] ELSE path

CandidateName(tree, path) == IF path \in DOMAIN tree.folder THEN tree.folder[path] ELSE path

\* The candidates of the facts found so far, one for each path that has a signal.
AggregatorFacts(tree, facts) ==
    LET all == {f \in facts : f.kind \in SignalKinds}
        signals(path) == {f \in all : CandidatePath(tree, f.path) = path}
        type(path) ==
            IF \E f \in signals(path) : f.kind = "worker" THEN "worker"
            ELSE TypeOf(signals(path), <<"worker", "frontend", "api", "cli">>, "unknown")
        confidence(path) ==
            IF Cardinality({f.kind : f \in signals(path)}) >= 2 THEN "high"
            ELSE IF \E f \in signals(path) : f.confidence = "high" THEN "medium"
            ELSE "low"
    IN  {Application(Aggregator, p, CandidateName(tree, p), type(p), confidence(p)) :
            p \in {CandidatePath(tree, f.path) : f \in all}}

Emitted(detector, tree) ==
    CASE detector = "manifest"         -> ManifestFacts(tree)
      [] detector = "framework"        -> FrameworkFacts(detector, tree)
      [] detector = "command"          -> CommandFacts(tree)
      [] detector = "entrypoint"       -> EntryFacts(detector, tree)
      [] detector = "route"            -> RouteFacts(tree)
      [] detector = "environment"      -> EnvironmentFacts(tree)
      [] detector = "python-manifest"  -> ProjectFacts(tree)
      [] detector = "python-source"    -> SourceFacts(tree)
      [] detector = "python-framework" -> PythonFrameworkFacts(tree)
      [] detector = "python-command"   -> PythonCommandFacts(tree)
      [] detector = "python-route"     -> PythonRouteFacts(tree)
      [] detector = "dockerfile"       -> DockerfileFacts(tree)
      [] detector = "compose"          -> ComposeFacts(tree)
      [] detector = "devcontainer"     -> DevContainerFacts(tree)
      [] detector = "github-actions"   -> WorkflowFacts(tree)
      [] detector = "makefile"         -> MakefileFacts(tree)
      [] detector = "example"          -> ExampleFacts(tree)
      [] detector = "dependency"       -> DependencyFacts(tree)
      [] detector = "seed"             -> SeedFacts(tree)
      [] detector = "worker"           -> WorkerFacts(tree)
      [] detector = "output"           -> OutputFacts(tree)

\* scanRepository: the detectors in turn, without the facts of those that throw; only the last
\* one looks at the facts of the others.
ScanFacts(tree, failed) ==
    LET found == UNION {Emitted(d, tree) : d \in Detectors \ (failed \cup {Aggregator})}
    IN  IF Aggregator \in failed THEN found ELSE found \cup AggregatorFacts(tree, found)

(*********************** The sections of a contract ************************)
OfKind(facts, kind) == {f \in facts : f.kind = kind}

\* The aggregator's candidates, or the detectors' own where there is none; the ones that are
\* not sure become review items.
ApplicationFacts(facts) ==
    LET own == {f \in OfKind(facts, "application") : f.by = Aggregator}
    IN  {f \in IF own # {} THEN own ELSE OfKind(facts, "application") : f.confidence # "low"}

\* The name in a manifest, or the candidate's.
ApplicationName(fact, facts) ==
    LET named == {f \in OfKind(facts, "application") :
                     f.by \in {"manifest", "python-manifest"} /\ f.path = fact.path}
    IN  IF named # {} THEN (CHOOSE f \in named : TRUE).name ELSE fact.name

\* The application of the root has its type for an id, which any framework of the repository
\* can decide; the others have their name.
RootType(fact, facts) == TypeOf(OfKind(facts, "framework"), <<"worker", "frontend", "api">>, fact.type)

BaseId(fact, facts) ==
    IF fact.path = "." THEN RootType(fact, facts) ELSE ApplicationName(fact, facts)

\* Facts are mapped in the order of their hashes: of those with one id any can be the first,
\* which takes the id itself, and the next ones are numbered (uniqueId).
Numberings(name) ==
    LET items == DOMAIN name
        same == [i \in items |-> {j \in items : name[j] = name[i]}]
        most == Max({0} \cup {Cardinality(same[i]) : i \in items})
    IN  {[i \in items |-> <<name[i], n[i]>>] :
            n \in {m \in [items -> 1..most] :
                      \A i \in items : {m[j] : j \in same[i]} = 1..Cardinality(same[i])}}

ApplicationIds(facts) == Numberings([f \in ApplicationFacts(facts) |-> BaseId(f, facts)])

Applications(id) ==
    [i \in Range(id) |->
        [dir |-> (CHOOSE f \in DOMAIN id : id[f] = i).path, body |-> "scanned", depends |-> {},
         environment |-> {}]]

\* A PostgreSQL or Redis service keeps its name, the id of another gets a prefix.
ServiceId(fact) ==
    IF fact.type = "container" THEN <<"service", fact.name, 1>> ELSE <<fact.name, 1>>

Services(facts) ==
    LET mapped == OfKind(facts, "service")
        of(i) == CHOOSE f \in mapped : ServiceId(f) = i
    IN  [i \in {ServiceId(f) : f \in mapped} |->
            [body |-> "scanned", required |-> TRUE, environment |-> of(i).environment]]

\* Bug: a variable counts only if an example file has it.
ExampleOnly(facts) ==
    [n \in {f.name : f \in {v \in OfKind(facts, "variable") : v.from = "example"}} \cap ProperNames |->
        [secret |-> n \in SecretNames, localDefault |-> FALSE]]

\* Names that are not upper case are left out, here but not in the services.
Environment(facts) ==
    [n \in {f.name : f \in OfKind(facts, "variable")} \cap ProperNames |->
        [secret |-> n \in SecretNames, localDefault |-> FALSE]]

\* One command for each field; of several that would do the others become review items.
CommandsFor(facts, fields) ==
    LET found == {c.category : c \in {x \in OfKind(facts, "command") : x.confidence # "low"}}
    IN  [k \in {f \in DOMAIN fields : fields[f] \cap found # {}} |-> "scanned"]

SetupFields ==
    [install |-> {"install", "bootstrap", "setup"}, migrate |-> {"migration"}, seed |-> {"seed"},
     generate |-> {"generate"}, health_check |-> {"healthcheck"}, smoke_check |-> {"smoke"}]

\* The command of a Compose service is taken for what starts the services.
Setup(facts) ==
    LET starts == {c \in OfKind(facts, "command") : c.by = "compose" /\ c.category = "runtime"}
    IN  [k \in DOMAIN CommandsFor(facts, SetupFields) \cup {"start_services" : c \in starts} |-> "scanned"]

Verification(facts) ==
    [default |-> CommandsFor(facts, [c \in Checks |-> {c}]), components |-> {}]

CodeOnly(facts) == {f \in OfKind(facts, "dependency") : f.service = Absent}

Limitations(facts) ==
    [i \in {<<"local-service-not-defined", f.name>> : f \in CodeOnly(facts)}
             \cup {<<"seed-data-command-not-detected">> :
                       f \in {x \in OfKind(facts, "seed") : "seed" \notin DOMAIN Setup(facts)}}
             \cup {<<"health-check-not-detected", s>> : s \in DOMAIN Services(facts)}
        |-> "scanned"]

\* External systems are read from the variables, whatever the schema takes for a name.
Systems(facts) == [n \in {f.name : f \in OfKind(facts, "variable")} \cap ExternalNames |-> "scanned"]

Outputs(facts) == {f.output : f \in OfKind(facts, "output")}

GeneratedFiles(facts) == [p \in {o.pattern : o \in Outputs(facts)} |-> <<"scanned">>]

\* What a command makes again, or a whole directory, is not to be edited; a lockfile may be.
UnsafePaths(facts) ==
    [p \in {o.pattern : o \in {x \in Outputs(facts) : (x.command \/ x.glob) /\ ~x.lock}} |-> <<"scanned">>]

\* The .env files beside an example that names a secret.
SensitivePaths(facts) ==
    [p \in {".env*" : f \in {v \in OfKind(facts, "variable") : v.from = "example" /\ v.name \in SecretNames}}
        |-> <<"scanned">>]

Generated(facts, id) ==
    [purpose      |-> Absent,
     applications |-> Applications(id),
     services     |-> Services(facts),
     environment  |-> Environment(facts),
     setup        |-> Setup(facts),
     steps        |-> <<>>,
     verification |-> Verification(facts),
     limitations  |-> Limitations(facts),
     systems      |-> Systems(facts),
     related      |-> <<>>,
     generated    |-> GeneratedFiles(facts),
     sensitive    |-> SensitivePaths(facts),
     unsafe       |-> UnsafePaths(facts)]

=============================================================================
