------------------------------- MODULE DoctorRules -------------------------------
(***************************************************************************)
(* The diagnostic rules of `board doctor` (packages/doctor-runtime): what  *)
(* each inspector observes of what it has read, and the findings that the  *)
(* rules make of the observations.  All of it is a function of the         *)
(* context the inspectors have put together.                               *)
(***************************************************************************)
EXTENDS Naturals, Sequences, FiniteSets

CONSTANTS
    Absent,     \* no such value
    Covers,     \* the repository paths each path pattern of a contract matches
    Throwing,   \* those of the patterns that make no regular expression
    Includes,   \* the Compose services whose names are part of the name of a container
    MaxRecent   \* sessions, and verification runs, an inspector looks at: 10

ASSUME RecentAssumption == MaxRecent \in Nat \ {0}

\* A contract, as far as the doctor goes into it, is a record of
\*   language      the primary language
\*   commands      {[id, at: "setup" | "component" | "check", name, environment, optional]};
\*                 the name is that of the program the command starts
\*   applications  id -> [ports, environment]
\*   services      id -> [compose: the Compose service or Absent, ports, environment, required]
\*   environment   name -> "required", "optional", or Absent where it does not say
\*   patterns      {[section, pattern]};  checks  {[id, patterns, components]}

\* A finding: evidence is what was observed, as <<what, ...>>; it is a candidate when the rule
\* gives counter-evidence along with it.
Finding(rule, id, severity, evidence) ==
    [rule |-> rule, id |-> id, severity |-> severity, kind |-> "fact", evidence |-> evidence]

Candidate(rule, id, severity, evidence) ==
    [Finding(rule, id, severity, evidence) EXCEPT !.kind = "candidate"]

Rules ==
    {"environment.tools", "environment.variables", "environment.expected-files",
     "runtime.failures", "runtime.repeated-failures", "docker.observations",
     "ports.observations", "ports.contract-duplicates", "ports.stale-board-state",
     "verification.observations", "verification.stale-config",
     "contract.loader-findings", "contract.path-references", "contract.command-references"}

Category(rule) ==
    CASE rule \in {"environment.tools", "environment.variables", "environment.expected-files"}
           -> "environment"
      [] rule \in {"runtime.failures", "runtime.repeated-failures"} -> "runtime"
      [] rule = "docker.observations" -> "docker"
      [] rule \in {"ports.observations", "ports.contract-duplicates", "ports.stale-board-state"}
           -> "ports"
      [] rule \in {"verification.observations", "verification.stale-config"} -> "verification"
      [] OTHER -> "contract"

\* What a rule needs of the context; it is skipped when the inspector was, or failed.
Prerequisites(rule) ==
    CASE Category(rule) = "environment" -> {"localEnvironment"}
      [] Category(rule) = "runtime" -> {"runtime"}
      [] Category(rule) = "docker" -> {"docker"}
      [] rule \in {"ports.observations", "ports.contract-duplicates"} -> {"ports"}
      [] rule = "ports.stale-board-state" -> {"ports", "runtime"}
      [] rule = "verification.observations" -> {"verification"}
      [] rule = "contract.loader-findings" -> {}
      [] OTHER -> {"contract", "inventory"}

-----------------------------------------------------------------------------
(* The local environment (local-environment.ts, environment-rules.ts). *)

ComposeServices(c) == {s \in DOMAIN c.services : c.services[s].compose # Absent}

\* collectLocalToolRequirements; the version of a tool is never asked for by runDoctor.  The
\* requirement of a command docker-compose has the id of the one of Compose, and comes first.
RequiredTools(c) ==
    LET named == {command.name : command \in c.commands} IN
    (IF c.language \in {"typescript", "javascript"} THEN {"node"} ELSE {})
    \cup (IF c.language = "python" THEN {"python3"} ELSE {})
    \cup named
    \cup (IF ComposeServices(c) # {} THEN {"docker"} ELSE {})
    \cup (IF ComposeServices(c) # {} /\ "docker-compose" \notin named THEN {"docker compose"} ELSE {})

ExpectedFiles(tools) ==
    (IF "node" \in tools THEN {"package.json"} ELSE {})
    \cup (IF tools \cap {"python", "python3"} # {} THEN {"pyproject.toml"} ELSE {})
    \cup (IF "pnpm" \in tools THEN {"pnpm-lock.yaml"} ELSE {})
    \cup (IF "npm" \in tools THEN {"package-lock.json"} ELSE {})
    \cup (IF "yarn" \in tools THEN {"yarn.lock"} ELSE {})
    \cup (IF "bun" \in tools THEN {"bun.lock", "bun.lockb"} ELSE {})
    \cup (IF "uv" \in tools THEN {"uv.lock"} ELSE {})
    \cup (IF "poetry" \in tools THEN {"poetry.lock"} ELSE {})

\* Bug: a version command that does not end in time is taken for one that failed.
ToolStatusLate(answer) == IF answer \in {"late", "fails"} THEN "missing" ELSE "available"

\* A version command that does not end in time leaves the tool unknown, which no rule is about.
ToolStatus(answer) ==
    CASE answer = "late" -> "unknown" [] answer = "fails" -> "missing" [] OTHER -> "available"

\* Who uses a variable, and whether the use needs it.
Usages(c) ==
    {[name |-> n, needs |-> c.environment[n] = "required"] : n \in DOMAIN c.environment}
    \cup (UNION {{[name |-> n, needs |-> TRUE] : n \in c.applications[a].environment} :
                   a \in DOMAIN c.applications})
    \cup (UNION {{[name |-> n, needs |-> c.services[s].required] : n \in c.services[s].environment} :
                   s \in DOMAIN c.services})
    \cup UNION {{[name |-> n, needs |-> ~command.optional] : n \in command.environment} :
                   command \in c.commands}

\* What the contract says of the variable goes before its uses.
RequiredVariables(c) ==
    LET says(n) == IF n \in DOMAIN c.environment THEN c.environment[n] ELSE Absent IN
    {n \in {u.name : u \in Usages(c)} :
        \/ says(n) = "required"
        \/ says(n) = Absent /\ \E u \in Usages(c) : u.name = n /\ u.needs}

ToolFindings(env) ==
    {Finding("environment.tools", <<"tool", t>>, "blocking", {<<"tool", t>>}) :
        t \in {u \in DOMAIN env.tools : env.tools[u] = "missing"}}

VariableFindings(env) ==
    {Finding("environment.variables", <<"variable", n>>, "blocking", {<<"variable", n>>}) :
        n \in env.required \ env.present}

FileFindings(env) ==
    {Finding("environment.expected-files", <<"file", f>>, "warning", {<<"file", f>>}) :
        f \in env.missingFiles}

-----------------------------------------------------------------------------
(* Sessions (runtime-inspector.ts, runtime-rules.ts).  A session on file has a status, an age, *)
(* what failed in it, as [part: "setup" | "step" | "resource" | "health" | "command", id], and *)
(* the ports it claims. *)

\* Bug: the oldest sessions are kept.
OldestSessions(sessions) ==
    {s \in DOMAIN sessions :
        Cardinality({t \in DOMAIN sessions : sessions[t].started < sessions[s].started}) < MaxRecent}

\* The latest MaxRecent sessions of those on file.
RecentSessions(sessions) ==
    {s \in DOMAIN sessions :
        Cardinality({t \in DOMAIN sessions : sessions[t].started > sessions[s].started}) < MaxRecent}

StaleSessions(sessions) == {s \in DOMAIN sessions : sessions[s].status = "running" /\ sessions[s].old}

\* Setup steps, and commands of any kind, are told apart by what their ids say.
FailureKind(failure) ==
    CASE failure.part \in {"setup", "command"} /\ failure.id = "migrate" -> "failed_migration"
      [] failure.part \in {"setup", "command"} /\ failure.id = "seed" -> "failed_seed"
      [] failure.part \in {"setup", "step"} -> "failed_step"
      [] failure.part = "resource" -> "failed_resource"
      [] failure.part = "health" -> "failed_health_check"
      [] OTHER -> "failed_process"

\* One observation for each failure of each session.
FailureObservations(sessions) ==
    UNION {{[session |-> s, failure |-> f] : f \in sessions[s].failures} : s \in DOMAIN sessions}

Subject(observation) == <<FailureKind(observation.failure), observation.failure.id>>

FailureEvidence(observation) == <<"failure", observation.session, observation.failure>>

SessionFindings(sessions) ==
    {Finding("runtime.failures", Subject(o), "error", {FailureEvidence(o)}) :
        o \in FailureObservations(sessions)}
    \cup {Finding("runtime.failures", <<"stale_session", s>>, "warning", {<<"stale", s>>}) :
             s \in StaleSessions(sessions)}

\* Observations of one subject are counted whichever sessions they are of: the step and the
\* command of one failed migration are two.
RepeatedFindings(sessions) ==
    LET of(subject) == {o \in FailureObservations(sessions) : Subject(o) = subject} IN
    {Candidate("runtime.repeated-failures", subject, "warning",
               {FailureEvidence(o) : o \in of(subject)}) :
        subject \in {Subject(o) : o \in {o \in FailureObservations(sessions) :
                                           Cardinality(of(Subject(o))) > 1}}}

-----------------------------------------------------------------------------
(* Docker (docker-inspector.ts, docker-rules.ts). *)

\* Of all containers of the machine, a service has those labelled with its Compose service,
\* and any that has the name of it somewhere in its own.
ContainersOf(service, containers) ==
    {n \in DOMAIN containers : containers[n].service = service \/ service \in Includes[n]}

\* services gives the Compose service of each service; a ps that fails lists no containers.
ContainerFindings(services, containers) ==
    LET found(s, kind, state) ==
          {Finding("docker.observations", <<kind, s>>, "error", {<<"container", n, state>>}) :
             n \in {n \in ContainersOf(services[s], containers) : containers[n].state = state}}
    IN
    {Finding("docker.observations", <<"compose_service_missing", s>>, "warning",
             {<<"no container", services[s]>>}) :
        s \in {s \in DOMAIN services : ContainersOf(services[s], containers) = {}}}
    \cup UNION {found(s, "container_unhealthy", "unhealthy") \cup found(s, "container_failed", "exited") :
                   s \in DOMAIN services}

\* Without the client nothing more is asked, without the daemon no containers are.
DockerFindings(docker) ==
    IF ~docker.client
    THEN {Finding("docker.observations", <<"docker_cli_missing">>, "blocking", {<<"without", "client">>})}
    ELSE (IF docker.daemon THEN {}
          ELSE {Finding("docker.observations", <<"docker_daemon_unavailable">>, "blocking",
                        {<<"without", "daemon">>})})
         \cup (IF docker.compose THEN {}
               ELSE {Finding("docker.observations", <<"compose_unavailable">>, "error",
                             {<<"without", "compose">>})})
         \cup (IF docker.daemon THEN ContainerFindings(docker.services, docker.containers) ELSE {})

-----------------------------------------------------------------------------
(* Ports (port-inspector.ts, port-rules.ts). *)

ExpectedPorts(c) ==
    (UNION {{[owner |-> a, port |-> p] : p \in c.applications[a].ports} : a \in DOMAIN c.applications})
    \cup UNION {{[owner |-> s, port |-> p] : p \in c.services[s].ports} : s \in DOMAIN c.services}

BoardPorts(sessions) == UNION {sessions[s].ports : s \in DOMAIN sessions}

\* The checker that runDoctor uses cannot tell.
PortStatus(port) == "unknown"

PortChecks(expected, sessions) ==
    {[owner |-> e.owner, port |-> e.port, status |-> PortStatus(e.port),
      ours |-> e.port \in BoardPorts(sessions)] : e \in expected}

\* Whether a listener is required is up to the errors the runtime inspector has observed.
PortFindings(ports) ==
    {Finding("ports.observations", <<"occupied_expected_port", k.port, k.owner>>,
             IF k.ours THEN "warning" ELSE "error", {<<"occupied", k.port>>}) :
        k \in {k \in ports.checks : k.status = "occupied"}}
    \cup {Finding("ports.observations", <<"missing_expected_listener", k.port, k.owner>>, "error",
                  {<<"not listening", k.port>>}) :
             k \in {k \in ports.checks :
                      ports.requireListening /\ k.status \in {"closed", "available"}}}

DuplicateFindings(ports) ==
    LET owners(p) == {e.owner : e \in {e \in ports.expected : e.port = p}} IN
    {Finding("ports.contract-duplicates", <<"duplicate", p>>, "warning",
             {<<"declared", o, p>> : o \in owners(p)}) :
        p \in {e.port : e \in {e \in ports.expected : Cardinality(owners(e.port)) > 1}}}

\* Bug: the port of any session that is no longer new is taken for a stale one.
StalePortsOfOld(ports, sessions) ==
    {Finding("ports.stale-board-state", <<"stale port", k.port>>, "warning",
             {<<"claimed", k.port>>}) :
        k \in {k \in ports.checks :
                 /\ k.ours
                 /\ k.port \in UNION {sessions[s].ports : s \in {t \in DOMAIN sessions :
                                                                   sessions[t].old}}}}

StalePortFindings(ports, sessions) ==
    {Finding("ports.stale-board-state", <<"stale port", k.port>>, "warning",
             {<<"claimed", k.port>>}) :
        k \in {k \in ports.checks :
                 /\ k.ours
                 /\ k.port \in UNION {sessions[s].ports : s \in StaleSessions(sessions)}}}

-----------------------------------------------------------------------------
(* Verification (verification-inspector.ts, verification-rules.ts).  A run is a function from *)
(* the ids of its checks to their outcomes. *)

Outcomes(runs) ==
    UNION {{[run |-> r, check |-> k, status |-> runs[r][k]] :
              k \in {k \in DOMAIN runs[r] : runs[r][k] # "passed"}} : r \in DOMAIN runs}

CheckKind(status) ==
    CASE status \in {"failed", "timed_out"} -> "failed_check"
      [] status = "blocked" -> "blocked_check"
      [] status = "skipped" -> "skipped_check"
      [] OTHER -> "missing_configured_command"

OutcomeEvidence(o) == <<"outcome", o.run, o.check, o.status>>

OutcomeFindings(runs) ==
    {Finding("verification.observations", <<CheckKind(o.status), o.check>>,
             IF o.status \in {"failed", "timed_out"} THEN "error" ELSE "warning",
             {OutcomeEvidence(o)}) : o \in Outcomes(runs)}

\* What recurs is one check with one outcome, which may be that it was skipped.
RecurringFindings(runs) ==
    LET of(o) == {p \in Outcomes(runs) : p.check = o.check /\ p.status = o.status} IN
    {Candidate("verification.observations", <<"repeated_failure", o.check, o.status>>, "warning",
               {OutcomeEvidence(p) : p \in of(o)}) :
        o \in {o \in Outcomes(runs) : Cardinality(of(o)) >= 2}}

StaleConfigFindings(c, paths) ==
    (UNION {{Finding("verification.stale-config", <<"path", k.id, p>>, "warning",
                    {<<"uncovered", p>>}) :
               p \in {q \in k.patterns : Covers[q] \cap paths = {}}} : k \in c.checks})
    \cup UNION {{Finding("verification.stale-config", <<"component", k.id, m>>, "warning",
                         {<<"unknown component", m>>}) :
                    m \in k.components \ (DOMAIN c.applications \cup DOMAIN c.services)} :
                  k \in c.checks}

-----------------------------------------------------------------------------
(* The contract (contract-rules.ts). *)

PathReferenceFindings(c, paths) ==
    {Candidate("contract.path-references", <<"path", r.section, r.pattern>>, "warning",
               {<<"uncovered", r.pattern>>}) :
        r \in {r \in c.patterns : Covers[r.pattern] \cap paths = {}}}

\* The inventory has the whole texts of commands; the name of the program is looked for in it.
CommandReferenceFindings(c, commands) ==
    {Candidate("contract.command-references", <<"command", k.id, k.name>>, "warning",
               {<<"no command", k.name>>}) :
        k \in {k \in c.commands : k.at # "component" /\ k.name \notin commands}}

-----------------------------------------------------------------------------
(* runDiagnosticRules (diagnostic-rule.ts). *)

\* The rules themselves.  ctx has loaderFindings and, of contract, inventory, localEnvironment,
\* runtime, docker, ports and verification, what was read.
RunRule(rule, ctx) ==
    CASE rule = "environment.tools" -> ToolFindings(ctx.localEnvironment)
      [] rule = "environment.variables" -> VariableFindings(ctx.localEnvironment)
      [] rule = "environment.expected-files" -> FileFindings(ctx.localEnvironment)
      [] rule = "runtime.failures" -> SessionFindings(ctx.runtime)
      [] rule = "runtime.repeated-failures" -> RepeatedFindings(ctx.runtime)
      [] rule = "docker.observations" -> DockerFindings(ctx.docker)
      [] rule = "ports.observations" -> PortFindings(ctx.ports)
      [] rule = "ports.contract-duplicates" -> DuplicateFindings(ctx.ports)
      [] rule = "ports.stale-board-state" -> StalePortFindings(ctx.ports, ctx.runtime)
      [] rule = "verification.observations"
           -> OutcomeFindings(ctx.verification) \cup RecurringFindings(ctx.verification)
      [] rule = "verification.stale-config"
           -> StaleConfigFindings(ctx.contract, ctx.inventory.paths)
      [] rule = "contract.loader-findings" -> ctx.loaderFindings
      [] rule = "contract.path-references"
           -> PathReferenceFindings(ctx.contract, ctx.inventory.paths)
      [] OTHER -> CommandReferenceFindings(ctx.contract, ctx.inventory.commands)

Runnable(rule, ctx) == Prerequisites(rule) \subseteq DOMAIN ctx

\* The categories asked for choose the rules, of which those with all they need are run.
Chosen(categories, ctx) == {r \in Rules : Category(r) \in categories /\ Runnable(r, ctx)}

RuleFindings(categories, ctx) == UNION {RunRule(rule, ctx) : rule \in Chosen(categories, ctx)}

\* The patterns that a rule looks for in the inventory.
PatternsOf(rule, ctx) ==
    CASE rule = "contract.path-references" -> {r.pattern : r \in ctx.contract.patterns}
      [] rule = "verification.stale-config" -> UNION {k.patterns : k \in ctx.contract.checks}
      [] OTHER -> {}

\* A pattern with a * in front, or with ** but at its end, makes a rule throw, whatever paths
\* there are (matchesAnyPath).
RulesThrow(categories, ctx) ==
    \E rule \in Chosen(categories, ctx) : PatternsOf(rule, ctx) \cap Throwing # {}
=============================================================================
