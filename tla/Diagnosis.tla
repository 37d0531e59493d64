-------------------------------- MODULE Diagnosis --------------------------------
(***************************************************************************)
(* One `board doctor` up to its findings: the contract is loaded           *)
(* (contract-loader.ts), the repository scanned, the inspectors are run    *)
(* one after another (diagnostic-engine.ts, doctor-runner.ts) and then the *)
(* rules of DoctorRules over what they have read.  The machine does not    *)
(* stand still meanwhile: sessions start, fail and age, containers and the *)
(* Docker daemon come and go, files and the contract are edited, other     *)
(* commands record verification runs.  What becomes of the findings is in  *)
(* DoctorRun.                                                              *)
(***************************************************************************)
EXTENDS DoctorRules, Functions

CONSTANTS
    Worlds,       \* the states of machine and environment in which the doctor is started
    Edits,        \* what the file of the contract may be changed into
    Options,      \* the options of the command: [category, without, dry]
    NewRuns,      \* verification runs that may be recorded: name -> outcomes
    Variables,    \* environment variables
    ComposeNames, \* Compose services
    SessionNames, \* sessions that may be started
    Ports,        \* ports they may claim
    Failures,     \* what may fail in them: [part, id]
    Documented,   \* the commands the scanner finds
    Ignored,      \* paths that the inventory leaves out: in build directories, .env files
    MaxChanges    \* changes of the machine in one behavior

Files == Edits \cup {w.file : w \in Worlds}

Contracts == {f.contract : f \in {f \in Files : f.state = "valid"}}

PatternsIn(c) == {r.pattern : r \in c.patterns} \cup UNION {k.patterns : k \in c.checks}

\* Whatever a contract names is part of the machine.
ASSUME FilesAssumption ==
    /\ \A f \in Files : f.state \in {"missing", "unreadable", "invalid", "valid"}
    /\ \A c \in Contracts :
         /\ \A w \in Worlds : RequiredTools(c) \subseteq DOMAIN w.tools
         /\ {u.name : u \in Usages(c)} \subseteq Variables
         /\ {c.services[s].compose : s \in ComposeServices(c)} \subseteq ComposeNames
         /\ PatternsIn(c) \subseteq DOMAIN Covers

IsSession(x) ==
    /\ x \in [status : {"running", "failed", "stopped"}, started : Nat, old : BOOLEAN,
               failures : {x.failures}, ports : {x.ports}]
    /\ IsFiniteSet(x.failures)

IsContainer(x) == x \in [service : {x.service}, state : {"up", "unhealthy", "exited"}]

IsRun(x) == x \in [name : {x.name}, outcomes : {x.outcomes}] /\ IsFiniteSet(DOMAIN x.outcomes)

IsHistory(history) ==
    /\ history \in Seq(Range(history))
    /\ \A i \in DOMAIN history : IsRun(history[i])
    /\ \A i, j \in DOMAIN history : history[i].name = history[j].name => i = j

ASSUME WorldsAssumption ==
    \A w \in Worlds :
        /\ w.tools \in [DOMAIN w.tools -> {"ok", "fails", "late"}]
        /\ w.docker \subseteq {"client", "daemon", "compose", "list"}
        /\ w.containers \in [DOMAIN w.containers -> Range(w.containers)]
        /\ DOMAIN w.containers \subseteq DOMAIN Includes
        /\ \A n \in DOMAIN w.containers : IsContainer(w.containers[n])
        /\ w.sessions \in [DOMAIN w.sessions -> Range(w.sessions)]
        /\ IsFiniteSet(DOMAIN w.sessions)
        /\ \A s \in DOMAIN w.sessions : IsSession(w.sessions[s])
        /\ IsHistory(w.runs)

ASSUME ChangesAssumption ==
    /\ MaxChanges \in Nat
    /\ \A r \in DOMAIN NewRuns : IsFiniteSet(DOMAIN NewRuns[r])

VARIABLES
    \* The machine.
    file,        \* the contract file: [state, contract]
    tree,        \* the files of the repository
    tracked,     \* those that Git lists, whether they are there or not; Absent without Git
    tools,       \* whether the version command of a tool is "ok", "fails" or is "late"
    docker,      \* what works of Docker: a subset of {"client", "daemon", "compose", "list"}
    containers,  \* name -> [service, state]
    sessions,    \* the sessions on file: name -> [status, started, old, failures, ports]
    runs,        \* the recorded verification runs, latest first: <<[name, outcomes], ...>>
    unreadable,  \* the state files that do not parse
    changes,     \* how often it has changed
    \* The doctor.
    pc,          \* what it does next
    request,     \* what it was asked for: [categories, disabled, dry]
    present,     \* the environment variables it was started with
    ctx,         \* the context of its rules
    pending,     \* what the inspector at work has read so far
    report,      \* its findings
    \* History.
    seen,        \* what was the case at some moment since it was started
    lasting      \* what has been the case ever since

machineVars == <<file, tree, tracked, tools, docker, containers, sessions, runs, unreadable>>

doctorVars == <<pc, request, present, ctx, pending, report>>

vars == <<machineVars, changes, doctorVars, seen, lasting>>

-----------------------------------------------------------------------------
(* What is the case, in the words of the evidence of findings. *)

Metadata == ExpectedFiles({"node", "python3", "pnpm", "npm", "yarn", "bun", "uv", "poetry"})

\* buildFileInventory: without Git the directories are walked.
Inventory == (IF tracked = Absent THEN tree ELSE tracked \cap tree) \ Ignored

Facts ==
    {<<"contract", file.state>>}
    \cup (IF file.state # "valid" THEN {}
          ELSE {<<"declared", e.owner, e.port>> : e \in ExpectedPorts(file.contract)}
               \cup {<<"unknown component", m>> :
                       m \in (UNION {k.components : k \in file.contract.checks})
                             \ (DOMAIN file.contract.applications \cup DOMAIN file.contract.services)}
               \cup {<<"pattern", p>> : p \in PatternsIn(file.contract)})
    \cup {<<"uncovered", p>> : p \in {p \in DOMAIN Covers : Covers[p] \cap Inventory = {}}}
    \cup {<<"file", f>> : f \in Metadata \ tree}
    \cup {<<"variable", n>> : n \in Variables \ present}
    \cup {<<"no command", t>> : t \in DOMAIN tools \ Documented}
    \cup {<<"tool", t>> : t \in {t \in DOMAIN tools : tools[t] = "fails"}}
    \cup (UNION {{<<"failure", s, f>> : f \in sessions[s].failures} : s \in DOMAIN sessions})
    \cup {<<"stale", s>> : s \in StaleSessions(sessions)}
    \cup {<<"claimed", p>> : p \in UNION {sessions[s].ports : s \in StaleSessions(sessions)}}
    \cup {<<"without", part>> : part \in {"client", "daemon", "compose", "list"} \ docker}
    \cup {<<"container", n, containers[n].state>> : n \in DOMAIN containers}
    \cup {<<"no container", s>> :
            s \in ComposeNames \ {containers[n].service : n \in DOMAIN containers}}
    \cup (UNION {{<<"outcome", runs[i].name, k, runs[i].outcomes[k]>> :
                   k \in DOMAIN runs[i].outcomes} : i \in DOMAIN runs})
    \cup {<<"unreadable", u>> : u \in unreadable}

\* Of every step, the doctor's and the machine's, from the start of the doctor on.
Observe ==
    /\ seen' = seen \cup Facts'
    /\ lasting' = lasting \cap Facts'

-----------------------------------------------------------------------------
(* The command. *)

Categories ==
    {"environment", "runtime", "docker", "ports", "verification", "contract", "docs", "legacy"}

\* Without --category all of them; a doctor with an unknown one does not begin.
Accepted(options) == options.category \subseteq Categories

\* --no-runtime, --no-docker and --no-history
DisabledBy(options) ==
    UNION {CASE flag = "runtime" -> {"runtime", "ports"}
             [] flag = "docker" -> {"docker"}
             [] flag = "history" -> {"verification"} : flag \in options.without}

RequestOf(options) ==
    [categories |-> IF options.category = {} THEN Categories ELSE options.category,
     disabled |-> DisabledBy(options),
     dry |-> options.dry]

CommandStatus == IF report = {} THEN "success" ELSE "warning"

-----------------------------------------------------------------------------
(* Loading the contract and scanning. *)

Goto(label) == pc' = label

Inspectors == <<"inventory", "localEnvironment", "runtime", "docker", "ports", "verification">>

After(inspector) ==
    LET i == CHOOSE i \in DOMAIN Inspectors : Inspectors[i] = inspector IN
    IF i = Len(Inspectors) THEN "rules" ELSE Inspectors[i + 1]

Loaded(contract) == ctx' = [loaderFindings |-> {}, contract |-> contract]

\* The doctor goes on without a contract.
Unusable(id, severity, state) ==
    ctx' = [loaderFindings |-> {Finding(id, <<id>>, severity, {<<"contract", state>>})}]

\* access() finds no file.
ContractMissing ==
    /\ pc = "access"
    /\ file.state = "missing"
    /\ Unusable("contract.missing", "blocking", "missing")
    /\ Goto("scan")
    /\ UNCHANGED <<machineVars, request, present, pending, report>>

ContractThere ==
    /\ pc = "access"
    /\ file.state # "missing"
    /\ Goto("parse")
    /\ UNCHANGED <<machineVars, request, present, ctx, pending, report>>

\* The file is read and parsed; one that is gone by now cannot be read.
ParseContract ==
    /\ pc = "parse"
    /\ CASE file.state = "valid" -> Loaded(file.contract)
         [] file.state = "invalid"
              -> Unusable("contract.invalid", "blocking", "invalid")
         [] OTHER -> Unusable("contract.read_error", "error", file.state)
    /\ Goto("scan")
    /\ UNCHANGED <<machineVars, request, present, pending, report>>

\* A dry run scans, too, but runs no inspector and no rule.  Files are listed and then looked at
\* one by one; here at once.
Scan ==
    /\ pc = "scan"
    /\ pending' = [paths |-> Inventory, commands |-> Documented]
    /\ Goto(IF request.dry THEN "rules" ELSE Inspectors[1])
    /\ UNCHANGED <<machineVars, request, present, ctx, report>>

-----------------------------------------------------------------------------
(* The inspectors. *)

Enabled(inspector) == pc = inspector /\ inspector \notin request.disabled

\* Whether something has been read, into the context or by the inspector at work.
Has(part) == part \in DOMAIN ctx

Nothing == <<>>

HasAsked(question) == "asked" \in DOMAIN pending /\ pending.asked = question

SkipInspector(inspector) ==
    /\ pc = inspector
    /\ inspector \in request.disabled
    /\ pending' = Nothing
    /\ Goto(After(inspector))
    /\ UNCHANGED <<machineVars, request, present, ctx, report>>

\* What an inspector has read goes into the context, and the next one is run.
Extend(inspector, read) ==
    /\ ctx' = [part \in DOMAIN ctx \cup {inspector} |-> IF part = inspector THEN read ELSE ctx[part]]
    /\ pending' = Nothing
    /\ Goto(After(inspector))
    /\ UNCHANGED <<machineVars, request, present, report>>

InspectInventory == Enabled("inventory") /\ Extend("inventory", pending)

NoEnvironment == [tools |-> <<>>, required |-> {}, present |-> {}, missingFiles |-> {}]

\* The version commands of the tools run at the same time, each ends when it does.
ProbeTool(t) ==
    /\ Enabled("localEnvironment")
    /\ Has("contract")
    /\ t \in RequiredTools(ctx.contract) \ DOMAIN pending
    /\ pending' = [u \in DOMAIN pending \cup {t} |->
                     IF u = t THEN ToolStatus(tools[t]) ELSE pending[u]]
    /\ UNCHANGED <<machineVars, pc, request, present, ctx, report>>

InspectEnvironment ==
    /\ Enabled("localEnvironment")
    /\ \/ ~Has("contract") /\ Extend("localEnvironment", NoEnvironment)
       \/ /\ Has("contract")
          /\ DOMAIN pending = RequiredTools(ctx.contract)
          /\ Extend("localEnvironment",
                    [tools |-> pending,
                     required |-> RequiredVariables(ctx.contract),
                     present |-> present,
                     missingFiles |-> ExpectedFiles(DOMAIN pending) \ tree])

\* A state that cannot be read is taken for one without sessions.
InspectRuntime ==
    /\ Enabled("runtime")
    /\ Extend("runtime", IF "runtime" \in unreadable THEN <<>>
                         ELSE Restrict(sessions, RecentSessions(sessions)))

-----------------------------------------------------------------------------
(* Docker is asked four times, one command after another. *)

Services ==
    IF Has("contract")
    THEN [s \in ComposeServices(ctx.contract) |-> ctx.contract.services[s].compose]
    ELSE <<>>

Answered(answers) ==
    /\ pending' = answers
    /\ UNCHANGED <<machineVars, pc, request, present, ctx, report>>

DockerAnswers(client, daemon, compose, list) ==
    [client |-> client, daemon |-> daemon, compose |-> compose,
     services |-> Services, containers |-> list]

AskVersion ==
    /\ Enabled("docker")
    /\ pending = Nothing
    /\ IF "client" \in docker THEN Answered([asked |-> "version"])
       ELSE Extend("docker", DockerAnswers(FALSE, FALSE, FALSE, <<>>))

AskInfo ==
    /\ Enabled("docker")
    /\ HasAsked("version")
    /\ Answered([asked |-> "info", daemon |-> {"client", "daemon"} \subseteq docker])

AskCompose ==
    /\ Enabled("docker")
    /\ HasAsked("info")
    /\ LET compose == {"client", "compose"} \subseteq docker IN
         IF pending.daemon THEN Answered([asked |-> "compose", compose |-> compose])
         ELSE Extend("docker", DockerAnswers(TRUE, FALSE, compose, <<>>))

\* The exit code of ps is not looked at.
AskContainers ==
    /\ Enabled("docker")
    /\ HasAsked("compose")
    /\ LET list == IF {"client", "daemon", "list"} \subseteq docker THEN containers ELSE <<>> IN
         Extend("docker", DockerAnswers(TRUE, TRUE, pending.compose, list))

-----------------------------------------------------------------------------
(* Ports, and the history of verifications. *)

RequireListening == Has("runtime") /\ FailureObservations(ctx.runtime) # {}

InspectPorts ==
    /\ Enabled("ports")
    /\ LET expected == IF Has("contract") THEN ExpectedPorts(ctx.contract) ELSE {}
           known == IF Has("runtime") THEN ctx.runtime ELSE <<>> IN
         Extend("ports", [expected |-> expected, checks |-> PortChecks(expected, known),
                          requireListening |-> RequireListening])

ReadHistory ==
    /\ Enabled("verification")
    /\ pending = Nothing
    /\ IF "history" \in unreadable THEN Extend("verification", <<>>)
       ELSE Answered([names |-> {runs[i].name : i \in {i \in DOMAIN runs : i <= MaxRecent}}])

\* The files of the runs that the history lists; none is ever removed.
ReadRuns ==
    /\ Enabled("verification")
    /\ pending # Nothing
    /\ Extend("verification",
              [r \in pending.names |-> (CHOOSE run \in Range(runs) : run.name = r).outcomes])

\* A rule that throws is not caught: the doctor ends without a report.
FailRules ==
    /\ pc = "rules"
    /\ ~request.dry /\ RulesThrow(request.categories, ctx)
    /\ pending' = Nothing
    /\ Goto("failed")
    /\ UNCHANGED <<machineVars, request, present, ctx, report>>

\* What the loader found comes first, and again with the findings of its rule.
RunRules ==
    /\ pc = "rules"
    /\ request.dry \/ ~RulesThrow(request.categories, ctx)
    /\ report' = ctx.loaderFindings
                  \cup (IF request.dry THEN {} ELSE RuleFindings(request.categories, ctx))
    /\ pending' = Nothing
    /\ Goto("done")
    /\ UNCHANGED <<machineVars, request, present, ctx>>

Doctor ==
    /\ \/ ContractMissing \/ ContractThere \/ ParseContract \/ Scan
       \/ \E i \in DOMAIN Inspectors : SkipInspector(Inspectors[i])
       \/ InspectInventory
       \/ \E t \in DOMAIN tools : ProbeTool(t)
       \/ InspectEnvironment \/ InspectRuntime
       \/ AskVersion \/ AskInfo \/ AskCompose \/ AskContainers
       \/ InspectPorts \/ ReadHistory \/ ReadRuns \/ RunRules \/ FailRules
    /\ UNCHANGED changes

-----------------------------------------------------------------------------
(* What else happens on the machine.  Only changes of which the doctor still reads something *)
(* are looked at. *)

Changing ==
    /\ pc \notin {"done", "failed"}
    /\ changes < MaxChanges
    /\ changes' = changes + 1
    /\ UNCHANGED doctorVars

EditContract ==
    /\ file' \in Edits \ {file}
    /\ UNCHANGED <<tree, tracked, tools, docker, containers, sessions, runs, unreadable>>

EditTree ==
    /\ \E p \in Metadata \cup UNION Range(Covers) :
         tree' = IF p \in tree THEN tree \ {p} ELSE tree \cup {p}
    /\ UNCHANGED <<file, tracked, tools, docker, containers, sessions, runs, unreadable>>

\* `git add` and `git rm --cached` of a file, and Git comes or goes.
Track ==
    /\ IF tracked = Absent THEN tracked' = {}
       ELSE \/ tracked' = Absent
            \/ \E p \in tree : tracked' = IF p \in tracked THEN tracked \ {p} ELSE tracked \cup {p}
    /\ UNCHANGED <<file, tree, tools, docker, containers, sessions, runs, unreadable>>

ChangeTool ==
    /\ \E t \in DOMAIN tools, answer \in {"ok", "fails", "late"} :
         answer # tools[t] /\ tools' = [tools EXCEPT ![t] = answer]
    /\ UNCHANGED <<file, tree, tracked, docker, containers, sessions, runs, unreadable>>

ChangeDocker ==
    /\ \E part \in {"client", "daemon", "compose", "list"} :
         docker' = IF part \in docker THEN docker \ {part} ELSE docker \cup {part}
    /\ UNCHANGED <<file, tree, tracked, tools, containers, sessions, runs, unreadable>>

ChangeContainer ==
    /\ \E n \in DOMAIN containers, state \in {"up", "unhealthy", "exited", "gone"} :
         /\ state # containers[n].state
         /\ containers' = IF state = "gone" THEN Restrict(containers, DOMAIN containers \ {n})
                          ELSE [containers EXCEPT ![n].state = state]
    /\ UNCHANGED <<file, tree, tracked, tools, docker, sessions, runs, unreadable>>

Fresh(started) ==
    [status |-> "running", started |-> started, old |-> FALSE, failures |-> {}, ports |-> {}]

StartSession ==
    /\ \E s \in SessionNames \ DOMAIN sessions :
         sessions' = [t \in DOMAIN sessions \cup {s} |->
                        IF t = s THEN Fresh(Cardinality(DOMAIN sessions) + 1) ELSE sessions[t]]
    /\ UNCHANGED <<file, tree, tracked, tools, docker, containers, runs, unreadable>>

\* A running session claims a port, fails at something, ends, or is an hour old.
ChangeSession ==
    /\ \E s \in {s \in DOMAIN sessions : sessions[s].status = "running"} :
         \/ \E p \in Ports \ sessions[s].ports :
              sessions' = [sessions EXCEPT ![s].ports = @ \cup {p}]
         \/ \E f \in Failures \ sessions[s].failures :
              sessions' = [sessions EXCEPT ![s].failures = @ \cup {f}, ![s].status = "failed"]
         \/ sessions' = [sessions EXCEPT ![s].status = "stopped"]
         \/ ~sessions[s].old /\ sessions' = [sessions EXCEPT ![s].old = TRUE]
    /\ UNCHANGED <<file, tree, tracked, tools, docker, containers, runs, unreadable>>

RecordRun ==
    /\ \E r \in DOMAIN NewRuns \ {runs[i].name : i \in DOMAIN runs} :
         runs' = <<[name |-> r, outcomes |-> NewRuns[r]]>> \o runs
    /\ UNCHANGED <<file, tree, tracked, tools, docker, containers, sessions, unreadable>>

Machine ==
    /\ Changing
    /\ \/ EditContract \/ EditTree \/ Track \/ ChangeTool \/ ChangeDocker \/ ChangeContainer
       \/ StartSession \/ ChangeSession \/ RecordRun

-----------------------------------------------------------------------------
Init ==
    /\ \E w \in Worlds :
         /\ file = w.file /\ tree = w.tree /\ tracked = w.tracked /\ tools = w.tools /\ docker = w.docker
         /\ containers = w.containers /\ sessions = w.sessions /\ runs = w.runs
         /\ unreadable = w.unreadable /\ present = w.present
    /\ changes = 0
    /\ pc = "access"
    /\ \E o \in Options : Accepted(o) /\ request = RequestOf(o)
    /\ ctx = [loaderFindings |-> {}]
    /\ pending = Nothing
    /\ report = {}
    /\ seen = Facts
    /\ lasting = Facts

Next == (Doctor \/ Machine) /\ Observe

Spec == Init /\ [][Next]_vars

-----------------------------------------------------------------------------
\* Every variable keeps its type; a finding has evidence.
TypeOK ==
    /\ file.state \in {"missing", "unreadable", "invalid", "valid"}
    /\ tools \in [DOMAIN tools -> {"ok", "fails", "late"}]
    /\ docker \subseteq {"client", "daemon", "compose", "list"}
    /\ changes \in 0..MaxChanges
    /\ pc \in {"access", "parse", "scan", "rules", "done", "failed"} \cup Range(Inspectors)
    /\ lasting \subseteq seen
    /\ \A f \in report :
         /\ f.rule \in Rules \cup {"contract.missing", "contract.invalid", "contract.read_error"}
         /\ f.severity \in {"warning", "error", "blocking"}
         /\ f.kind \in {"fact", "candidate"}
         /\ f.evidence # {}

\* Whatever a finding gives as evidence was the case at some moment of the doctor's run, however
\* much has changed while the inspectors, each at its own time, looked at the machine: but for
\* containers, which are called missing as well when Docker fails to list them, and for the daemon
\* and Compose, when the client has gone since it was asked for its version
\* (docker-inspector.ts:87-149).  That a path of the contract is missing says that no file of the
\* inventory matches it: there may be one that Git does not list, or in a build directory
\* (contract-rules.ts:130-136, file-inventory.ts:71-86).
EvidenceWasSo ==
    \A f \in report : \A e \in f.evidence :
        \/ e \in seen
        \/ e[1] = "no container" /\ \E p \in {"client", "daemon", "list"} : <<"without", p>> \in seen
        \/ e[1] = "without" /\ <<"without", "client">> \in seen

\* What of the facts the doctor was to look at.
Looked(category, inspector) ==
    category \in request.categories /\ inspector \notin request.disabled /\ ~request.dry

Newest(s) ==
    Cardinality({t \in DOMAIN sessions : sessions[t].started > sessions[s].started}) < MaxRecent

NeverFailed(parts) == \A p \in parts : <<"without", p>> \notin seen

Concerns(e) ==
    LET c == ctx.contract IN
    CASE e[1] = "contract" -> e[2] # "valid"
      [] e[1] = "tool" ->
           Looked("environment", "localEnvironment") /\ Has("contract") /\ e[2] \in RequiredTools(c)
      [] e[1] = "variable" ->
           Looked("environment", "localEnvironment") /\ Has("contract") /\ e[2] \in RequiredVariables(c)
      [] e[1] = "uncovered" ->
           /\ Looked("contract", "inventory") /\ Has("contract")
           /\ \E r \in c.patterns : r.pattern = e[2]
      [] e[1] \in {"failure", "stale"} ->
           /\ Looked("runtime", "runtime") /\ <<"unreadable", "runtime">> \notin seen
           /\ e[2] \in DOMAIN sessions /\ Newest(e[2])
      [] e = <<"without", "client">> -> Looked("docker", "docker")
      [] e \in {<<"without", "daemon">>, <<"without", "compose">>} ->
           Looked("docker", "docker") /\ NeverFailed({"client"})
      [] e[1] = "container" ->
           /\ Looked("docker", "docker") /\ NeverFailed({"client", "daemon", "list"})
           /\ e[3] # "up" /\ Has("contract")
           /\ \E s \in ComposeServices(c) :
                e[2] \in DOMAIN containers /\ containers[e[2]].service = c.services[s].compose
      [] e[1] = "no container" ->
           /\ Looked("docker", "docker") /\ NeverFailed({"client", "daemon", "list"})
           /\ Has("contract") /\ \E s \in ComposeServices(c) : c.services[s].compose = e[2]
           /\ \A n \in DOMAIN Includes : e[2] \notin Includes[n]
      [] e[1] = "outcome" ->
           /\ Looked("verification", "verification") /\ <<"unreadable", "history">> \notin seen
           /\ e[4] # "passed"
           /\ \E i \in 1..MaxRecent : i \in DOMAIN runs /\ runs[i].name = e[2]
      [] OTHER -> FALSE

\* What has been the case ever since the doctor was started, and was for it to look at, is in its
\* report: no change of other things, no inspector that was skipped and no filter for other
\* categories hides it, and the command ends with a warning.  An unusable contract is reported
\* whatever was asked for.  All that can keep the doctor from a report is a pattern in the contract
\* of which a rule makes no regular expression (contract-rules.ts:281-297).
LastingTroubleIsReported ==
    /\ pc = "done" => \A e \in lasting : Concerns(e) =>
                     CommandStatus = "warning" /\ \E f \in report : e \in f.evidence
    /\ pc = "failed" => \E p \in Throwing : <<"pattern", p>> \in seen

\* The rule about stale ports and the rule about stale sessions speak of the same sessions: a
\* port is called stale exactly when the contract declares it and a session that the same report
\* calls stale claims it (port-rules.ts:44-102, runtime-inspector.ts:170-178).
StalePortsAgree ==
    (pc = "done" /\ Looked("ports", "ports") /\ Looked("runtime", "runtime")) =>
        {f.id[2] : f \in {f \in report : f.rule = "ports.stale-board-state"}}
          = {e.port : e \in IF Has("contract") THEN ExpectedPorts(ctx.contract) ELSE {}}
            \cap UNION {ctx.runtime[f.id[2]].ports :
                          f \in {f \in report : f.id[1] = "stale_session"}}

\* Whatever is said to recur is backed by two findings about the same at least, each of which the
\* report has as well (runtime-rules.ts:21-42, verification-inspector.ts:147-165).
RepeatedIsBacked ==
    \A f \in report :
        (f.kind = "candidate" /\ f.rule \in {"runtime.repeated-failures", "verification.observations"})
          => LET backing == {g \in report : g.kind = "fact" /\ g.evidence \subseteq f.evidence} IN
             /\ UNION {g.evidence : g \in backing} = f.evidence
             /\ Cardinality(backing) >= 2
             /\ \A g, h \in backing : g.id = h.id

\* The findings of one report agree with each other, though their rules do not share what they
\* read (port-rules.ts, runtime-rules.ts, verification-inspector.ts).
RulesAgree == TypeOK /\ StalePortsAgree /\ RepeatedIsBacked
=============================================================================
