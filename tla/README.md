# Board: a formal model of the `board` command line

This project models the code that `board` runs on a developer's machine: starting and stopping
a repository's services and applications (`packages/bootstrap-runtime`), diagnosing it
(`doctor-runtime`), verifying changes (`verification-runtime`), writing its contract from a scan
(`scanner-core`, `repository-contract`, `init-core`), the graph built of it (`repository-graph`),
and the commands of `packages/cli` that issue all that. The modules are written from the
TypeScript sources below `src/`; paths in this file are relative to `src/packages/`.

    tlc -workers 2 -config LifecycleSerial.cfg MCLifecycle     # check one instance
    tlapm RuntimeProofs.tla                                    # check the proofs of a component

`PROJECT.json` lists every run with its properties, every definition with the lines it
models, a mutated form of the code for every property, the hazards and the findings.

## 1. Inventory

Every `board` command is a process of its own. Commands meet only in files below the
repository's state root, in the SQLite file of the graph, in the operating system's process
table, in git and in Docker. Nothing takes a lock but SQLite. Each JSON file is written to a
temporary file and renamed, so that a write is atomic; an update is a read, an `await`, and a
write of all of it.

| Component | State it keeps | Operations | What is hard | What makes it correct | Modules |
|---|---|---|---|---|---|
| **Runtime state store** `bootstrap-runtime/src/state-store.ts` | `sessions/<id>.json`, `latest.json`, `processes.json` | createSession, updateSession, readLatestSession, listSessions, registerProcess, removeProcess | two files per session write; unlocked read-modify-writes; a command killed in between | the pointer never dangles; a record names a process of its own session | `RuntimeStore` |
| **Runtime start** `orchestrator.ts`, `process-manager.ts`, `compose.ts` | the session object, the children, the timers | startRuntime: ten phases, each persisted; startManagedProcess: spawn, readiness probe, register | interrupt and startup timeout at every checkpoint; a child that exits while its record is being written; errors of four phases | nothing starts after an error; what is started is on record; a startup that is cut short leaves nothing running and says where it was cut | `RuntimeStart`, `RuntimeLifecycle` |
| **Runtime stop** `stop.ts`, `process-manager.ts` | snapshots of the sessions and of the process records | stopRuntime, stopManagedProcess, Compose stop | works on what it read at its beginning; SIGTERM may be ignored; pids may be reused; Compose may fail halfway | it signals processes of the session only; a session that reads "stopped" is down | `RuntimeStop`, `RuntimeLifecycle` |
| **Runtime status** `status.ts` | – | getRuntimeStatus | a summary computed of three files that other commands write | it agrees with the session, and with what runs | `RuntimeStatus` |
| **Setup runner and plan** `setup-runner.ts`, `plan.ts`, `environment.ts`, `runtime-budget.ts` | completedSteps | createBootstrapPlan, runSetupSteps | dependencies in any order, optional and blocked steps, budgets, `--only`, `--skip-setup` | failed setup keeps everything else from starting; the final status is honest | `StartupSteps` |
| **Command runner** `command-runner.ts` (of both runtimes) | child, timer, output | runRuntimeCommand, runVerificationCommand | timer, `error` and `close` race; a command that ignores SIGTERM or may not be signalled | settles exactly once; success is earned; no timer is left | `CommandRunner`, `StepOutcomes` |
| **Health checks, ports** `health-checks.ts`, `ports.ts` | – | runRuntimeHealthChecks, checkPorts | retries, each with a timeout | checks do not overlap; a check is given up after its last try only | `HealthChecks` |
| **Doctor runtime** `doctor-runtime/src/doctor-runner.ts`, `state-store.ts`, `known-problem-store.ts`, `legacy-candidate-*.ts` | `runs/<id>.json`, `latest.json`, `known-problems.json`, `candidates/<id>.json`, `index.json` | runDoctor, upsertFinding, upsert and updateReviewStatus of a candidate | one command starts many upserts of the same file at once; two files per candidate; limits of the lists; a failing upsert among many | the index and the pointer name what is there; counts are earned; human decisions survive rediscovery | `DoctorStore`, `DoctorRun` |
| **Doctor inspectors and rules** `*-inspector.ts`, `*-rules.ts`, `diagnostic-engine.ts`, `contract-loader.ts`, `local-environment.ts` | what has been read so far | six inspectors in turn, fourteen rules | the machine changes between two reads; a missing contract, a failing tool or a filter takes away some rules' ground | what is reported was so; what lasted is reported; what is said to recur does | `DoctorRules`, `Diagnosis` |
| **Verification runtime** `verification-runtime/src/` | `runs/<id>.json`, `history.json`, `latest.json` | load, ask git, select, deduplicate, order, run, classify, record | two git commands while files change; requirements in any shape; duplicate ids; history is a read-modify-write | what changed is verified; the order respects requirements; the status adds up; the history names what is on file | `VerificationChecks`, `VerificationRun` |
| **Scanner core** `scanner-core/src/` | – | 26 detectors, the last of which groups the facts of the others | any detector may fail and the scan goes on | a contract made of the facts is closed all the same | `ScanToContract` |
| **Repository contract** `repository-contract/src/` | – | parse, validate, serialize | references across sections; defaults that serializing drops | only what validates is written | `RepositoryContract` |
| **Init core** `init-core/src/` | files of `.board/` | initializeRepository: scan, read, merge, status, write | the contract is read long before it is renamed over; maintainers edit and commit meanwhile; two inits | nothing of the maintainers' is lost; what is written validates and is settled | `RepositoryContract`, `ScanToContract`, `InitRun` |
| **Repository graph** `repository-graph/src/` | builds, nodes, edges and evidence in SQLite | a build of sixteen parts, replaceGraph, clear, queries, paths, invalidation plan, explanations | parts that refer to each other's nodes; statements that fail or are refused the lock; questions of many statements | one build as a whole or none; answers exact when nothing was committed meanwhile; nothing changed is left out of a plan | `GraphParts`, `GraphQueries`, `GraphStore`, `GraphSnapshots`, `RepositoryGraph` |
| **CLI** `cli/src/` | interrupt handlers | one command per process | an interrupt during cleanup | the exit code follows the report | all of the above |
| **State machine, reports, tools, shells** `state-machine.ts`, `reports.ts`, `agent-*`, `approvals`, `policy`, `mcp-server`, `apps/*` | – | unused, formatting or placeholders | – | – | – |

Interactions: `start` passes its options and an abort signal to startRuntime, which
calls the planner, the environment, the setup runner (and through it the command runner),
Compose, the process manager and the health checks, persists the session through the state
store after each phase, and calls stopRuntime to clean up after an interrupt or a timeout.
`stop` calls stopRuntime; `status` reads the same files. `init` writes the contract that `start`,
`verify`, `doctor` and `graph build` read. `doctor` reads the runtime's and the verification
runtime's files, and owns its own; `legacy review` writes the candidate files that `doctor`
rediscovers; `graph build` reads the contract, a scan and the doctor's files.

## 2. Modules

### Commands on one machine: RuntimeStore, RuntimeStop, RuntimeStart, RuntimeLifecycle

`RuntimeStore` has the shared state: `sessionFile`, `latest`, `processes` for the three
kinds of files, `os` for the process table (external: processes exit by themselves, obey or
ignore SIGTERM, and with `PidReuse` their pids go to unrelated processes), `compose` for the
Compose projects, and for each command its program counter `pc`, the content `buf` of a
read-modify-write under way and the pointer write `latestDue` that is still to follow a session
write. A label of `pc` stands for an `await` after which other commands may have run.

`RuntimeStop` is stopRuntime, one action per await: list the sessions, read the pointer,
select (`latest`, `session`, `all`), read the records once, then per session signal each
record's pid, remove the record (read, write), stop Compose, persist the snapshot. `board stop`
runs it, and so does a startup that was cut short, by force.

`RuntimeStart` is startRuntime as other commands see it. Of a session it keeps what they can tell:
status, whether there are errors and warnings, one process resource per application, the Compose
resource, whether a port resource has failed, and the worst health check. `Troubles` are what may go
wrong of the last three without being an error. Spawn, readiness probe and registration are separate
steps; the child may exit in either window, and then `late` holds the registration that nobody waits for
any more. `CutShort` is an interrupt or the startup timeout at one of the checkpoints.

`RuntimeLifecycle` composes them: any number of starts and stops, at once or in turn
(`Serial`), each of which may be killed between any two steps (`Crash`).

`RuntimeStatus` adds `board status` as a function of their state: the pointer or the session asked
for, the resources of the session overlaid with the processes on record, the summary ("failed" also
for a port or a health check that had failed when the session was started), and what the command
exits with (a warning also for those of the session). It writes nothing and needs no action.

### The steps of a startup: StartupSteps

The same startup from inside: the plan (setup steps with dependencies, options and budgets;
services; applications; checks, numbered as the plan lists them), the setup runner step by step,
and what each phase, the final summary and a cut do to the steps of the session. Phases correspond
to the labels of `RuntimeStart`; the two share no state, `RuntimeStart` takes what
`StartupSteps` decides (errors or none, healthy or not) as a free choice.

### Commands and health checks: StepOutcomes, CommandRunner, HealthChecks

`CommandRunner` is one command per step: the child, its exit code and output, the timer, and the
handlers of `error`, `close` and the timer in whatever order the events come. What is run has a
nature (`Nature`): whether it exists, ends on SIGTERM, may be signalled, leaves descendants that
keep its output open. `HealthChecks` runs the checks of a plan through it one after the other,
next to URLs that are fetched with retries. `StepOutcomes` is what both promise: steps begin in
turn, each reports one outcome, once. `Implements` of HealthChecks is that refinement, with the
steps begun and the results as the mapping.

### Verification: VerificationChecks, VerificationRun

`VerificationChecks` has what is computed: the checks of a contract, the names that `git diff` and `git
status` give to what has changed in a working tree (`Names`: a path; for an untracked one the outermost
directory in which git tracks nothing, `Dirs`; for one that was moved what the parser leaves of its old
path, `Mangled`), the components concerned, the selection for the options, the checks that unset
variables block, the status of a run. `VerificationRun` is the command: `Begin` (contract and options),
`ReadDiff` and `ReadStatus` in either order while `EditTree` goes on, `Select`, the depth-first ordering
visit by visit (`VisitNext`, `Require`, `Refuse`, `Place`, `EndOrder`), `RunCheck` one after the other,
and the three files (`WriteRun`, `WriteLatest`, `ReadHistory`, `WriteHistory`). `seen` and `lasting` are
history: paths that have differed at some time, or ever since the command was issued under one name
(`Way`).

### The contract: RepositoryContract, ScanToContract, InitRun

`RepositoryContract` has the shape of a contract (`IsContract`) and its validity as the schema has it
(references, names, distinct ids), the
written form with what the serializer prunes, and the merge of an existing contract with a generated
one, section by section: of items with one name or pattern it keeps the last, and the existing
verification always. `ScanToContract` maps the files of a repository to facts, detector by
detector, groups them as the aggregator does and maps them to the sections of a contract; a scan
is that for every set of detectors that fail and for every order in which facts of one id may come.
`InitRun` is the command: `Scan`, `Access` and `Open` the contract, `Status` (merge, validate, look
at the worktree), `CheckExists`, `WriteTemp`, `CopyMode`, `Rename`, a failure or crash anywhere,
and maintainers who edit, move, commit and develop meanwhile. git status may fail (`answered`), and does
not name a file that is `ignored` or `renamed`: the command then takes it for clean.

### The graph: GraphParts, GraphQueries, GraphStore, GraphSnapshots, RepositoryGraph

`GraphParts` has the sixteen parts of a build as functions of a context, and their union by id.
`GraphQueries` has the invalidation plan, the explanation of a node, and `Within`, the reference for
walks. Answers have limits (`MaxStarts`, `MaxRecords`, `MaxDepth`; 25, 100 and 6 in the code): which of
too many records are kept depends on the order of ids and of walks, and is left open (`FirstOf`).
`GraphStore` is the SQLite file as other processes see it: committed tables, each writer's transaction,
the write lock, and a rebuild or clear statement by statement, each of which may fail or be refused.
`RepositoryGraph` composes them: a build reads inventory, contract, scan and the doctor's state at
different times from a repository that is edited (`Worlds`), makes its graph and writes it; a query walks
the committed tables, one statement a step. `GraphSnapshots` is what the store promises: the graph is one
of those offered, as a whole, or none during a clear. `Implements` of RepositoryGraph is the refinement;
the mapping takes the committed tables for the graph and the snapshots of builds under way for what is
offered. It holds of clears that run alone (`ClearsAlone`): a clear has no transaction, and a build that
commits between two of its statements is left without its nodes.

### Diagnosis: DoctorStore, DoctorRun

`DoctorStore` has the five files of the doctor and the steps of one update: of a
candidate (`leg`: read, write the file, read the index, write it) and of a known problem
(`upsert`: read the list, write it). `DoctorRun` composes them into `board doctor` (import of
the scanner's candidates, stale workflows, diagnosis, the upserts, the run and the pointer) and
`board legacy review`. The upserts of one phase run at once, as `Promise.all` starts them: one
that fails fails the command while the others run on (`LegFails`, `FindingFails`).
`decided` and `found` are history: the last decision a review wrote, and how often a finding was.

`DoctorRules` has what the inspectors observe of what they have read and what the rules find in
it. `Diagnosis` is a `board doctor` up to its findings: the contract is looked for and parsed, the
repository scanned for its inventory (what Git lists and is there, less what is `Ignored`; not the tree in
which expected files are looked for), and the inspectors run one after the other, Docker's four commands as four
steps, while the machine changes (`Machine`: sessions start, fail and age, containers, the daemon and
tools come and go, files are edited and tracked, verification runs recorded). A pattern of the contract of
which no regular expression can be made (`Throwing`) makes its rule throw, and the doctor ends without a
report (`FailRules`). `seen` and `lasting` are history: the
facts, in the words of the evidence, that held at some moment or ever since the doctor began. What
becomes of findings is `DoctorRun`'s; the two share the findings only, a free choice there.

### Abstractions

- listSessions is one atomic read of all session files; the code reads them one by one.
- Records, resources and list entries form sets; where the code sorts by time and cuts a
  list to its limit, the model drops any of the entries (`Within`).
- The output of commands, container names, messages and times are left out, port numbers but for the doctor.
- `ProbeOutlastsWrites` (TRUE in the runs): a readiness window of 500 ms ends after a
  write of `processes.json` begun before it. Without it a late registration of an earlier
  application may undo the next.
- Review statuses are three of five: the first, an accepting and a refusing decision.
- Findings of a run have distinct fingerprints. A candidate has a set of signals, which a
  merge unites.
- `board status` reads session, pointer and records at one moment, and a scan reads the tree at
  one: no property speaks of what comes in between. The scan's listing and its look at the files are one.
- Paths, patterns, names and texts are members of small sets or tables: what a pattern matches or
  begins with (`Matches`, `Begins`), which directory a file is in, what a file mentions.
- An id of the graph, a hash in the code, is what it hashes. A file that cannot be read is one
  without text.
- SQLite's store is taken to be in WAL mode, as it is opened: readers are never blocked and see
  committed rows only.
- A detector is what it emits for what is in the files; names are without a scope ("@...").

## 3. Runs

| Run | Instance | What it shows |
|---|---|---|
| `sessions_in_turn` | 2 starts, 1 stop, 1 application, 2 pids, Compose, pid reuse, crashes, warnings and failed ports and health checks, serial, 1 mishap | No live process escapes the files (`Tracked`); a startup that reports being cut short left none behind (`CleanupComplete`); "stopped" tells the truth (`StoppedIsDown`), and `board status` says so (`StopIsReported`); what a session lists as running is on record (`RunningIsOnRecord`). |
| `startups_at_once` | 2 starts at the same time, with their cleanups | The pointer never dangles; whatever `processes.json` loses or gets back, records stay owned and a cleanup signals its own session only; nothing is spawned after an error on record. |
| `commands_end` | a start and a stop at the same time, Compose, fairness | Every command that is not killed ends. |
| `startup_steps` | 2 setup steps, 2 services, 2 applications, 1 check | Failed setup keeps everything from starting; a status of running or succeeded is honest; a cut leaves nothing pending, names a step that had not run and overwrites no outcome. |
| `health_checks` | 2 steps of any kind and nature, 2 retries, fairness | One outcome per step in turn (`Implements`); success is earned, no timer is left, programs do not overlap unless Board may not signal them; a URL is given up after its last try; the checks end but for a program that cannot be ended (`ChecksGoOn`). |
| `verification` | contracts of 3 checks, 3 paths, up to 3 commands, 2 changes of the tree, a history of 2 | A change that lasts is verified by all that concerns what git names it as, `--changed` runs nothing else; requirements first; refusals have a cause; a status is earned; the history names what is on file and, in turn, misses no run. |
| `init` | 2 inits over 3 repositories and 3 contracts, one of 7 detectors failing, a git status that fails or does not name a file, one edit | Invalid contracts, drafts and uncommitted work that git status names are not written over; a merge loses nothing but repeated items and settles; what is written validates; a scan with a failed detector still yields a closed contract. |
| `graph` | 2 states of a repository, 2 writers, 1 question of six, limits of 2 nodes to start from, 10 records and 2 edges, 1 failing statement | The store holds one build or none (`Implements`); answers are committed records, when nothing was committed meanwhile exact up to the limits, and paths shortest; an invalidation plan covers every change; edges end at nodes; a candidate in use is explained so unless the answer was cut. |
| `doctor_state` | 2 doctors and 1 review, at once or in turn, limits of 1 or 2 | What index and pointer name is there; counts are earned; in turn, decisions and matched records stay. |
| `diagnosis` | 4 kinds of machine, 2 changes at any moment, filters and skipped inspectors | Findings were so; what lasted is found, but for a doctor that a pattern made end without a report; two rules about ports agree; what "recurs" is backed twice. |
| `optional_service`, `graph_fingerprints` | the smallest that shows it | A sentence of the documentation that the code does not keep (section 5). |

Invariants that are parts of one promise are checked under one name: `SelectionIsRight`, `PlanIsRight`
and `HistoryIsRight` in `VerificationRun`, `StepsInTurn` and `OutcomesAreEarned` in `HealthChecks`,
`FilesAreSound` and `WorkIsKept` in `InitRun`, `AnswersAreTrue` in `RepositoryGraph`, `RulesAgree` in
`Diagnosis`; each is the conjunction of the named parts above it, and holds the module's `TypeOK` where
there is no run of that alone. `TypeOK` of `StartupSteps` and of `DoctorRun` is proved (section 4) and not run.

Bounds. The lifecycle instances are the smallest in which each case happens: two sessions are needed for
one to take the pointer, the record or the pid of the other, two pids for a reused one next to a live
one, two applications for a partial start (`startup_steps`). Three commands at the same time are beyond
the time a run may take; the theorems of section 4 cover them for the properties they state. `Crash` may
take any command at any label. `MaxMishaps` bounds the crashes, the pids given away, the Compose failures
and the troubles of one behaviour, all told (`FewMishaps`): one in `sessions_in_turn`, whose properties
are proved for any number of them; the other two instances, of which no property depends on `Troubles`,
have none and stay below their bound. Session, application and pid identifiers are interchangeable and
TLC uses that symmetry in safety runs; `commands_end` checks liveness and uses none. `RunningIsOnRecord`
and `StopIsReported` speak of states in which each session still has a pid of its own (`OwnPids`): a stop
removes every record of a pid it stopped, also that of another session that was given the pid.

`MCStartup` varies setup and what it starts one at a time: `SimpleSetup` leaves services and
applications free, `SimpleResources` the dependencies, optional and blocked steps and the setup
budget. The two parts meet in `errors` only, and the theorems need no such restriction.

`MCVerification` has contracts of four kinds. `Ordered` ones have every relation of requirements
between three checks, `Clashing` ones duplicate ids and unset variables, `Selecting` ones every way
for a path or component to select a check; in the last kind no check is run and nothing skipped, and
only there files are edited and git fails, since order and outcomes do not depend on it. Its three paths
are in three directories, two of them in a fourth, so that each name git may give occurs. With a
`Single` check three commands run at the same time: commands only meet over the files.

`MCInit` follows scans with a failed detector one init at a time, with inits that write without
force in a worktree that nobody edits, and whole scans with everything else (`Focus`); a commit or
an edit below a worktree's top level is looked at among inits that write. A git status that fails,
ignored files and a renamed one come one at a time (`Plain`, `Odd`), in a top level, among inits that write
without force. One contract has two unsafe paths of one pattern and two related repositories of one name.
The three repositories are made
so that failing detectors matter: a worker found in a manifest only, two packages of one name, an
application in a Python file, a variable known from an example or from Compose only.

`MCGraph` lets a clear run alone, one build at a time read the repository, and at most one writer
be at work while a question is answered, before any statement has failed and at the statements whose
effect others see (`Focus`); the
repository changes at the start of a build, in the first also between the reads, and time passes before
a second build (`Passing`). The two states of the repository have a file of each kind moved, edited,
added and removed between them, and use every part. With limits of 2, 10 and 2 each of the limits cuts some
answer and leaves others whole, also those about a candidate, used and unused.

`MCDoctor` restricts a behaviour to one of the two stores (`OneStore`), which share nothing
but the phases of the doctor, and to two candidate updates in flight. The list limits are 1 and
2, so that they cut. `MatchedStaysKnown` excludes a full list, from which records go by design.
`MCDiagnosis` starts in a repository that is well, one that is ill in many ways, one where nothing
can be read and one where sessions have failed at the same and a Compose service was never started. A pattern of
each kind matters there: one with files Git lists, or does not list, one for a build directory, one that throws.
`MaxChanges` = 2 lets something come and go, or two things change together. Of the tools
one that either contract needs comes and goes (`OneTool`), since all are looked at alike.

`CHECK_DEADLOCK FALSE` everywhere: when the commands have ended, the system rests.

Fairness. `commands_end` assumes weak fairness of `Progress(c)`, the steps of a
running command. A Node process whose file operation, child event or awaited command has
completed does run its continuation. Neither the beginning of a command nor an interrupt, a crash
or the exit of an application is fair: users and applications do as they please. What it
shows is that no step of a command waits for another command, and that the loops of a stop over
sessions and records come to an end while others add some. `health_checks` assumes weak fairness of the
steps of Board's own code, of its timers and of the delivery of events; that a program exits, or closes
its output, is not assumed. `ChecksGoOn` therefore names the programs that hold the checks up.

## 4. Proofs

Eight modules hold theorems, for all values of the constants: `RuntimeProofs`,
`StartupStepsProofs`, `HealthChecksProofs`, `VerificationRunProofs`, `InitRunProofs`,
`RepositoryGraphProofs`, `DoctorRunProofs` and `DiagnosisProofs`. Each has an inductive invariant, a lemma
for every action or group of actions that can disturb a part of it, and the theorems at the end of the
part that they are about.

They assume what the modules declare of their constants, and TLC evaluates on every run:

- identifiers of different kinds differ, flags are Boolean, numbers of steps, limits and bounds are
  natural numbers, and of lists with a limit at least one entry is kept (`StoreAssumption`, `StartAssumption`,
  `LifecycleAssumption`, `StepsAssumption`, `RunnerAssumption`, `RetriesAssumption`, `DoctorAssumption`,
  `ChecksAssumption`, `GraphAssumption`);
- what is verified has the shape of a contract, a tree and the options (`RunAssumption`), and what a
  maintainer drafts has that of a contract (`InitAssumption`);
- a doctor starts on a machine with finitely many sessions and runs, each of its kind (`WorldsAssumption`,
  `ChangesAssumption`), and whatever a contract names is part of that machine: its tools have a state,
  its variables, Compose services and patterns are among those there are (`FilesAssumption`);
- what a build of the graph reads (inventory, texts, facts, contract, the doctor's records) is made of
  lists, each file has a path, and only a contract names applications (`ListsAssumption`);
- a question looks at least one edge far and an explanation two, as every caller in the repository asks,
  and the kinds of nodes it goes through are a list that has legacy candidates (`QuestionsAssumption`);
  the limits of answers are numbers, and that of the depth at least two (`LimitsAssumption`);
- git names a directory in place of paths in it only, and a moved path is left as some name (`ChecksAssumption`).

Some theorems have a hypothesis of their own:

- `PidReuse = FALSE`, where the code takes a pid for the process: with reuse the claims are false, as
  section 5 says.
- `Orderly`: a command is issued when no other runs (`Serial`), and a write of `processes.json` ends
  before the readiness window that began with it (`ProbeOutlastsWrites`). Two starts at once do lose records.
- `AloneSpec`: clears run alone, as in the run `graph`.
- `Text(c) # Absent` for every contract, that is, "no file" is told from every text.
- `IsFiniteSet(Problems)`, without which the list of known problems has no length.

### Starting and stopping

| Theorem | Statement | Argument |
|---|---|---|
| `TypeCorrect` | `TypeOK` of RuntimeLifecycle | A command at a label holds what the label needs (a victim at `remove`, a child at `register`, a current session from `signal` to `persist` whose target is there): without it the type of what it writes does not follow. |
| `LatestAlwaysRecorded` | `LatestIsRecorded` | Session files are never removed, and whoever owes a pointer write, or has a session past its creation, has written its file. |
| `RecordsStayOwned` (no pid reuse) | `RecordsAreOwned` | Every copy of a record, on file, in `buf`, in `records`, as victim, child or late write, names a pid the process table gives to its session; without reuse an owner never changes. |
| `StopSignalsOnlyTheSession` (no pid reuse) | `SignalsOnlyTheSession` | From the same invariant: the records a stop goes by are owned by the session they name. |
| `ErrorsEndSpawning` | `NoSpawnAfterErrors` | While applications are started neither the session file nor a stop's copy of it has errors, although the session object in memory may have some already. |
| `ProcessesStayTracked` (`Orderly`) | `Tracked` | `SerialInv`: one command runs; every copy of the records it goes by (`buf` at `register` and `remove`, `records` through a stop) names every running process but its child; the victim it is about to forget does not run. That a record is forgotten only then is what crashes anywhere would break. |
| `CleanupLeavesNothing` (`Orderly`) | `CleanupComplete` | `Cleaning`, part of `SerialInv`: a startup that is cut short stops its own session, by force and all of it; when that ends nothing of the session runs but a child still to be registered, and a startup that cleans up has none. |
| `StoppedStaysDown` (`Orderly`) | `StoppedIsDown` | `StoppedTruly`: what is about to be persisted as stopped is down, and a session that is stopped starts nothing. |
| `RunningStaysOnRecord` (`Orderly`, no pid reuse) | `RunningIsOnRecord` | `StatusInv`: `Due` is what each session owes a record (what it lists as running, less what is broken or being stopped), `Gone` the sessions of which no record may be left; every copy of the records agrees with both (`Agrees`). |
| `StopsAreReported` (`Orderly`, no pid reuse) | `StopIsReported` | The same invariant: a session that reads "stopped" is `Gone`, so that `board status` overlays nothing on it. What else can make it read "failed" (an error, a port, a health check) or warn is in its file, where the stop has left it. |
| `StepsTyped` | `TypeOK` of StartupSteps | Each phase maps the steps of the plan to the steps of the plan. |
| `SetupGuardsTheRest` | `NothingStartsAfterFailedSetup` | A failed required step or a missing variable implies `errors`; with errors `compose` and `applications` are out of reach, and nothing is up before them. |
| `StatusIsHonest` | `FinalStatusIsHonest` | Until the end, what was attempted is up or `errors` holds; after the checks a failed one implies `unhealthy`. |
| `CutsAreNamed` | `CutNamesAStep` | `record-state` is in every plan and pending until it is recorded, so there is a step to name. |
| `CutsKeepOutcomes` | `CutKeepsOutcomes` | The step named at each checkpoint is pending: the earlier phases have not touched it. |
| `StepsTakeTurns` | `StepsInTurn` | `ReportedUpTo` (the steps below the current one have reported, the others have not) and `Owned` (only a step of its kind that the loop has come to has a child or an answer). |
| `OutcomesEarned` | `OutcomesAreEarned` | `EventsOfChild` and `Fetched`: what an event says of a child is what became of it; an unfinished URL has had no more than its tries. |
| `ChecksImplementOutcomes` | `Implements` of HealthChecks | From `IInv` each step begins, reports or repeats a step of StepOutcomes, or stutters: timers, exits, events and tries that fail are stutters. |

### Verifying, writing contracts, the graph, diagnosing

| Theorem | Statement | Argument |
|---|---|---|
| `ChangesAreVerified` | `SelectionIsRight` | `SelectInv`: of what has differed in one way ever since the command was issued, `git status` has named what is untracked, and `git diff` the rest, in whichever order they ran and by the name it has had all the time; the selection is that of the two answers. |
| `RequirementsAreOrdered` | `PlanIsRight` | `OrderInv`, on the depth-first visit: the checks being visited form a path of requirements without repetition, what is placed has everything it requires before it, and a check is refused for one that is not selected or closes a circle of that path. |
| `RecordedAsRun` | `StatusIsHonest` of VerificationRun | `RunInv`: results are of the checks to run, of each once it has run, and what is on file is classified from them. |
| `HistoryHolds` | `HistoryIsRight` | `HistInv`: run files are never removed and every copy of the history names some that are there; in turn one command is busy and the history it has read is the history. |
| `FilesStaySound` | `FilesAreSound` | `Decided`: the text on its way to a file validates and differs from the file, from the decision to the rename; `TempsAreCleared` by every way out but a crash. |
| `WorkStays`, `ExistingStays` | `WorkIsKept`, `ExistingIsKept` | `Seen`: of an init that nothing disturbed, what it looked at (contract, draft and, if git status answered, each file it names) is still so when it renames; a merge keeps every entry of every section, of those with one name or pattern the last, and the verification as it was (lemmas on the merge). |
| `GeneratedStaysClosed` | `GeneratedIsClosed` | `Scanned`: what is generated is mapped from some scan of a tree; lemmas follow each reference through grouping and mapping, for any set of detectors that failed. |
| `WritesSettle` (texts) | `SettledAfterWrite` | Merging is idempotent on what was merged, and the written form is that of a contract with the same entries. |
| `GraphsAreWhole` (`AloneSpec`) | `Implements` of RepositoryGraph | `IInv`: a transaction holds what has been inserted up to its step, of one snapshot; after the first statement of a clear no build is committed. Each statement is then a step of GraphSnapshots or a stutter. |
| `AnswersAlwaysCommitted` | `AnswersWereCommitted`, of `AnswersAreTrue` | `AnswerInv`: the committed tables are among those of every question under way, so that what a statement reads is from one of them; a walk keeps what it read. It needs no restriction: clears and builds may do as they please. |
| `StatusAlwaysHonest` (`AloneSpec`) | `StatusIsHonest`, of `AnswersAreTrue` | `LatestInv`: the id kept as the latest is that of the build stored, if one is; `StatusInv`: what the first statement of a status read was stored during the question, and a second that finds no row has met another state of the tables. |
| `AnswersAlwaysTrue` (`AloneSpec`) | `AnswersAreTrue`, with the exact, shortest and used parts | `QuietInv`: a question in whose time one graph `d` was committed has read that graph `SoFar`. What is cut at the end is one of the cuts that the limits allow. `Walking` and `ByRounds` say of a walk that what it met and what waits in its queue make up what is within so many edges, so that at its end it has met `Within(d.edges, walked, depth)` for the nodes it was let start from; `Leads` gives each queued way a trail of as many edges as it is long, so that the first way to the target is a shortest one, and an empty queue means that there is none. `EmptyInv` (no tables, no rows) covers a question asked before the first build. `TypeInv` is for `TypeOK`. |
| `InvalidationAlwaysCovers` (`AloneSpec`) | `InvalidationCovers` | `GraphInv`: what is stored is the graph of some context, whole or with some tables cleared. `GraphIsFine`, over all sixteen parts of a graph for any lists of files, facts and records: there are finitely many records, a file node is named by its path, ids are unique, and what is cited is there. The plan compares paths; with this a path is a node. |
| `EdgesAlwaysEnd` (`AloneSpec`) | `EdgesEndAtNodes` | The same lemma, one per part, on where the edges of that part end: at nodes of the part, at nodes another part always has (`PartsFit`: files, commands, applications, routes, workers), or at one of the three kinds of places the property excepts. |
| `DoctorTyped` | `TypeOK` of DoctorRun | Every candidate file, and what is going to be written into it, is of its own candidate. |
| `ListedAlwaysFound` | `ListedIsFound` | Files are never removed; the index, every copy of it a command has read, and every candidate about to be listed have their file. |
| `RecentAlwaysRecorded` | `RecentIsRecorded` | The same for the pointer and its copies; a doctor that is about to write it has recorded its run. |
| `CountsAlwaysEarned` | `CountsAreEarned` | `found` only grows, so a stale copy of the list counts no more than the current value. |
| `DecisionsAlwaysKept` | `DecisionsKept` | `OneRuns`: in turn one command has anything under way; `StatusKept`: every file, and every upsert that has read one, has the status last decided. |
| `MatchedAlwaysKnown` (finite problems) | `MatchedStaysKnown` | `KnownKept`: the list has one record per problem, so that by cardinality it is never cut while there is room for all problems; every copy about to be written back names what was matched. Of `Kept` in turn only. |
| `EvidenceAlwaysWasSo` | `EvidenceWasSo` of Diagnosis | `EvidenceInv`: what the context of the rules holds, and what the inspector at work has read so far, was in `seen` when it was read, and `seen` only grows; fourteen lemmas follow it through the rules (`RulesSound`). That Docker's four answers are of four moments is why the daemon's may be a lie of the client's (`WasSo`). "Missing path" is said, and was so, of the inventory. |
| `RulesAlwaysAgree` | `RulesAgree` | `InspectedInv`: in which order the inspectors are done, and that the ports checked are those of the very sessions and contract in the context; `ReportInv`: what has been read is finite, so that what is said to recur has two different findings (`RepeatedAreBacked`, `RecurringAreBacked`). |
| `LastingAlwaysReported` | `LastingTroubleIsReported` | `LastingInv`: of what has lasted, each inspector that is done has read it, and the one at work has it in `pending` (`PendingKeeps`); what is new on the machine cannot join `lasting`, and sessions and runs that lasted have only got older, so that a cut to the latest that keeps them at the end has kept them when they were read. A doctor ends without a report only for a pattern that throws and that it has read in the contract (`ThrownFor`). |

### Only model-checked

- `CommandsEnd` and `ChecksGoOn`: liveness, which is out of the prover's reach, as is `ENABLED`.
- The two violations.

Induction over data is not available as a rule, since its theorems take an operator for a parameter.
Where it is needed for a recursive function (what is within a number of steps, what a concatenation of
lists has), `SetInduction` has it of a set of numbers, from `WFMin`. No module declares a recursive
operator.

## 5. What the code does otherwise than it is said to do

Two are runs that TLC refutes.

- `optional_service`: the serializer drops every `required: false`, and a service without the field
  is parsed as required, so that an `init --write` makes a service required that its maintainers had
  made optional (`init-core/README.md:58`).
- `graph_fingerprints`: parts merged after the structural one add the file nodes again without
  metadata, so that the stored node of a source file has no fingerprint
  (`repository-graph/README.md:126`).

Seen while modelling, without a run of their own:

- Runtime. A stop signals whatever process the recorded pid names now
  (`bootstrap-runtime/README.md:135`). A graceful stop forgets the record of a process that ignores
  SIGTERM, so that the forced stop that the troubleshooting section recommends finds nothing. Two
  startups at once lose a process record. A stopped session whose ports or health checks had failed reads
  "failed" in `board status` (`status.ts:112`). A setup step whose dependency was skipped after a failure
  runs. `--only` with an application starts every Compose service. Stopping an older session moves the
  latest pointer to it. The steps of a session are rebuilt from the plan twice, so that steps that had
  succeeded read "pending" again. A stop killed between removing a record and writing the session leaves
  the application "running" in the session for ever.
- Commands. SIGTERM is sent once; a command that ignores it holds everything. One that exited with 0
  while descendants hold its output past the timeout has timed out. Where a signal is not permitted the
  step settles while the command runs on. Tries of a URL follow each other without a pause.
- Verification. Unknown `--check` ids are ignored. The selector takes patterns for prefixes and the
  component impact for globs, so that a star in the middle selects no check by its path. An application
  concerns every path that begins with its directory's name, a service every path that contains its name.
  With `--base` a file committed for the first time between the two git commands is missed. A git command
  that fails counts as no change, with a warning. `git status` names an untracked directory in place of
  its files (`verification-runtime/src/git.ts:36`), so that a pattern for their names selects nothing; of
  the old path of a rename the parser drops three characters.
- Init. A generated variable name that the schema refuses makes the whole command fail. A second
  `init --write` next to an invalid contract fails because the draft is there already. git's paths are relative
  to the top level, so that below it nothing ever looks uncommitted; nor does anything when git status
  fails (`init-core/src/worktree.ts:57`), nor a contract that is renamed in the index or ignored and
  never committed: each is written over without `--force`. The merge keeps one of several items with one
  pattern or name (`merge-contract.ts:160`). The root's application has its type for an id, which any
  framework of the repository decides: a later scan can add it a second time. An entry point is grouped
  by the name of its package, or of a Python variable, as if that were a path, and yields an application
  of its own. A cache that Compose defines is reported as undefined when a package uses it.
- Graph. `board graph status` passes no previous build and always plans a full one
  (`cli/src/commands/graph.ts:44`). Two builds at once: the second fails. A question that overlaps a
  rebuild mixes two builds. `clear` has no transaction. Patterns of a contract become file nodes that a
  plan always takes for deleted. Answers are cut at 25, 100 and 6 without a warning, so that a candidate
  in use may read unused (`repository-graph/src/queries.ts:46`).
- Doctor. A doctor alone with several findings loses some: all upserts read the list before any has
  written it. `board doctor --dry-run` still imports candidates and writes a run
  (`doctor-runtime/README.md:22` against `doctor-runtime/src/doctor-runner.ts:122`). A missing contract
  is reported twice. A Docker client that fails to list containers makes all services missing, and
  without a client a repository without services is blocked. Old sessions that run are called stale. One
  failed migration is reported as "repeated". `docs.stale-references` is never given anything to look at.
  A pattern with a star in front, or two elsewhere than at its end, makes its rule throw, and the doctor
  ends without a report (`contract-rules.ts:288`). A path that exists but that Git does not list, or in a
  build directory, is evidence of a missing path (`contract-rules.ts:130`).

## 6. What is not modelled

Output: reports, reviews, diffs, JSON documents, redaction, telemetry, next steps. Read-only wrappers:
tools, prerequisites, devcontainer inspection, the TCP probe of a port. Code that nothing calls: the table
of session transitions, resolutions and `updateStatus` of known problems, the JSON fixture store of the
graph. Parsing: how a detector or an extractor finds what it finds in a text, the value formats of the
schema; the model starts from what is found. Detectors whose facts reach no modelled section (languages,
package managers, documents, legacy code), and how the inventory of files
is made for them. Store files that do not parse are read as empty by the doctor and make a runtime
command fail; since every write is a rename, no command produces one. The agent, policy and
server packages and `apps/*` are placeholders. `python/` is not part of the command line.

## 7. Plan

Every component with behaviour of its own has a module, and every safety property that a run checks is
a theorem. What would come next:

- the detectors and extractors as functions from texts to facts, instead of any facts at all;
- `required` of a service through a merge, once the serializer keeps it (section 5).
