------------------------------- MODULE MCDiagnosis -------------------------------
(***************************************************************************)
(* Instances of Diagnosis for TLC.                                         *)
(***************************************************************************)
EXTENDS Diagnosis, TLC

\* A repository of one application and one Compose service that claim the same port.
MCContract ==
    [language |-> "typescript",
     commands |-> {[id |-> "setup.migrate", at |-> "setup", name |-> "pnpm",
                    environment |-> {"DATABASE_URL"}, optional |-> FALSE],
                   [id |-> "dev", at |-> "component", name |-> "node",
                    environment |-> {"DEBUG"}, optional |-> TRUE]},
     applications |-> ("web" :> [ports |-> {8080}, environment |-> {}]),
     services |-> ("db" :> [compose |-> "postgres", ports |-> {8080}, environment |-> {"DEBUG"},
                            required |-> FALSE]),
     environment |-> ("DATABASE_URL" :> Absent),
     patterns |-> {[section |-> "unsafe_paths", pattern |-> "migrations/**"],
                   [section |-> "generated_files", pattern |-> "dist/**"]},
     checks |-> {[id |-> "test", patterns |-> {"migrations/**"}, components |-> {"web"}]}]

\* One in Python, with a Compose service nobody has started and a check about a component that is
\* gone.
MCOther ==
    [language |-> "python",
     commands |-> {[id |-> "test", at |-> "check", name |-> "pytest",
                    environment |-> {"DEBUG"}, optional |-> TRUE]},
     applications |-> ("web" :> [ports |-> {8080}, environment |-> {"DATABASE_URL"}]),
     services |-> ("cache" :> [compose |-> "redis", ports |-> {}, environment |-> {},
                               required |-> FALSE]),
     environment |-> ("DATABASE_URL" :> "optional" @@ "DEBUG" :> "required"),
     patterns |-> {},
     checks |-> {[id |-> "test", patterns |-> {}, components |-> {"db"}]}]

\* The first with a check for a pattern that makes no regular expression.
MCThrowing == [MCContract EXCEPT !.checks = {[id |-> "test", patterns |-> {"**/*.sql"}, components |-> {}]}]

Valid(contract) == [state |-> "valid", contract |-> contract]

Bad(state) == [state |-> state, contract |-> Absent]

MCEdits == {Valid(MCContract), Valid(MCOther), Valid(MCThrowing), Bad("missing"), Bad("invalid")}

Migrate == [part |-> "setup", id |-> "migrate"]
MigrateCommand == [part |-> "command", id |-> "migrate"]
WebHealth == [part |-> "health", id |-> "web"]
WebResource == [part |-> "resource", id |-> "web"]

MCFailures == {Migrate, WebHealth}

MCCovers ==
    "migrations/**" :> {"migrations/1.sql"} @@ "dist/**" :> {"dist/app.js"} @@ "**/*.sql" :> {}

\* The container of another project, of which "postgres" is part of the name.
MCIncludes == "shop-db" :> {"postgres"} @@ "shop-pg" :> {} @@ "postgres-admin" :> {"postgres"}

Session(status, started, old, failures, ports) ==
    [status |-> status, started |-> started, old |-> old, failures |-> failures, ports |-> ports]

Well ==
    [file |-> Valid(MCContract),
     tree |-> {"package.json", "pnpm-lock.yaml", "pyproject.toml", "migrations/1.sql", "dist/app.js"},
     tracked |-> {"package.json", "pnpm-lock.yaml", "pyproject.toml", "migrations/1.sql"},
     tools |-> [t \in {"node", "pnpm", "python3", "pytest", "docker", "docker compose"} |-> "ok"],
     docker |-> {"client", "daemon", "compose", "list"},
     containers |-> ("shop-pg" :> [service |-> "postgres", state |-> "up"]),
     sessions |-> ("s1" :> Session("running", 1, FALSE, {}, {8080})),
     runs |-> <<>>,
     unreadable |-> {},
     present |-> {"DATABASE_URL"}]

\* Trouble everywhere: a failed migration and a stale session, another project's container, a
\* check that has failed twice.
Ill ==
    [Well EXCEPT
        !.tree = {"pnpm-lock.yaml", "migrations/1.sql"}, !.tracked = {}, !.present = {"DEBUG"},
        !.tools = [Well.tools EXCEPT !["pnpm"] = "fails", !["node"] = "late"],
        !.containers = "shop-pg" :> [service |-> "postgres", state |-> "unhealthy"]
                       @@ "postgres-admin" :> [service |-> "admin", state |-> "up"],
        !.sessions = "s1" :> Session("running", 1, TRUE, {}, {8080})
                     @@ "s2" :> Session("failed", 2, FALSE, {Migrate, MigrateCommand}, {}),
        !.runs = <<[name |-> "v1", outcomes |-> ("test" :> "failed" @@ "lint" :> "skipped")],
                   [name |-> "v0", outcomes |-> ("test" :> "failed" @@ "lint" :> "blocked")]>>]

\* Without a contract, and nothing that can be read.
Blind ==
    [Well EXCEPT !.file = Bad("unreadable"), !.tracked = Absent, !.unreadable = {"runtime", "history"},
                 !.runs = Ill.runs, !.docker = {"client"}, !.present = {}]

\* Two sessions that failed at the same, the older of which was stopped, and one before them.
Failed ==
    [Well EXCEPT
        !.file = Valid(MCOther), !.present = {},
        !.sessions = "s0" :> Session("failed", 0, TRUE, {Migrate}, {})
                     @@ "s1" :> Session("stopped", 1, TRUE, {WebHealth}, {8080})
                     @@ "s2" :> Session("failed", 2, FALSE, {WebHealth, WebResource}, {8080}),
        !.runs = <<[name |-> "v0", outcomes |-> ("test" :> "blocked" @@ "lint" :> "passed")]>>]

MCWorlds == {Well, Ill, Blind, Failed}

MCNewRuns == "v2" :> ("test" :> "timed_out" @@ "lint" :> "skipped")

Request(category, without, dry) == [category |-> category, without |-> without, dry |-> dry]

\* board doctor, with --no-runtime, --no-docker and --no-history, --category, --dry-run, and with
\* a category that there is not.
MCOptions ==
    {Request({}, {}, FALSE),
     Request({}, {"runtime"}, FALSE),
     Request({"runtime", "ports", "verification"}, {}, FALSE),
     Request({"docs"}, {}, TRUE),
     Request({"docs", "tests"}, {"docker", "history"}, FALSE)}

\* All tools are alike: one that either contract needs is enough to come and go.
OneTool == \A t \in DOMAIN tools \ {"pnpm", "python3"} : tools'[t] = tools[t]

MCSpec == Init /\ [][Next /\ OneTool]_vars
=============================================================================
